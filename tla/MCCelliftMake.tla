--------------------------- MODULE MCCelliftMake ---------------------------
(***************************************************************************)
(* A cut of the design: two packages with one importing the other, a core  *)
(* with two imports, the tap with its pragmas, the memories, the modules   *)
(* that are replaced or removed, and one module that is defined twice.     *)
(***************************************************************************)
EXTENDS CelliftMake

M(name, uses) == Unit("module", name, <<>>, uses)

MCPickled ==
    << Unit("package", "riscv_defines", <<>>, {}),
       Import("riscv_defines"), Line, Unit("package", "apu_core_package", <<>>, {}),
       Import("riscv_defines"), Import("apu_core_package"), Line, M("riscv_id_stage", {}),
       Off, Line, On, M("tap_top", {}),
       M("soc_clk_rst_gen", {}), M("boot_rom", {}),
       M("generic_memory", {}), M(Scm, {}), M("model_sram_28672x32_scm_512x32", {}),
       M("axi_slice", {}), M("axi_slice", {}),
       M("l2_ram_multi_bank", {<<"generic_memory", "bank_sram_pri1_i">>,
                               <<"model_sram_28672x32_scm_512x32", "bank_i">>,
                               <<Scm, "bank_sram24k_scm8k_pri0_i">>}),
       M("apb_soc_ctrl", {<<NoModule, "r_fetchen">>}),
       M("soc_domain", {<<"soc_clk_rst_gen", "i_clk_rst_gen">>, <<"boot_rom", "boot_rom_i">>,
                        <<"l2_ram_multi_bank", "l2_ram_i">>, <<"apb_soc_ctrl", "soc_ctrl_i">>,
                        <<"riscv_id_stage", "id_stage_i">>, <<"tap_top", "tap_i">>,
                        <<"axi_slice", "slice_i">>}) >>

MCToRemove == <<"soc_clk_rst_gen", "boot_rom", "model_sram_28672x32_scm_512x32", "axi_slice">>

Build(goals, j) == [goals |-> goals, j |-> j]
\* Without the log of an earlier build, the first of them stops early.
MCBuilds == {Build({"vanilla", "cellift"}, 2), Build({"vanilla"}, 2), Build({"cellift", "glift"}, 1)}
ParallelBuilds == {Build({"cellift", "glift"}, 1), Build({"cellift", "glift"}, 2)}

Scripts == {"fix_global_imports", "remove_modules", "replace_instances", "remove_pragma", "sv2v",
            "insert_blackbox", "yosys", "remove_memories", "compact", "deparam", "fusesoc"}
=============================================================================
