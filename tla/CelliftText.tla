---------------------------- MODULE CelliftText ----------------------------
(***************************************************************************)
(* The scripts of cellift/python_scripts as functions on Verilog files.    *)
(*                                                                         *)
(* A file is a sequence of items: a global import, a line that is blank, a *)
(* comment or a directive, a pragma that switches translation off or on,   *)
(* or a design unit.  Of a unit the scripts tell apart its kind, its name, *)
(* the imports of its header, the instances in it (pairs of module and     *)
(* instance name; NoModule for a statement), and whether it carries the    *)
(* blackbox attribute.  A script that raises gives Raise.                  *)
(***************************************************************************)
EXTENDS Naturals, SequencesExt

CONSTANTS Raise, NoModule

Import(p) == [is |-> "import", name |-> p]
Line == [is |-> "line"]
Off == [is |-> "off"]
On == [is |-> "on"]
Unit(kind, name, imports, uses) ==
    [is |-> "unit", kind |-> kind, name |-> name, imports |-> imports, uses |-> uses,
     blackbox |-> FALSE]

IsUnit(item) == item.is = "unit"
IsModule(item, name) == IsUnit(item) /\ item.kind = "module" /\ item.name = name
Units(file) == {n \in DOMAIN file : IsUnit(file[n])}
Keep(file, Test(_)) ==
    FoldLeft(LAMBDA kept, n : IF Test(n) THEN Append(kept, file[n]) ELSE kept, <<>>,
             [n \in 1..Len(file) |-> n])
OnUnits(file, Change(_)) ==
    [n \in DOMAIN file |-> IF IsUnit(file[n]) THEN Change(file[n]) ELSE file[n]]

(***************************************************************************)
(* fix_global_imports.py: an import with only lines between it and the     *)
(* header of a unit moves into the unit, again and again until no match.   *)
(***************************************************************************)
Target(file, n, kinds) ==
    {m \in Units(file) : /\ m > n
                         /\ file[m].kind \in kinds
                         /\ \A j \in (n + 1)..(m - 1) : file[j].is \in {"line", "off", "on"}}
Moved(file, kinds) == {n \in DOMAIN file : file[n].is = "import" /\ Target(file, n, kinds) # {}}
FixPass(file, kinds) ==
    LET moved == Moved(file, kinds)
        into(m) == {n \in moved : m \in Target(file, n, kinds)}
        fixed == [m \in DOMAIN file |->
                     IF IsUnit(file[m]) /\ into(m) # {}
                     THEN [file[m] EXCEPT !.imports = <<file[CHOOSE n \in into(m) : TRUE].name>> \o @]
                     ELSE file[m]]
    IN  Keep(fixed, LAMBDA n : n \notin moved)

\* Mutant: one pass, without the loop.
FixOnce(file, kinds) == FixPass(file, kinds)

FixLoop(file, kinds) ==
    LET after[n \in 0..Len(file)] == IF n = 0 THEN file ELSE FixPass(after[n - 1], kinds)
    IN  after[Len(file)]
fix_global_imports(file) == FixLoop(FixLoop(file, {"module", "interface"}), {"package"})

(***************************************************************************)
(* The other scripts                                                       *)
(***************************************************************************)
\* remove_modules.py: the first definition of each name.
RemoveDefinition(file, name) ==
    Keep(file, LAMBDA n : \/ ~IsModule(file[n], name)
                          \/ \E m \in 1..(n - 1) : IsModule(file[m], name))
remove_modules(file, names) == FoldLeft(RemoveDefinition, file, names)

\* Each occurrence of an origin is replaced; one at least must occur.
Replace(file, r) ==
    IF file = Raise THEN Raise
    ELSE IF \A n \in Units(file) : r.old \notin file[n].uses THEN Raise
    ELSE OnUnits(file, LAMBDA u : IF r.old \in u.uses
                                  THEN [u EXCEPT !.uses = (@ \ {r.old}) \cup r.new] ELSE u)

\* replace_instances_hdac.py: the clock generator becomes assignments.
Replacements ==
    << [old |-> <<"soc_clk_rst_gen", "i_clk_rst_gen">>, new |-> {}],
       [old |-> <<NoModule, "r_fetchen">>, new |-> {<<NoModule, "r_fetchen 1">>}],
       [old |-> <<"generic_memory", "bank_sram_pri1_i">>, new |-> {<<"ift_sram", "bank_sram_pri1_i">>}],
       [old |-> <<"model_sram_28672x32_scm_512x32", "bank_i">>, new |-> {<<"ift_sram", "bank_i">>}],
       [old |-> <<"boot_rom", "boot_rom_i">>, new |-> {<<"ift_boot_rom_hdac", "boot_rom_i">>}] >>
replace_instances_hdac(file) == FoldLeft(Replace, file, Replacements)

\* remove_pragma_translate_off.py: from an off to the first on after it.
remove_pragma_translate_off(file) ==
    Keep(file, LAMBDA n :
        ~(/\ \E m \in 1..n : file[m].is = "off" /\ \A j \in m..(n - 1) : file[j].is # "on"
          /\ \E m \in n..Len(file) : file[m].is = "on"))

\* The sed of the Makefile: all attributes go.
remove_attributes(file) == OnUnits(file, LAMBDA u : [u EXCEPT !.blackbox = FALSE])

\* insert_blackbox_attrs.py: the one definition of the memory is marked.
Scm == "model_6144x32_2048x32scm"
insert_blackbox_attrs(file) ==
    IF \E m \in Units(file) : {n \in Units(file) : file[n].name = Scm} = {m}
    THEN OnUnits(file, LAMBDA u : IF u.name = Scm THEN [u EXCEPT !.blackbox = TRUE] ELSE u)
    ELSE Raise

\* deparam_mem_module_names.py: the names that Yosys gave to parametrised
\* memories become the names of the sources again; the memory that is not
\* instrumented becomes constants.
Deparams ==
    << [old |-> <<"$paramod", "boot_rom_i">>, new |-> {<<"ift_boot_rom_hdac", "boot_rom_i">>}],
       [old |-> <<"$paramod", "bank_i">>, new |-> {<<"ift_sram", "interleaved_sram_i">>}],
       [old |-> <<"$paramod", "bank_sram_pri1_i">>, new |-> {<<"ift_sram", "pri1_sram_i">>}],
       [old |-> <<Scm, "bank_sram24k_scm8k_pri0_i">>, new |-> {}] >>
deparam_mem_module_names(file) == FoldLeft(Replace, file, Deparams)

(***************************************************************************)
(* External tools                                                          *)
(***************************************************************************)
Defined(file) == {file[n].name : n \in Units(file)}
Used(file) == {u[1] : u \in UNION {file[n].uses : n \in Units(file)}} \ {NoModule}

\* sv2v leaves modules, with their imports resolved.
sv2v(file) == OnUnits(Keep(file, LAMBDA n : IsUnit(file[n]) /\ file[n].kind = "module"),
                      LAMBDA u : [u EXCEPT !.imports = <<>>])

\* Yosys flattens the design into the top module and keeps the instances of
\* blackboxes, renamed when they are parametrised.  A module that is missing
\* or defined twice is an error.
Blackboxes(file) == {file[n].name : n \in {m \in Units(file) : file[m].blackbox}}
yosys(file) ==
    IF \/ ~(Used(file) \subseteq Defined(file))
       \/ \E m, n \in Units(file) : m # n /\ file[m].name = file[n].name
    THEN Raise
    ELSE LET all == UNION {file[n].uses : n \in Units(file)}
             kept == {u \in all : u[1] \in Blackboxes(file)}
         IN  <<Unit("module", "soc_domain", <<>>,
                    {IF u[1] = Scm THEN u ELSE <<"$paramod", u[2]>> : u \in kept})>>
=============================================================================
