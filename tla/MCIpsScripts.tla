---------------------------- MODULE MCIpsScripts ----------------------------
(***************************************************************************)
(* Two interchangeable IPs with one block each; every combination of a     *)
(* list of targets (one of them refused by the tool), of flags and of      *)
(* arguments.                                                              *)
(***************************************************************************)
EXTENDS IpsScripts

CONSTANTS a, b, rtl_block, soc

MCIps == {a, b}
MCTechs == {"xilinx", "gf22"}

AllKeys == {"files", "targets", "flags"}
TargetLists == {{"all"}, {"rtl"}, {"gf22"}, {"xilinx", "rtl"}, {"verilator"}, {"rtl", "lint"}}
FlagLists == {{}, {"skip_simulation"}, {"skip_synthesis"}, {"skip_tcsh"}, {"only_local"},
              {"skip_synthesis", "only_local"}}

MCWords == AllowedKeys \cup AllowedFlags \cup AllowedTargets \cup {"lint", "tech"}

B(keys, t, f) == [keys |-> keys, targets |-> t, flags |-> f, incdirs |-> TRUE]
MCBlocks == {B(AllKeys, t, f) : t \in TargetLists, f \in FlagLists}
            \cup {B({"files"}, {}, {}), B({"targets"}, {"all"}, {}), B({"files", "tech"}, {}, {})}

OneBlock(blk, d, alt) == [domain |-> d, alternatives |-> alt, subs |-> [s \in {rtl_block} |-> blk]]

MCDatabases ==
    {[i \in MCIps |-> IF i = a THEN OneBlock(blk, d, {a, b}) ELSE OneBlock(blk, {soc}, None)] :
        blk \in MCBlocks, d \in {None, {}, {soc}}}

MCRequests == [target_tech : MCTechs \cup {None}, local : BOOLEAN,
               domain : {soc, None}, alternatives : {{}, {a}, {b}}]
=============================================================================
