----------------------------- MODULE IpsScripts -----------------------------
(***************************************************************************)
(* Script generation of ipstools: SubIPConfig.py and IPConfig.py decide,   *)
(* for every block of a src_files.yml (a sub-IP) and every backend,        *)
(* whether the block is part of the generated script; the exporters and    *)
(* list generators of IPDatabase.py decide it for every IP.  A script that *)
(* names things and the script that defines them are written by different  *)
(* functions, each with a filter of its own.                               *)
(*                                                                         *)
(* A block is what its src_files.yml entry says: targets, flags, whether   *)
(* there are Verilog and VHDL files among its files, and include dirs.     *)
(* The text of the scripts is left out: a script is the set of the blocks  *)
(* or IPs it mentions.                                                     *)
(***************************************************************************)
EXTENDS Naturals, FiniteSets

CONSTANTS
    Ips,        \* the IPs of the database
    Subs,       \* the names of sub-IPs
    Domains,    \* synthesis domains
    Techs,      \* technology targets, "xilinx" among them
    None,       \* Python's None
    Words,      \* keys, targets and flags that occur in src_files.yml files
    Databases,  \* the databases to export
    Requests    \* the arguments of the exporters

\* The lists at the top of SubIPConfig.py; Techs are the technologies of theirs.
AllowedTargets == {"all", "rtl", "verilator"} \cup Techs
AllowedFlags == {"skip_simulation", "skip_synthesis", "skip_tcsh", "only_local"}
AllowedKeys == {"files", "incdirs", "vlog_opts", "vcom_opts", "targets", "flags", "defines", "dir"}

Block == [keys : SUBSET Words, targets : SUBSET Words, flags : SUBSET Words,
          incdirs : BOOLEAN]
IsIp(ip) ==
    /\ ip.domain \in SUBSET Domains \cup {None}
    /\ ip.alternatives \in SUBSET Ips \cup {None}
    /\ DOMAIN ip.subs \subseteq Subs
    /\ \A s \in DOMAIN ip.subs : ip.subs[s] \in Block
Request == [target_tech : Techs \cup {None}, local : BOOLEAN,
            domain : Domains \cup {None}, alternatives : SUBSET Ips]

ASSUME ConstantsAssumption ==
    /\ "xilinx" \in Techs
    /\ "lint" \notin Techs
    /\ None \notin Techs
    /\ None \notin Domains
    /\ \A db \in Databases : DOMAIN db = Ips /\ \A i \in Ips : IsIp(db[i])
    /\ Requests \subseteq Request

VARIABLES
    ip_dic,     \* the database, one IPConfig per IP
    request,    \* the arguments of the calls, the same for a pair of calls
    pc,         \* the call that comes next
    mk,         \* per IP, [deps, rules]: stamps its _vmake depends on, stamps with a rule
    tcl,        \* [written, listed]: analyze scripts on disk, and sourced by the list
    vivado,     \* [set, added, incs]: SRC_ variables set, added, blocks giving include dirs
    sim, syn    \* every block a simulation and a synthesis script was generated for

vars == <<ip_dic, request, pc, mk, tcl, vivado, sim, syn>>

Blocks == {b \in Ips \X Subs : b[2] \in DOMAIN ip_dic[b[1]].subs}
BlockAt(b) == ip_dic[b[1]].subs[b[2]]

(***************************************************************************)
(* SubIPConfig: checks of the constructor                                  *)
(***************************************************************************)
CheckDic(b) == "files" \in b.keys /\ b.keys \subseteq AllowedKeys

\* A missing key stands for the default; the lists are checked in any case.
TargetsOf(b) == IF "targets" \in b.keys THEN b.targets ELSE {"all"}
FlagsOf(b) == IF "flags" \in b.keys THEN b.flags ELSE {}

\* Mutant: the targets are taken as they come.
AcceptedWithoutTargets(b) == CheckDic(b) /\ FlagsOf(b) \subseteq AllowedFlags

\* The constructor returns; otherwise it ends the program with sys.exit(1).
Accepted(b) ==
    /\ CheckDic(b)
    /\ TargetsOf(b) \subseteq AllowedTargets
    /\ FlagsOf(b) \subseteq AllowedFlags

HasTarget(b, names) == TargetsOf(b) \cap names # {}
Flag(b, f) == f \in FlagsOf(b)

(***************************************************************************)
(* SubIPConfig and IPConfig: the filters                                   *)
(***************************************************************************)
\* IPConfig.export_make: the stamps that the IP's target depends on.
MakeDep(b, r) ==
    /\ HasTarget(b, {"all", "rtl", r.target_tech})
    /\ ~Flag(b, "skip_simulation")
    /\ ~Flag(b, "only_local") \/ r.local

\* SubIPConfig.export_make reads its local linting before it is assigned
\* when a block has a lint target and is not skipped for synthesis.
UnboundLinting(b) == "lint" \in TargetsOf(b) /\ ~Flag(b, "skip_synthesis")

\* Mutant: a local block is never built.
MakeRuleNoLocal(b, r) ==
    /\ HasTarget(b, {"all", "rtl", r.target_tech})
    /\ ~Flag(b, "only_local")
    /\ ~Flag(b, "skip_simulation")

\* SubIPConfig.export_make: the rule of the stamp.  linting is False here.
MakeRule(b, r) ==
    /\ HasTarget(b, {"all", "rtl", r.target_tech})
    /\ ~(Flag(b, "only_local") /\ ~r.local)
    /\ ~Flag(b, "skip_simulation")

\* Mutant: the Xilinx variant does not look at the flags.
VsimXilinxAlways(b) == HasTarget(b, {"all", "xilinx"})

\* __export_vsim_xilinx
VsimXilinx(b) ==
    /\ HasTarget(b, {"all", "xilinx"})
    /\ ~Flag(b, "skip_simulation")

\* export_vsim; the legacy blacklist is empty.  only_local is tested in the
\* opposite sense of export_make.
Vsim(b, r) ==
    /\ HasTarget(b, {"all", "rtl", r.target_tech})
    /\ IF r.target_tech = "xilinx"
       THEN VsimXilinx(b)
       ELSE /\ ~(Flag(b, "only_local") /\ r.local)
            /\ ~Flag(b, "skip_simulation")
            /\ ~Flag(b, "skip_tcsh")

Synopsys(b, r) ==
    /\ r.target_tech = None \/ HasTarget(b, {"all", r.target_tech})
    /\ ~Flag(b, "skip_synthesis")

Cadence(b, r) ==
    /\ HasTarget(b, {"all", r.target_tech})
    /\ ~Flag(b, "skip_synthesis")

\* SubIPConfig.export_vivado: set SRC_<name>
VivadoSet(b) ==
    /\ HasTarget(b, {"all", "xilinx"})
    /\ ~Flag(b, "skip_synthesis")

Synplify(b) == HasTarget(b, {"all", "xilinx"}) /\ ~Flag(b, "skip_synthesis")

\* IPConfig.generate_vivado_add_files: add_files $SRC_<name>
VivadoAdd(b) ==
    /\ HasTarget(b, {"xilinx", "all"})
    /\ ~Flag(b, "skip_synthesis")

\* IPConfig.generate_vivado_inc_dirs
VivadoInc(b) == VivadoAdd(b) /\ b.incdirs

(***************************************************************************)
(* IPDatabase: the filters over IPs                                        *)
(***************************************************************************)
\* "domain in None" raises TypeError, and every handler includes the IP then.
InDomain(i, r) ==
    \/ r.domain = None
    \/ ip_dic[i].domain = None
    \/ r.domain \in ip_dic[i].domain

\* export_synopsys and export_cadence write <ip>.tcl.
TclWritten(i, r) == InDomain(i, r)

\* generate_synopsys_list sources <ip>.tcl.
TclListed(i, r) == InDomain(i, r)

AlternativeChosen(i, r) ==
    \/ ip_dic[i].alternatives = None
    \/ i \in r.alternatives \cap ip_dic[i].alternatives

VivadoExported(i, r) == AlternativeChosen(i, r) /\ InDomain(i, r)

\* Mutant: the list of files forgets the alternatives.
VivadoListedAll(i, r) == InDomain(i, r)

VivadoListed(i, r) == AlternativeChosen(i, r) /\ InDomain(i, r)

(***************************************************************************)
(* The calls of a generator script                                         *)
(***************************************************************************)
Init ==
    /\ ip_dic \in Databases
    /\ request \in Requests
    /\ pc = "import"
    /\ mk = [i \in Ips |-> [deps |-> {}, rules |-> {}]]
    /\ tcl = [written |-> {}, listed |-> {}]
    /\ vivado = [set |-> {}, added |-> {}, incs |-> {}]
    /\ sim = {}
    /\ syn = {}

ImportYaml ==
    /\ pc = "import"
    /\ pc' = IF \A b \in Blocks : Accepted(BlockAt(b)) THEN "make" ELSE "exit"
    /\ UNCHANGED <<ip_dic, request, mk, tcl, vivado, sim, syn>>

ExportMake ==
    /\ pc = "make"
    /\ IF \E b \in Blocks : UnboundLinting(BlockAt(b))
       THEN pc' = "exception" /\ UNCHANGED <<mk, sim>>
       ELSE LET rules == {b \in Blocks : MakeRule(BlockAt(b), request)}
            IN  /\ pc' = "vsim"
                /\ mk' = [i \in Ips |->
                            [deps  |-> {b \in Blocks : b[1] = i /\ MakeDep(BlockAt(b), request)},
                             rules |-> {b \in rules : b[1] = i}]]
                /\ sim' = sim \cup rules
    /\ UNCHANGED <<ip_dic, request, tcl, vivado, syn>>

ExportVsim ==
    /\ pc = "vsim"
    /\ sim' = sim \cup {b \in Blocks : Vsim(BlockAt(b), request)}
    /\ pc' = "analyze"
    /\ UNCHANGED <<ip_dic, request, mk, tcl, vivado, syn>>

\* export_synopsys or export_cadence, the scripts of each IP.
ExportAnalyze ==
    /\ pc = "analyze"
    /\ LET written == {i \in Ips : TclWritten(i, request)}
       IN  /\ tcl' = [tcl EXCEPT !.written = written]
           /\ \/ syn' = syn \cup {b \in Blocks : b[1] \in written /\ Synopsys(BlockAt(b), request)}
              \/ syn' = syn \cup {b \in Blocks : b[1] \in written /\ Cadence(BlockAt(b), request)}
    /\ pc' = "list"
    /\ UNCHANGED <<ip_dic, request, mk, vivado, sim>>

GenerateSynopsysList ==
    /\ pc = "list"
    /\ tcl' = [tcl EXCEPT !.listed = {i \in Ips : TclListed(i, request)}]
    /\ pc' = "vivado"
    /\ UNCHANGED <<ip_dic, request, mk, vivado, sim, syn>>

ExportVivado ==
    /\ pc = "vivado"
    /\ LET set == {b \in Blocks : VivadoExported(b[1], request) /\ VivadoSet(BlockAt(b))}
       IN  /\ vivado' = [vivado EXCEPT !.set = set]
           /\ syn' = syn \cup set \cup {b \in Blocks : Synplify(BlockAt(b))}
    /\ pc' = "add_files"
    /\ UNCHANGED <<ip_dic, request, mk, tcl, sim>>

GenerateVivadoAddFiles ==
    /\ pc = "add_files"
    /\ vivado' = [vivado EXCEPT !.added = {b \in Blocks : /\ VivadoListed(b[1], request)
                                                          /\ VivadoAdd(BlockAt(b))}]
    /\ pc' = "inc_dirs"
    /\ UNCHANGED <<ip_dic, request, mk, tcl, sim, syn>>

GenerateVivadoIncDirs ==
    /\ pc = "inc_dirs"
    /\ vivado' = [vivado EXCEPT !.incs = {b \in Blocks : /\ VivadoListed(b[1], request)
                                                         /\ VivadoInc(BlockAt(b))}]
    /\ pc' = "done"
    /\ UNCHANGED <<ip_dic, request, mk, tcl, sim, syn>>

Next == \/ ImportYaml \/ ExportMake \/ ExportVsim \/ ExportAnalyze \/ GenerateSynopsysList
        \/ ExportVivado \/ GenerateVivadoAddFiles \/ GenerateVivadoIncDirs

Spec == Init /\ [][Next]_vars

(***************************************************************************)
(* Properties                                                              *)
(***************************************************************************)
\* make never stops with "no rule to make target": the stamps that an IP's
\* target depends on (written by IPConfig) are exactly the stamps that have
\* a rule (written by SubIPConfig), for every target, flag and local setting.
DepsHaveRules == \A i \in Ips : mk[i].deps = mk[i].rules

\* A script that refers to something generated elsewhere finds it: a sourced
\* analyze script was written, and every SRC_ variable that add_files uses was
\* set, whatever domain and alternatives are asked for.  The include list uses
\* no variable; its directories are those of blocks whose variable is set.
ReferencesDefined ==
    /\ tcl.listed \subseteq tcl.written
    /\ vivado.added \subseteq vivado.set
    /\ vivado.incs \subseteq vivado.set

\* A block that skips simulation is in no simulation script and one that
\* skips synthesis in no synthesis script, over all the backends.
SkipFlagsHonoured ==
    /\ \A b \in sim : ~Flag(BlockAt(b), "skip_simulation")
    /\ \A b \in syn : ~Flag(BlockAt(b), "skip_synthesis")

\* export_make never reads linting unassigned: the target that would make it
\* do so is refused when the src_files.yml is imported.
NoUnboundLocal == pc # "exception"
=============================================================================
