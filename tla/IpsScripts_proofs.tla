------------------------- MODULE IpsScripts_proofs -------------------------
(***************************************************************************)
(* Script generation, for every database and every request: the scripts    *)
(* written by different functions agree with each other.                   *)
(***************************************************************************)
EXTENDS IpsScripts, TLAPS

(***************************************************************************)
(* The filters of different functions, compared pair by pair               *)
(***************************************************************************)

\* IPConfig.export_make and SubIPConfig.export_make write a dependency and a
\* rule for the same blocks.
LEMMA MakeFiltersAgree ==
    ASSUME NEW blk, NEW r PROVE MakeDep(blk, r) = MakeRule(blk, r)
BY DEF MakeDep, MakeRule

\* The blocks that generate_vivado_add_files and generate_vivado_inc_dirs use
\* are the ones export_vivado sets a variable for.
LEMMA VivadoFiltersAgree ==
    ASSUME NEW blk, NEW i, NEW r
    PROVE  /\ VivadoAdd(blk) => VivadoSet(blk)
           /\ VivadoInc(blk) => VivadoSet(blk)
           /\ VivadoListed(i, r) => VivadoExported(i, r)
BY DEF VivadoAdd, VivadoInc, VivadoSet, VivadoListed, VivadoExported

\* No filter of a simulation backend passes a block that skips simulation.
LEMMA SimulationFilters ==
    ASSUME NEW blk, NEW r
    PROVE  /\ MakeRule(blk, r) => ~Flag(blk, "skip_simulation")
           /\ Vsim(blk, r) => ~Flag(blk, "skip_simulation")
BY DEF MakeRule, Vsim, VsimXilinx

\* No filter of a synthesis backend passes a block that skips synthesis.
LEMMA SynthesisFilters ==
    ASSUME NEW blk, NEW r
    PROVE  /\ Synopsys(blk, r) => ~Flag(blk, "skip_synthesis")
           /\ Cadence(blk, r) => ~Flag(blk, "skip_synthesis")
           /\ VivadoSet(blk) => ~Flag(blk, "skip_synthesis")
           /\ Synplify(blk) => ~Flag(blk, "skip_synthesis")
BY DEF Synopsys, Cadence, VivadoSet, Synplify

\* A block that the constructor of SubIPConfig accepts has no lint target.
LEMMA AcceptedIsBound ==
    ASSUME NEW blk, Accepted(blk) PROVE ~UnboundLinting(blk)
BY ConstantsAssumption DEF Accepted, UnboundLinting, AllowedTargets

(***************************************************************************)
(* The inductive invariant: what each pair of calls leaves for the next    *)
(***************************************************************************)
Shape ==
    /\ mk \in [Ips -> [deps : SUBSET (Ips \X Subs), rules : SUBSET (Ips \X Subs)]]
    /\ tcl \in [written : SUBSET Ips, listed : SUBSET Ips]
    /\ vivado \in [set : SUBSET (Ips \X Subs), added : SUBSET (Ips \X Subs),
                   incs : SUBSET (Ips \X Subs)]
    /\ pc \in {"import", "exit", "make", "exception", "vsim", "analyze", "list",
               "vivado", "add_files", "inc_dirs", "done"}

\* A definition is complete before the first script that refers to it.
Progress ==
    /\ pc = "make" => \A b \in Blocks : Accepted(BlockAt(b))
    /\ pc \in {"import", "make", "vsim", "analyze"} => tcl.listed = {}
    /\ pc = "list" => tcl.written = {i \in Ips : TclWritten(i, request)}
    /\ pc \in {"import", "make", "vsim", "analyze", "list", "vivado"} =>
          vivado.added = {} /\ vivado.incs = {}
    /\ pc \in {"add_files", "inc_dirs"} =>
          vivado.set = {b \in Blocks : VivadoExported(b[1], request) /\ VivadoSet(BlockAt(b))}

IInv == /\ Shape
        /\ Progress
        /\ DepsHaveRules
        /\ ReferencesDefined
        /\ SkipFlagsHonoured
        /\ NoUnboundLocal

\* The invariant holds before the first call.
LEMMA InitIInv == Init => IInv
<1> SUFFICES ASSUME Init PROVE IInv
    OBVIOUS
<1>1. Shape
    BY DEF Init, Shape
<1>2. Progress
    BY DEF Init, Progress
<1>3. DepsHaveRules
    BY DEF Init, DepsHaveRules
<1>4. ReferencesDefined
    BY DEF Init, ReferencesDefined
<1>5. SkipFlagsHonoured /\ NoUnboundLocal
    BY DEF Init, SkipFlagsHonoured, NoUnboundLocal
<1> QED
    BY <1>1, <1>2, <1>3, <1>4, <1>5 DEF IInv

\* A step does not change the database or the request, so what a filter says
\* of a block stays the same.
LEMMA FiltersStable ==
    ASSUME ip_dic' = ip_dic, request' = request
    PROVE  /\ Blocks' = Blocks
           /\ \A b : BlockAt(b)' = BlockAt(b)
           /\ \A i, r : VivadoExported(i, r)' = VivadoExported(i, r)
           /\ \A i, r : TclWritten(i, r)' = TclWritten(i, r)
BY DEF Blocks, BlockAt, VivadoExported, TclWritten, AlternativeChosen, InDomain

\* Every call keeps the invariant.
LEMMA NextIInv == IInv /\ [Next]_vars => IInv'
<1> SUFFICES ASSUME IInv, [Next]_vars PROVE IInv'
    OBVIOUS
<1> USE DEF IInv
<1>0. ip_dic' = ip_dic /\ request' = request
    BY DEF Next, vars, ImportYaml, ExportMake, ExportVsim, ExportAnalyze,
           GenerateSynopsysList, ExportVivado, GenerateVivadoAddFiles, GenerateVivadoIncDirs
<1>b. /\ Blocks' = Blocks
      /\ \A b : BlockAt(b)' = BlockAt(b)
    BY <1>0, FiltersStable
<1>e. \A i, r : VivadoExported(i, r)' = VivadoExported(i, r)
    BY <1>0, FiltersStable
<1>t. \A i, r : TclWritten(i, r)' = TclWritten(i, r)
    BY <1>0, FiltersStable
<1>s. Blocks \subseteq Ips \X Subs
    BY DEF Blocks
<1>1. CASE ImportYaml
  <2>1. Shape'
      BY <1>1 DEF ImportYaml, Shape
  <2>2. Progress'
      BY <1>1, <1>0, <1>b DEF ImportYaml, Progress
  <2>3. DepsHaveRules' /\ ReferencesDefined' /\ NoUnboundLocal'
      BY <1>1 DEF ImportYaml, DepsHaveRules, ReferencesDefined, NoUnboundLocal
  <2>4. SkipFlagsHonoured'
      BY <1>1, <1>b DEF ImportYaml, SkipFlagsHonoured
  <2> QED
      BY <2>1, <2>2, <2>3, <2>4
<1>2. CASE ExportMake
  <2>0. /\ \A b \in Blocks : ~UnboundLinting(BlockAt(b))
        /\ pc = "make"
      BY <1>2, AcceptedIsBound DEF ExportMake, Progress
  <2> DEFINE rules == {b \in Blocks : MakeRule(BlockAt(b), request)}
  <2>1. /\ pc' = "vsim"
        /\ mk' = [i \in Ips |->
                    [deps  |-> {b \in Blocks : b[1] = i /\ MakeDep(BlockAt(b), request)},
                     rules |-> {b \in rules : b[1] = i}]]
        /\ sim' = sim \cup rules
        /\ UNCHANGED <<ip_dic, request, tcl, vivado, syn>>
      BY <1>2, <2>0 DEF ExportMake
  <2>2. \A i \in Ips : mk'[i].deps = mk'[i].rules
    <3> SUFFICES ASSUME NEW i \in Ips PROVE mk'[i].deps = mk'[i].rules
        OBVIOUS
    <3>1. {b \in Blocks : b[1] = i /\ MakeDep(BlockAt(b), request)} = {b \in rules : b[1] = i}
        BY MakeFiltersAgree
    <3> HIDE DEF rules
    <3>2. mk'[i].deps = {b \in Blocks : b[1] = i /\ MakeDep(BlockAt(b), request)}
        BY <2>1
    <3>3. mk'[i].rules = {b \in rules : b[1] = i}
        BY <2>1
    <3> QED
        BY <3>1, <3>2, <3>3
  <2>3. Shape'
      BY <2>1, <1>s DEF Shape
  <2>4. Progress'
      BY <2>1, <2>0 DEF Progress
  <2>5. SkipFlagsHonoured'
      BY <2>1, <1>b, SimulationFilters DEF SkipFlagsHonoured
  <2>6. ReferencesDefined' /\ NoUnboundLocal'
      BY <2>1 DEF ReferencesDefined, NoUnboundLocal
  <2> QED
      BY <2>2, <2>3, <2>4, <2>5, <2>6 DEF DepsHaveRules
<1>3. CASE ExportVsim
  <2>1. Shape' /\ DepsHaveRules' /\ ReferencesDefined' /\ NoUnboundLocal'
      BY <1>3 DEF ExportVsim, Shape, DepsHaveRules, ReferencesDefined, NoUnboundLocal
  <2>2. Progress'
      BY <1>3 DEF ExportVsim, Progress
  <2>3. SkipFlagsHonoured'
      BY <1>3, <1>b, SimulationFilters DEF ExportVsim, SkipFlagsHonoured
  <2> QED
      BY <2>1, <2>2, <2>3
<1>4. CASE ExportAnalyze
  <2> DEFINE written == {i \in Ips : TclWritten(i, request)}
  <2>1. /\ pc = "analyze" /\ pc' = "list"
        /\ tcl' = [tcl EXCEPT !.written = written]
        /\ \/ syn' = syn \cup {b \in Blocks : b[1] \in written /\ Synopsys(BlockAt(b), request)}
           \/ syn' = syn \cup {b \in Blocks : b[1] \in written /\ Cadence(BlockAt(b), request)}
        /\ UNCHANGED <<ip_dic, request, mk, vivado, sim>>
      BY <1>4 DEF ExportAnalyze
  <2>2. written' = written
      BY <1>0, <1>t
  <2>3. \A b \in syn' : ~Flag(BlockAt(b), "skip_synthesis")
      BY <2>1, SynthesisFilters DEF SkipFlagsHonoured
  <2>4. tcl'.written = written /\ tcl'.listed = {} /\ tcl' \in [written : SUBSET Ips, listed : SUBSET Ips]
    <3> written \in SUBSET Ips
        OBVIOUS
    <3> HIDE DEF written
    <3> QED
        BY <2>1 DEF Shape, Progress
  <2>5. Shape' /\ DepsHaveRules' /\ NoUnboundLocal'
      BY <2>1, <2>4 DEF Shape, DepsHaveRules, NoUnboundLocal
  <2>6. Progress'
      BY <2>1, <2>2, <2>4 DEF Progress
  <2>7. ReferencesDefined'
      BY <2>1, <2>4 DEF ReferencesDefined
  <2>8. SkipFlagsHonoured'
      BY <2>1, <2>3, <1>b DEF SkipFlagsHonoured
  <2> QED
      BY <2>5, <2>6, <2>7, <2>8
<1>5. CASE GenerateSynopsysList
  <2> DEFINE listed == {i \in Ips : TclListed(i, request)}
  <2>1. /\ pc = "list" /\ pc' = "vivado"
        /\ tcl' = [tcl EXCEPT !.listed = listed]
        /\ UNCHANGED <<ip_dic, request, mk, vivado, sim, syn>>
      BY <1>5 DEF GenerateSynopsysList
  <2>2. listed = tcl.written /\ listed \in SUBSET Ips
      BY <2>1 DEF TclListed, TclWritten, Progress
  <2>3. /\ tcl'.listed = tcl'.written
        /\ tcl' \in [written : SUBSET Ips, listed : SUBSET Ips]
    <3> HIDE DEF listed
    <3> QED
        BY <2>1, <2>2 DEF Shape
  <2>4. Shape' /\ DepsHaveRules' /\ NoUnboundLocal'
      BY <2>1, <2>3 DEF Shape, DepsHaveRules, NoUnboundLocal
  <2>5. Progress'
      BY <2>1 DEF Progress
  <2>6. ReferencesDefined'
      BY <2>1, <2>3 DEF ReferencesDefined
  <2>7. SkipFlagsHonoured'
      BY <2>1, <1>b DEF SkipFlagsHonoured
  <2> QED
      BY <2>4, <2>5, <2>6, <2>7
<1>6. CASE ExportVivado
  <2> DEFINE set == {b \in Blocks : VivadoExported(b[1], request) /\ VivadoSet(BlockAt(b))}
  <2>1. /\ pc = "vivado" /\ pc' = "add_files"
        /\ vivado' = [vivado EXCEPT !.set = set]
        /\ syn' = syn \cup set \cup {b \in Blocks : Synplify(BlockAt(b))}
        /\ UNCHANGED <<ip_dic, request, mk, tcl, sim>>
      BY <1>6 DEF ExportVivado
  <2>2. set' = set
      BY <1>0, <1>b, <1>e
  <2>3. /\ vivado'.set = set /\ vivado'.added = {} /\ vivado'.incs = {}
        /\ vivado' \in [set : SUBSET (Ips \X Subs), added : SUBSET (Ips \X Subs),
                        incs : SUBSET (Ips \X Subs)]
    <3> set \in SUBSET (Ips \X Subs)
        BY <1>s
    <3> HIDE DEF set
    <3> QED
        BY <2>1 DEF Shape, Progress
  <2>4. \A b \in syn' : ~Flag(BlockAt(b), "skip_synthesis")
      BY <2>1, SynthesisFilters DEF SkipFlagsHonoured
  <2>5. Shape' /\ DepsHaveRules' /\ NoUnboundLocal'
      BY <2>1, <2>3 DEF Shape, DepsHaveRules, NoUnboundLocal
  <2>6. Progress'
      BY <2>1, <2>2, <2>3 DEF Progress
  <2>7. ReferencesDefined'
      BY <2>1, <2>3 DEF ReferencesDefined
  <2>8. SkipFlagsHonoured'
      BY <2>1, <2>4, <1>b DEF SkipFlagsHonoured
  <2> QED
      BY <2>5, <2>6, <2>7, <2>8
<1>7. CASE GenerateVivadoAddFiles
  <2> DEFINE added == {b \in Blocks : VivadoListed(b[1], request) /\ VivadoAdd(BlockAt(b))}
  <2>1. /\ pc = "add_files" /\ pc' = "inc_dirs"
        /\ vivado' = [vivado EXCEPT !.added = added]
        /\ UNCHANGED <<ip_dic, request, mk, tcl, sim, syn>>
      BY <1>7 DEF GenerateVivadoAddFiles
  <2>2. added \subseteq vivado.set /\ added \in SUBSET (Ips \X Subs)
      BY <1>s, <2>1, VivadoFiltersAgree DEF Progress
  <2>3. /\ vivado'.set = vivado.set /\ vivado'.added \subseteq vivado.set
        /\ vivado'.incs = vivado.incs
        /\ vivado' \in [set : SUBSET (Ips \X Subs), added : SUBSET (Ips \X Subs),
                        incs : SUBSET (Ips \X Subs)]
    <3> HIDE DEF added
    <3> QED
        BY <2>1, <2>2 DEF Shape
  <2>4. Shape' /\ DepsHaveRules' /\ NoUnboundLocal'
      BY <2>1, <2>3 DEF Shape, DepsHaveRules, NoUnboundLocal
  <2>5. Progress'
      BY <2>1, <2>3, <1>0, <1>b, <1>e DEF Progress
  <2>6. ReferencesDefined'
      BY <2>1, <2>3 DEF ReferencesDefined
  <2>7. SkipFlagsHonoured'
      BY <2>1, <1>b DEF SkipFlagsHonoured
  <2> QED
      BY <2>4, <2>5, <2>6, <2>7
<1>8. CASE GenerateVivadoIncDirs
  <2> DEFINE incs == {b \in Blocks : VivadoListed(b[1], request) /\ VivadoInc(BlockAt(b))}
  <2>1. /\ pc = "inc_dirs" /\ pc' = "done"
        /\ vivado' = [vivado EXCEPT !.incs = incs]
        /\ UNCHANGED <<ip_dic, request, mk, tcl, sim, syn>>
      BY <1>8 DEF GenerateVivadoIncDirs
  <2>2. incs \subseteq vivado.set /\ incs \in SUBSET (Ips \X Subs)
      BY <1>s, <2>1, VivadoFiltersAgree DEF Progress
  <2>3. /\ vivado'.set = vivado.set /\ vivado'.incs \subseteq vivado.set
        /\ vivado'.added = vivado.added
        /\ vivado' \in [set : SUBSET (Ips \X Subs), added : SUBSET (Ips \X Subs),
                        incs : SUBSET (Ips \X Subs)]
    <3> HIDE DEF incs
    <3> QED
        BY <2>1, <2>2 DEF Shape
  <2>4. Shape' /\ DepsHaveRules' /\ NoUnboundLocal'
      BY <2>1, <2>3 DEF Shape, DepsHaveRules, NoUnboundLocal
  <2>5. Progress'
      BY <2>1 DEF Progress
  <2>6. ReferencesDefined'
      BY <2>1, <2>3 DEF ReferencesDefined
  <2>7. SkipFlagsHonoured'
      BY <2>1, <1>b DEF SkipFlagsHonoured
  <2> QED
      BY <2>4, <2>5, <2>6, <2>7
<1>9. CASE UNCHANGED vars
  <2>1. Shape' /\ DepsHaveRules' /\ ReferencesDefined' /\ NoUnboundLocal'
      BY <1>9 DEF vars, Shape, DepsHaveRules, ReferencesDefined, NoUnboundLocal
  <2>2. Progress'
      BY <1>9, <1>b, <1>e, <1>t DEF vars, Progress
  <2>3. SkipFlagsHonoured'
      BY <1>9, <1>b DEF vars, SkipFlagsHonoured
  <2> QED
      BY <2>1, <2>2, <2>3
<1> QED
    BY <1>1, <1>2, <1>3, <1>4, <1>5, <1>6, <1>7, <1>8, <1>9 DEF Next

(***************************************************************************)
(* Theorems                                                                *)
(***************************************************************************)

\* The inductive invariant holds in every run of the generators.
LEMMA Invariance == Spec => []IInv
BY InitIInv, NextIInv, PTL DEF Spec

\* make never misses a rule, whatever the databases and the requests are.
THEOREM DepsHaveRulesAlways == Spec => []DepsHaveRules
<1>1. IInv => DepsHaveRules
    BY DEF IInv
<1> QED
    BY <1>1, Invariance, PTL

\* A generated script never refers to a script or variable another generator
\* left out.
THEOREM ReferencesAlwaysDefined == Spec => []ReferencesDefined
<1>1. IInv => ReferencesDefined
    BY DEF IInv
<1> QED
    BY <1>1, Invariance, PTL

\* The skip flags are honoured by all the backends together.
THEOREM SkipFlagsAlwaysHonoured == Spec => []SkipFlagsHonoured
<1>1. IInv => SkipFlagsHonoured
    BY DEF IInv
<1> QED
    BY <1>1, Invariance, PTL

\* export_make never reads an unassigned local.
THEOREM NeverUnbound == Spec => []NoUnboundLocal
<1>1. IInv => NoUnboundLocal
    BY DEF IInv
<1> QED
    BY <1>1, Invariance, PTL
=============================================================================
