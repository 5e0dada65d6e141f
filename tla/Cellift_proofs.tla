--------------------------- MODULE Cellift_proofs ---------------------------
(***************************************************************************)
(* The builds of cellift/Makefile, for any design, any targets, any calls  *)
(* of make and any number of edits.                                        *)
(***************************************************************************)
EXTENDS CelliftMake, FiniteSetTheorems, SequenceTheorems, TLAPS

(***************************************************************************)
(* Files, prerequisites and recipes                                        *)
(***************************************************************************)
PickledSv == <<"pickled">>
TmpPickle == <<"tmp_pickle">>
Prepared == <<"prepared">>
PreBlackbox == <<"pre_blackbox">>
Sv2vOut == <<"sv2v_out">>
Tmp == <<"tmp">>
Interm == <<"interm">>
Conf == <<"conf">>
Precompact(t) == <<"precompact", t>>
Design(t) == <<"out", t>>
Exe(t) == <<"exe", t>>
Log(t) == <<"log", t>>

\* The files that recipes write beside their targets.
Scratch == {TmpPickle, Tmp, Interm, Conf} \cup {Log(t) : t \in Targets}

\* A file is known by its stage and its target.
LEMMA Names ==
    /\ PickledSv[1] = "pickled" /\ TmpPickle[1] = "tmp_pickle" /\ Prepared[1] = "prepared"
    /\ PreBlackbox[1] = "pre_blackbox" /\ Sv2vOut[1] = "sv2v_out" /\ Tmp[1] = "tmp"
    /\ Interm[1] = "interm" /\ Conf[1] = "conf"
    /\ \A t : /\ Precompact(t)[1] = "precompact" /\ Precompact(t)[2] = t
              /\ Design(t)[1] = "out" /\ Design(t)[2] = t
              /\ Exe(t)[1] = "exe" /\ Exe(t)[2] = t
              /\ Log(t)[1] = "log" /\ Log(t)[2] = t
BY DEF PickledSv, TmpPickle, Prepared, PreBlackbox, Sv2vOut, Tmp, Interm, Conf, Precompact, Design,
   Exe, Log

\* The rules, file by file.
LEMMA Rules ==
    /\ Prerequisites(Prepared) = {PickledSv}
    /\ Prerequisites(PreBlackbox) = {Prepared}
    /\ Prerequisites(Sv2vOut) = {PreBlackbox}
    /\ Prerequisites(Design("vanilla")) = {Prepared}
    /\ \A f \in Scratch \cup {PickledSv} : Prerequisites(f) = {}
    /\ \A t : /\ Prerequisites(Precompact(t)) = {Sv2vOut}
              /\ t # "vanilla" => Prerequisites(Design(t)) = {Precompact(t)}
              /\ Prerequisites(Exe(t)) = {Design(t)}
<1> USE DEF Prerequisites
<1>1. /\ Prerequisites(Prepared) = {PickledSv}
      /\ Prerequisites(PreBlackbox) = {Prepared}
      /\ Prerequisites(Sv2vOut) = {PreBlackbox}
    BY DEF PickledSv, Prepared, PreBlackbox, Sv2vOut
<1>2. Prerequisites(Design("vanilla")) = {Prepared}
    BY DEF Design, Prepared
<1>3. \A f \in Scratch \cup {PickledSv} : Prerequisites(f) = {}
    BY DEF Scratch, PickledSv, TmpPickle, Tmp, Interm, Conf, Log
<1>4. ASSUME NEW t PROVE Prerequisites(Precompact(t)) = {Sv2vOut}
    BY DEF Precompact, Sv2vOut
<1>5. ASSUME NEW t, t # "vanilla" PROVE Prerequisites(Design(t)) = {Precompact(t)}
    BY <1>5 DEF Design, Precompact
<1>6. ASSUME NEW t PROVE Prerequisites(Exe(t)) = {Design(t)}
    BY DEF Exe, Design
<1> QED
    BY <1>1, <1>2, <1>3, <1>4, <1>5, <1>6

\* Recipes are joined from their parts.
IsJoined(r, a, s, u) ==
    /\ Len(r) = 1 + Len(s) + Len(u)
    /\ r[1] = a
    /\ \A i \in 1..Len(s) : r[1 + i] = s[i]
    /\ \A i \in 1..Len(u) : r[1 + Len(s) + i] = u[i]

\* A command, some commands, and others.
LEMMA Joined ==
    ASSUME NEW S, NEW a \in S, NEW s \in Seq(S), NEW u \in Seq(S)
    PROVE  IsJoined((<<a>> \o s) \o u, a, s, u)
<1> DEFINE p == <<a>> \o s
<1>1. <<a>> \in Seq(S) /\ Len(<<a>>) = 1 /\ <<a>>[1] = a
    OBVIOUS
<1>2. /\ p \in Seq(S) /\ Len(p) = 1 + Len(s)
      /\ \A i \in 1..(1 + Len(s)) : p[i] = IF i <= 1 THEN <<a>>[i] ELSE s[i - 1]
    BY <1>1, ConcatProperties
<1>3. /\ Len(p \o u) = Len(p) + Len(u)
      /\ \A i \in 1..(Len(p) + Len(u)) :
            (p \o u)[i] = IF i <= Len(p) THEN p[i] ELSE u[i - Len(p)]
    BY <1>2, ConcatProperties
<1>4. Len(s) \in Nat /\ Len(u) \in Nat
    OBVIOUS
<1> HIDE DEF p
<1>5. (p \o u)[1] = a
    BY <1>1, <1>2, <1>3, <1>4
<1>6. ASSUME NEW i \in 1..Len(s) PROVE (p \o u)[1 + i] = s[i]
    BY <1>2, <1>3, <1>4
<1>7. ASSUME NEW i \in 1..Len(u) PROVE (p \o u)[1 + Len(s) + i] = u[i]
    BY <1>2, <1>3, <1>4
<1>8. Len(p \o u) = 1 + Len(s) + Len(u)
    BY <1>2, <1>3, <1>4
<1> QED
    BY <1>5, <1>6, <1>7, <1>8 DEF p, IsJoined

\* The recipes, command by command.
LEMMA PreparedSteps ==
    LET r == Recipe(Prepared)
    IN  /\ Len(r) = 6
        /\ r[1] = Command(PickledSv, TmpPickle, "fix_global_imports")
        /\ r[2] = Command(TmpPickle, TmpPickle, "remove_modules")
        /\ r[3] = Command(TmpPickle, TmpPickle, "replace_instances")
        /\ r[4] = Command(TmpPickle, TmpPickle, "remove_pragma")
        /\ r[5] = Command(TmpPickle, TmpPickle, "sed")
        /\ r[6] = Command(TmpPickle, Prepared, "mv")
<1> DEFINE S == [from : {PickledSv, TmpPickle}, to : {TmpPickle, Prepared},
                 do : {"fix_global_imports", "remove_modules", "replace_instances",
                       "remove_pragma", "sed", "mv"}]
           todo == <<"remove_modules", "replace_instances", "remove_pragma", "sed">>
           a == Command(PickledSv, TmpPickle, "fix_global_imports")
           s == InPlace(TmpPickle, todo)
           u == <<Command(TmpPickle, Prepared, "mv")>>
<1>1. Recipe(Prepared) = (<<a>> \o s) \o u
    BY DEF Recipe, Prepared, PrepareRecipe, PickledSv, TmpPickle
<1>2. /\ Len(s) = 4 /\ \A n \in 1..4 : s[n] = Command(TmpPickle, TmpPickle, todo[n])
      /\ s \in Seq(S) /\ a \in S /\ u \in Seq(S) /\ Len(u) = 1 /\ u[1] = Command(TmpPickle, Prepared, "mv")
    BY DEF InPlace, Command
<1>3. todo[1] = "remove_modules" /\ todo[2] = "replace_instances" /\ todo[3] = "remove_pragma" /\ todo[4] = "sed"
    OBVIOUS
<1> HIDE DEF S, todo, a, s, u
<1>4. LET r == (<<a>> \o s) \o u
      IN  /\ Len(r) = 6 /\ r[1] = a /\ r[6] = u[1]
          /\ r[2] = s[1] /\ r[3] = s[2] /\ r[4] = s[3] /\ r[5] = s[4]
  <2>1. LET r == (<<a>> \o s) \o u
        IN  /\ Len(r) = 1 + 4 + 1 /\ r[1] = a
            /\ \A i \in 1..4 : r[1 + i] = s[i]
            /\ \A i \in 1..1 : r[1 + 4 + i] = u[i]
    <3>1. a \in S /\ s \in Seq(S) /\ u \in Seq(S)
        BY <1>2
    <3>2. IsJoined((<<a>> \o s) \o u, a, s, u)
        BY <3>1, Joined
    <3>3. Len(s) = 4 /\ Len(u) = 1
        BY <1>2
    <3> QED
        BY <3>2, <3>3 DEF IsJoined
  <2> QED
      BY <2>1
<1> QED
    BY <1>1, <1>2, <1>3, <1>4 DEF a

\* sv2v is one command.
LEMMA BlackboxSteps ==
    LET r == Recipe(PreBlackbox)
    IN  Len(r) = 1 /\ r[1] = Command(Prepared, PreBlackbox, "sv2v")
BY DEF Recipe, PreBlackbox, Prepared

\* The blackboxes are added in two.
LEMMA Sv2vSteps ==
    LET r == Recipe(Sv2vOut)
    IN  /\ Len(r) = 2
        /\ r[1] = Command(PreBlackbox, Sv2vOut, "cat_blackboxes")
        /\ r[2] = Command(Sv2vOut, Sv2vOut, "insert_blackbox")
BY DEF Recipe, Sv2vRecipe, PreBlackbox, Sv2vOut

\* So is Yosys.
LEMMA PrecompactSteps ==
    ASSUME NEW t
    PROVE  LET r == Recipe(Precompact(t))
           IN  Len(r) = 1 /\ r[1] = Command(Sv2vOut, Precompact(t), "yosys")
BY DEF Recipe, Precompact, Sv2vOut

\* The vanilla design goes through build/tmp.sv.
LEMMA VanillaSteps ==
    LET r == Recipe(Design("vanilla"))
    IN  /\ Len(r) = 3
        /\ r[1] = Command(Prepared, Tmp, "remove_memories")
        /\ r[2] = Command(Tmp, Design("vanilla"), "sed_to")
        /\ r[3] = Command(Tmp, Tmp, "rm")
BY DEF Recipe, VanillaRecipe, Design, Tmp, Prepared

\* An instrumented design goes through generated/interm.sv.
LEMMA CompactSteps ==
    ASSUME NEW t, t # "vanilla"
    PROVE  LET r == Recipe(Design(t))
           IN  /\ Len(r) = 5
               /\ r[1] = Command(Precompact(t), Interm, "compact")
               /\ r[2] = Command(Interm, Interm, "deparam")
               /\ r[3] = Command(Interm, Design(t), "cat")
               /\ r[4] = Command(Interm, Interm, "rm")
               /\ r[5] = Command(Precompact(t), Log(t), "cp")
<1> DEFINE S == [from : {Precompact(t), Interm}, to : {Interm, Design(t), Log(t)},
                 do : {"compact", "deparam", "cat", "rm", "cp"}]
           a == Command(Precompact(t), Interm, "compact")
           s == InPlace(Interm, <<"deparam">>)
           u == <<Command(Interm, Design(t), "cat"), Command(Interm, Interm, "rm"),
                  Command(Precompact(t), Log(t), "cp")>>
<1>1. Recipe(Design(t)) = (<<a>> \o s) \o u
    BY DEF Recipe, Design, CompactRecipe, Precompact, Interm, Log
<1>2. /\ Len(s) = 1 /\ s[1] = Command(Interm, Interm, "deparam") /\ s \in Seq(S) /\ a \in S
      /\ u \in Seq(S) /\ Len(u) = 3
      /\ u[1] = Command(Interm, Design(t), "cat") /\ u[2] = Command(Interm, Interm, "rm")
      /\ u[3] = Command(Precompact(t), Log(t), "cp")
    BY DEF InPlace, Command
<1> HIDE DEF S, a, s, u
<1>3. LET r == (<<a>> \o s) \o u
      IN  Len(r) = 5 /\ r[1] = a /\ r[2] = s[1] /\ r[3] = u[1] /\ r[4] = u[2] /\ r[5] = u[3]
  <2>1. LET r == (<<a>> \o s) \o u
        IN  /\ Len(r) = 1 + 1 + 3 /\ r[1] = a
            /\ \A i \in 1..1 : r[1 + i] = s[i]
            /\ \A i \in 1..3 : r[1 + 1 + i] = u[i]
    <3>1. a \in S /\ s \in Seq(S) /\ u \in Seq(S)
        BY <1>2
    <3>2. IsJoined((<<a>> \o s) \o u, a, s, u)
        BY <3>1, Joined
    <3>3. Len(s) = 1 /\ Len(u) = 3
        BY <1>2
    <3> QED
        BY <3>2, <3>3 DEF IsJoined
  <2> QED
      BY <2>1
<1> QED
    BY <1>1, <1>2, <1>3 DEF a

\* FuseSoC builds with a configuration of its own.
LEMMA ExeSteps ==
    ASSUME NEW t
    PROVE  LET r == Recipe(Exe(t))
           IN  /\ Len(r) = 3
               /\ r[1] = Command(Conf, Conf, "rm")
               /\ r[2] = Command(Design(t), Conf, "library_add")
               /\ r[3] = Command(Design(t), Exe(t), "fusesoc")
BY DEF Recipe, ExeRecipe, Exe, Design, Conf

(***************************************************************************)
(* The inductive invariant of make                                         *)
(***************************************************************************)

\* The call of make, and the recipes that run.
MakeShape ==
    /\ make \in [goals : SUBSET Targets, j : Nat, done : SUBSET Files, script : Nat,
                 status : {"idle", "making", "failed", "made"}]
    /\ make.script <= script
    /\ IsFiniteSet(DOMAIN jobs)
    /\ ~Running => DOMAIN jobs = {}
MakeTypes == TypeOK /\ MakeShape

\* A file is dealt with, or has its recipe started, after its prerequisites.
Sequence ==
    /\ make.done \subseteq Needed \cup {PickledSv}
    /\ \A f \in make.done : Prerequisites(f) \subseteq make.done
    /\ \A f \in DOMAIN jobs : f \notin make.done /\ Prerequisites(f) \subseteq make.done

\* At most one recipe uses generated/interm.sv.
OneCompacts == make.j <= 1 \/ \A t, u \in make.goals \cap Instrumented : t = u

\* A file holds a design of version v.
Holds(f, v) == f \in DOMAIN file /\ file[f].script = v

\* The files have gone through the instrumentation that their names say.
IsBy(f, by) ==
    /\ f \in {PickledSv, TmpPickle, Prepared, Tmp} => by = "vanilla"
    /\ \A t \in Targets : f \in {Precompact(t), Design(t), Exe(t)} => by = t
Instrumentation ==
    /\ \A f \in DOMAIN file : IsBy(f, file[f].by)
    /\ \A t \in DOMAIN copied : copied[t].by = t

\* What a running recipe has made so far has the version of its input.
PreparedHalfway ==
    Prepared \in DOMAIN jobs =>
        /\ Prepared \notin DOMAIN file \/ ~fresh[Prepared]
        /\ jobs[Prepared] > 3 => edited \/ Holds(TmpPickle, script)
Sv2vHalfway ==
    Sv2vOut \in DOMAIN jobs /\ jobs[Sv2vOut] = 2 => Holds(Sv2vOut, file[PreBlackbox].script)
VanillaHalfway ==
    Design("vanilla") \in DOMAIN jobs =>
        /\ jobs[Design("vanilla")] = 2 => Holds(Tmp, file[Prepared].script)
        /\ jobs[Design("vanilla")] = 3 => Holds(Design("vanilla"), file[Prepared].script)
CompactHalfway(t) ==
    Design(t) \in DOMAIN jobs =>
        /\ jobs[Design(t)] \in {2, 3} =>
              Holds(Interm, file[Precompact(t)].script) /\ file[Interm].by = t
        /\ jobs[Design(t)] \in {4, 5} => Holds(Design(t), file[Precompact(t)].script)
Halfway ==
    /\ PreparedHalfway /\ Sv2vHalfway /\ VanillaHalfway
    /\ \A t \in Instrumented : CompactHalfway(t)

\* A file that is newer than its prerequisite was made from it; the prepared
\* design was made with the script as it is, unless that changed meanwhile.
Dates ==
    /\ Prepared \in DOMAIN file /\ fresh[Prepared] => edited \/ file[Prepared].script = script
    /\ \A f \in DOMAIN file : \A g \in Prerequisites(f) :
          /\ fresh[f] /\ g \in DOMAIN file /\ g # PickledSv
          /\ \A t \in recompiled : f # Exe(t)
          => file[f].script = file[g].script

\* What make has dealt with exists and, the executables of make recompile
\* apart, is as recent as the call.
Current ==
    /\ PickledSv \in DOMAIN file
    /\ Running =>
          /\ make.done \subseteq DOMAIN file
          /\ \A f \in make.done \ {PickledSv} :
                edited \/ file[f].script >= make.script \/ \E t \in Targets : f = Exe(t)
          /\ \A t \in Targets \ recompiled :
                Exe(t) \in make.done => file[Exe(t)].script = file[Design(t)].script

\* The designs that a call made stay until the next.
DesignsExist == make.status = "made" => \A t \in make.goals : Design(t) \in DOMAIN file

MakeInv == /\ MakeTypes /\ Sequence /\ OneCompacts /\ Instrumentation
           /\ Halfway /\ Dates /\ Current /\ DesignsExist /\ MadeIsCurrent

(***************************************************************************)
(* The commands of the running recipes                                     *)
(***************************************************************************)
Cmd(f) == Recipe(f)[jobs[f]]

\* The files that a call needs.
LEMMA NeededKinds ==
    ASSUME MakeShape, NEW f \in Needed
    PROVE  /\ f \in Files
           /\ \/ f = Prepared \/ f = PreBlackbox \/ f = Sv2vOut
              \/ \E t \in make.goals \cap Instrumented : f = Precompact(t)
              \/ f = Design("vanilla") /\ "vanilla" \in make.goals
              \/ \E t \in make.goals \cap Instrumented : f = Design(t)
              \/ \E t \in make.goals : f = Exe(t)
<1>1. make.goals \subseteq Targets
    BY DEF MakeShape
<1>2. \/ f = Prepared \/ f = PreBlackbox \/ f = Sv2vOut
      \/ \E t \in make.goals \cap Instrumented : f = Precompact(t)
      \/ \E t \in make.goals : f = Design(t) \/ f = Exe(t)
    BY DEF Needed, Prepared, PreBlackbox, Sv2vOut, Precompact, Design, Exe
<1>3. {Prepared, PreBlackbox, Sv2vOut} \subseteq Files
    BY DEF Files, Shared, Prepared, PreBlackbox, Sv2vOut
<1>4. \A t \in Targets : {Precompact(t), Design(t), Exe(t)} \subseteq Files
    BY DEF Files, Precompact, Design, Exe
<1>5. f \in Files
    BY <1>1, <1>2, <1>3, <1>4 DEF Instrumented
<1> QED
    BY <1>1, <1>2, <1>5 DEF Instrumented

\* The recipes that run, and where they are.
LEMMA JobKinds ==
    ASSUME MakeTypes, NEW f \in DOMAIN jobs
    PROVE  \/ f = Prepared /\ jobs[f] \in 1..6
           \/ f = PreBlackbox /\ jobs[f] = 1
           \/ f = Sv2vOut /\ jobs[f] \in 1..2
           \/ \E t \in make.goals \cap Instrumented : f = Precompact(t) /\ jobs[f] = 1
           \/ f = Design("vanilla") /\ jobs[f] \in 1..3
           \/ \E t \in make.goals \cap Instrumented : f = Design(t) /\ jobs[f] \in 1..5
           \/ \E t \in make.goals : f = Exe(t) /\ jobs[f] \in 1..3
<1>1. f \in Needed /\ jobs[f] \in 1..Len(Recipe(f)) /\ MakeShape
    BY DEF MakeTypes, TypeOK
<1>2. CASE f = Prepared
    BY <1>1, <1>2, PreparedSteps
<1>3. CASE f = PreBlackbox
    BY <1>1, <1>3, BlackboxSteps
<1>4. CASE f = Sv2vOut
    BY <1>1, <1>4, Sv2vSteps
<1>5. ASSUME NEW t \in make.goals \cap Instrumented, f = Precompact(t) PROVE jobs[f] = 1
  <2>1. Len(Recipe(f)) = 1
      BY <1>5, PrecompactSteps
  <2>2. jobs[f] \in 1..1
      BY <1>1, <2>1
  <2> QED
      BY <2>2
<1>6. CASE f = Design("vanilla")
    BY <1>1, <1>6, VanillaSteps
<1>7. ASSUME NEW t \in make.goals \cap Instrumented, f = Design(t) PROVE jobs[f] \in 1..5
  <2>1. t # "vanilla"
      BY DEF Instrumented
  <2> QED
      BY <1>1, <1>7, <2>1, CompactSteps
<1>8. ASSUME NEW t \in make.goals, f = Exe(t) PROVE jobs[f] \in 1..3
    BY <1>1, <1>8, ExeSteps
<1> QED
    BY <1>1, <1>2, <1>3, <1>4, <1>5, <1>6, <1>7, <1>8, NeededKinds

\* Where each recipe writes.
LEMMA Targeted ==
    ASSUME MakeTypes, NEW f \in DOMAIN jobs
    PROVE  /\ Cmd(f).to \in {f} \cup Scratch
           /\ Cmd(f).to \in Files
           /\ Removed(Cmd(f)) \subseteq Scratch
           /\ Cmd(f).do = "rm" => Cmd(f).to \in Scratch
           /\ Cmd(f).do = "mv" => Cmd(f).to = f
           /\ Cmd(f).do = "fusesoc" => Cmd(f).to = f /\ \E t \in make.goals : f = Exe(t)
           /\ Cmd(f).do = "replace_instances" => f = Prepared /\ jobs[f] = 3
           /\ Cmd(f).do = "yosys" => f \notin {Prepared, Sv2vOut}
<1> DEFINE c == Cmd(f)
<1>1. f \in Files /\ Scratch \subseteq Files
  <2>1. f \in Needed /\ MakeShape
      BY DEF MakeTypes, TypeOK
  <2>2. Scratch \subseteq Files
      BY DEF Files, Shared, Scratch, TmpPickle, Tmp, Interm, Conf, Log
  <2> QED
      BY <2>1, <2>2, NeededKinds
<1>2. /\ TmpPickle \in Scratch /\ Tmp \in Scratch /\ Interm \in Scratch /\ Conf \in Scratch
      /\ \A t \in Instrumented : Log(t) \in Scratch
    BY DEF Scratch, Instrumented
<1>3. /\ c.to \in {f} \cup Scratch
      /\ c.do \in {"rm", "mv"} => {c.to, c.from} \ {f} \subseteq Scratch /\ c.from \in Scratch
      /\ c.do = "rm" => c.to \in Scratch
      /\ c.do = "mv" => c.to = f
      /\ c.do = "fusesoc" => c.to = f /\ \E t \in make.goals : f = Exe(t)
      /\ c.do = "replace_instances" => f = Prepared /\ jobs[f] = 3
      /\ c.do = "yosys" => f \notin {Prepared, Sv2vOut}
  <2> USE DEF Cmd, Command
  <2>1. CASE f = Prepared /\ jobs[f] \in 1..6
    <3>1. jobs[f] \in {1, 2, 3, 4, 5, 6}
        BY <2>1
    <3> QED
        BY <1>2, <2>1, <3>1, PreparedSteps
  <2>2. CASE f = PreBlackbox /\ jobs[f] = 1
      BY <2>2, BlackboxSteps
  <2>3. CASE f = Sv2vOut /\ jobs[f] \in 1..2
    <3>1. jobs[f] \in {1, 2}
        BY <2>3
    <3> QED
        BY <2>3, <3>1, Sv2vSteps
  <2>4. ASSUME NEW t \in make.goals \cap Instrumented, f = Precompact(t), jobs[f] = 1
        PROVE  c.to = f /\ c.do = "yosys" /\ f \notin {Prepared, Sv2vOut}
    <3>1. c = Command(Sv2vOut, Precompact(t), "yosys")
        BY <2>4, PrecompactSteps
    <3>2. Precompact(t) # Prepared /\ Precompact(t) # Sv2vOut
        BY Names
    <3> QED
        BY <2>4, <3>1, <3>2
  <2>5. CASE f = Design("vanilla") /\ jobs[f] \in 1..3
    <3>1. jobs[f] \in {1, 2, 3}
        BY <2>5
    <3> QED
        BY <1>2, <2>5, <3>1, VanillaSteps
  <2>6. CASE \E t \in make.goals \cap Instrumented : f = Design(t) /\ jobs[f] \in 1..5
    <3>1. PICK t \in make.goals \cap Instrumented : f = Design(t) /\ jobs[f] \in 1..5
        BY <2>6
    <3>2. jobs[f] \in {1, 2, 3, 4, 5} /\ t # "vanilla"
        BY <3>1 DEF Instrumented
    <3>3. c \in {Command(Precompact(t), Interm, "compact"), Command(Interm, Interm, "deparam"),
                 Command(Interm, Design(t), "cat"), Command(Interm, Interm, "rm"),
                 Command(Precompact(t), Log(t), "cp")}
        BY <3>1, <3>2, CompactSteps
    <3> QED
        BY <1>2, <3>1, <3>3
  <2>7. CASE \E t \in make.goals : f = Exe(t) /\ jobs[f] \in 1..3
    <3>1. PICK t \in make.goals : f = Exe(t) /\ jobs[f] \in 1..3
        BY <2>7
    <3>2. jobs[f] \in {1, 2, 3}
        BY <3>1
    <3>3. c \in {Command(Conf, Conf, "rm"), Command(Design(t), Conf, "library_add"),
                 Command(Design(t), Exe(t), "fusesoc")}
        BY <3>1, <3>2, ExeSteps
    <3>4. \E u \in make.goals : f = Exe(u)
        BY <3>1
    <3> QED
        BY <1>2, <3>1, <3>3, <3>4
  <2> HIDE DEF Cmd, Command
  <2> QED
      BY <2>1, <2>2, <2>3, <2>4, <2>5, <2>6, <2>7, JobKinds
<1>4. Removed(c) \subseteq Scratch
    BY <1>3 DEF Removed
<1> QED
    BY <1>1, <1>3, <1>4

(***************************************************************************)
(* Types                                                                   *)
(***************************************************************************)

\* Every recipe has a first command.
LEMMA FirstCommand ==
    ASSUME MakeShape, NEW f \in Needed
    PROVE  1 \in 1..Len(Recipe(f))
<1>1. Len(Recipe(f)) \in {1, 2, 3, 5, 6}
  <2>1. CASE f = Prepared
      BY <2>1, PreparedSteps
  <2>2. CASE f = PreBlackbox
      BY <2>2, BlackboxSteps
  <2>3. CASE f = Sv2vOut
      BY <2>3, Sv2vSteps
  <2>4. ASSUME NEW t, f = Precompact(t) PROVE Len(Recipe(f)) = 1
      BY <2>4, PrecompactSteps
  <2>5. CASE f = Design("vanilla")
      BY <2>5, VanillaSteps
  <2>6. ASSUME NEW t \in Instrumented, f = Design(t) PROVE Len(Recipe(f)) = 5
    <3>1. t # "vanilla"
        BY DEF Instrumented
    <3> QED
        BY <2>6, <3>1, CompactSteps
  <2>7. ASSUME NEW t, f = Exe(t) PROVE Len(Recipe(f)) = 3
      BY <2>7, ExeSteps
  <2> QED
      BY <2>1, <2>2, <2>3, <2>4, <2>5, <2>6, <2>7, NeededKinds
<1> QED
    BY <1>1

\* The empty function has no arguments, and nothing is nothing.
LEMMA NoJobs ==
    /\ DOMAIN <<>> = {} /\ IsFiniteSet({}) /\ Cardinality({}) = 0
<1>1. DOMAIN <<>> = {}
    OBVIOUS
<1> QED
    BY <1>1, FS_EmptySet

\* A recipe that ends gives its job back.
LEMMA OneJobLess ==
    ASSUME MakeTypes, NEW f \in DOMAIN jobs, jobs' = WithoutJob(f)
    PROVE  /\ DOMAIN jobs' = DOMAIN jobs \ {f}
           /\ IsFiniteSet(DOMAIN jobs') /\ Cardinality(DOMAIN jobs') <= make.j
           /\ \A g \in DOMAIN jobs' : jobs'[g] = jobs[g]
<1>1. DOMAIN jobs' = DOMAIN jobs \ {f} /\ \A g \in DOMAIN jobs' : jobs'[g] = jobs[g]
    BY DEF WithoutJob
<1>2. IsFiniteSet(DOMAIN jobs) /\ Cardinality(DOMAIN jobs) <= make.j /\ make.j \in Nat
    BY DEF MakeTypes, TypeOK, MakeShape
<1>3. /\ IsFiniteSet(DOMAIN jobs \ {f})
      /\ Cardinality(DOMAIN jobs \ {f}) = Cardinality(DOMAIN jobs) - 1
    BY <1>2, FS_RemoveElement
<1>4. Cardinality(DOMAIN jobs) \in Nat
    BY <1>2, FS_CardinalityType
<1>5. Cardinality(DOMAIN jobs \ {f}) <= make.j
    BY <1>2, <1>3, <1>4
<1> QED
    BY <1>1, <1>3, <1>5

\* Every command writes a version that the sources have had.
LEMMA OutputVersion ==
    ASSUME MakeTypes, NEW f \in DOMAIN jobs, Accepts(Cmd(f)), Cmd(f).do # "rm"
    PROVE  Output(f, Cmd(f)).script \in 0..script
<1>1. Cmd(f).from \in DOMAIN file
    BY DEF Accepts
<1>2. file[Cmd(f).from].script \in 0..script /\ script \in 0..script
    BY <1>1 DEF MakeTypes, TypeOK
<1> QED
    BY <1>2 DEF Output

\* The build directories get designs that exist.
CopiesDesigns ==
    \E ts \in SUBSET Targets : Copy(ts) /\ \A t \in ts : Design(t) \in DOMAIN file

\* So the directories have versions that the sources have had.
LEMMA CopyTypes ==
    ASSUME TypeOK, CopiesDesigns
    PROVE  DOMAIN copied' \subseteq Targets /\ \A t \in DOMAIN copied' : copied'[t].script \in 0..script
<1>1. PICK ts \in SUBSET Targets : Copy(ts) /\ \A t \in ts : Design(t) \in DOMAIN file
    BY DEF CopiesDesigns
<1>2. copied' = [t \in DOMAIN copied \cup ts |-> IF t \in ts THEN file[Design(t)] ELSE copied[t]]
    BY <1>1 DEF Copy, Design
<1> QED
    BY <1>1, <1>2 DEF TypeOK

\* They have the instrumentation of their target.
LEMMA CopyBy ==
    ASSUME Instrumentation, CopiesDesigns
    PROVE  \A t \in DOMAIN copied' : copied'[t].by = t
<1>1. PICK ts \in SUBSET Targets : Copy(ts) /\ \A t \in ts : Design(t) \in DOMAIN file
    BY DEF CopiesDesigns
<1>2. copied' = [t \in DOMAIN copied \cup ts |-> IF t \in ts THEN file[Design(t)] ELSE copied[t]]
    BY <1>1 DEF Copy, Design
<1>3. \A t \in ts : file[Design(t)].by = t
    BY <1>1 DEF Instrumentation, IsBy
<1> QED
    BY <1>2, <1>3 DEF Instrumentation

\* FuseSoC, when it succeeds, has copied the design that it built.
LEMMA AdvanceCopies ==
    ASSUME MakeTypes, NEW f \in DOMAIN jobs, Advance(f)
    PROVE  CopiesDesigns
<1> DEFINE c == Cmd(f)
           ts == {t \in Targets : c.to = Exe(t)}
<1>1. Accepts(c) /\ Copy(ts)
    BY DEF Advance, Cmd, Exe
<1>2. ASSUME NEW t \in ts PROVE Design(t) \in DOMAIN file
  <2>1. f = Exe(t)
    <3>1. c.to = Exe(t) /\ c.to \in {f} \cup Scratch
        BY Targeted
    <3>2. Exe(t) \notin Scratch
        BY Names DEF Scratch
    <3> QED
        BY <3>1, <3>2
  <2>2. jobs[f] \in {1, 2, 3}
    <3>1. jobs[f] \in 1..3
        BY <2>1, Names, JobKinds
    <3> QED
        BY <3>1
  <2>3. c \in {Command(Conf, Conf, "rm"), Command(Design(t), Conf, "library_add"),
                Command(Design(t), Exe(t), "fusesoc")}
      BY <2>1, <2>2, ExeSteps DEF Cmd
  <2>4. Conf # Exe(t)
      BY Names
  <2>5. c.from = Design(t) /\ c.do = "fusesoc"
      BY <2>3, <2>4 DEF Command
  <2> QED
      BY <1>1, <2>5 DEF Accepts
<1> QED
    BY <1>1, <1>2 DEF CopiesDesigns

\* When it is stopped, it may have.
LEMMA StopCopies ==
    ASSUME NEW ts \in SUBSET AtFusesoc, Copy(ts)
    PROVE  CopiesDesigns
BY DEF CopiesDesigns, AtFusesoc, Design

\* So it is when a command fails.
LEMMA FailCopies == ASSUME NEW f, Fail(f) PROVE CopiesDesigns
<1>1. PICK ts \in SUBSET {t \in AtFusesoc : f = <<"exe", t>>} : Copy(ts)
    BY DEF Fail
<1>2. ts \in SUBSET AtFusesoc
    OBVIOUS
<1> QED
    BY <1>1, <1>2, StopCopies

\* So it is when make is interrupted.
LEMMA InterruptCopies == ASSUME Interrupt PROVE CopiesDesigns
BY StopCopies DEF Interrupt

\* make is called.
LEMMA CallTypes ==
    ASSUME MakeTypes, NEW build \in Builds, Call(build)
    PROVE  MakeTypes'
<1>1. /\ make' = [goals |-> build.goals, j |-> build.j, done |-> {PickledSv},
                  script |-> script, status |-> "making"]
      /\ ~Running /\ runs < MaxRuns /\ runs' = runs + 1
      /\ UNCHANGED <<file, fresh, script, jobs, ran, copied, recompiled, edited>>
    BY DEF Call, PickledSv
<1>2. DOMAIN jobs' = {} /\ Cardinality({}) = 0 /\ IsFiniteSet({})
    BY <1>1, NoJobs DEF MakeTypes, MakeShape
<1>3. build.goals \subseteq Targets /\ build.j \in Nat /\ MaxRuns \in Nat /\ MaxEdits \in Nat
    BY MakeAssumption
<1>4. {PickledSv} \subseteq Files
    BY DEF Files, Shared, PickledSv
<1>5. script \in Nat /\ script <= script
    BY <1>3 DEF MakeTypes, TypeOK
<1>6. MakeShape'
    BY <1>1, <1>2, <1>3, <1>4, <1>5 DEF MakeShape, Running
<1>7. runs' \in 0..MaxRuns
    BY <1>1, <1>3 DEF MakeTypes, TypeOK
<1>8. 0 <= build.j
    BY <1>3
<1>9. TypeOK'
    BY <1>1, <1>2, <1>7, <1>8 DEF MakeTypes, TypeOK
<1> QED
    BY <1>6, <1>9 DEF MakeTypes

\* A file is up to date.
LEMMA UpToDateTypes ==
    ASSUME MakeTypes, NEW f \in Files, UpToDate(f)
    PROVE  MakeTypes'
<1>1. /\ make' = [make EXCEPT !.done = @ \cup {f}]
      /\ UNCHANGED <<file, fresh, script, jobs, ran, copied, recompiled, edited, runs>>
    BY DEF UpToDate
<1>2. MakeShape
    BY DEF MakeTypes
<1>3. /\ make'.goals = make.goals /\ make'.j = make.j /\ make'.status = make.status
      /\ make'.script = make.script /\ make'.done = make.done \cup {f}
    BY <1>1, <1>2 DEF MakeShape
<1>4. make' \in [goals : SUBSET Targets, j : Nat, done : SUBSET Files, script : Nat,
                 status : {"idle", "making", "failed", "made"}]
    BY <1>1, <1>2 DEF MakeShape
<1>5. MakeShape'
    BY <1>1, <1>2, <1>3, <1>4 DEF MakeShape, Running
<1>6. TypeOK'
    BY <1>1, <1>3 DEF MakeTypes, TypeOK, Needed
<1> QED
    BY <1>5, <1>6 DEF MakeTypes

\* A recipe starts.
LEMMA StartRecipeTypes ==
    ASSUME MakeTypes, NEW f \in Files, StartRecipe(f)
    PROVE  MakeTypes'
<1>1. /\ Considered(f) /\ Cardinality(DOMAIN jobs) < make.j
      /\ jobs' = [g \in DOMAIN jobs \cup {f} |-> IF g = f THEN 1 ELSE jobs[g]]
      /\ UNCHANGED <<file, fresh, script, make, ran, copied, recompiled, edited, runs>>
    BY DEF StartRecipe
<1>2. f \in Needed /\ f \notin DOMAIN jobs /\ make.status = "making"
    BY <1>1 DEF Considered
<1>3. DOMAIN jobs' = DOMAIN jobs \cup {f}
    BY <1>1
<1>4. IsFiniteSet(DOMAIN jobs) /\ make.j \in Nat /\ MakeShape
    BY DEF MakeTypes, MakeShape
<1>5. /\ IsFiniteSet(DOMAIN jobs \cup {f})
      /\ Cardinality(DOMAIN jobs \cup {f}) = Cardinality(DOMAIN jobs) + 1
    BY <1>2, <1>4, FS_AddElement
<1>6. Cardinality(DOMAIN jobs \cup {f}) <= make.j
  <2>1. Cardinality(DOMAIN jobs) \in Nat
      BY <1>4, FS_CardinalityType
  <2> QED
      BY <1>1, <1>4, <1>5, <2>1
<1>7. \A g \in DOMAIN jobs' : jobs'[g] \in 1..Len(Recipe(g))
    BY <1>1, <1>2, <1>4, FirstCommand DEF MakeTypes, TypeOK
<1>8. MakeShape'
    BY <1>1, <1>2, <1>3, <1>4, <1>5 DEF MakeShape, Running
<1>9. Needed' = Needed
    BY <1>1 DEF Needed
<1>10. TypeOK'
    BY <1>1, <1>2, <1>3, <1>6, <1>7, <1>9 DEF MakeTypes, TypeOK
<1> QED
    BY <1>8, <1>10 DEF MakeTypes

\* A file is written.
LEMMA FreshenTypes ==
    ASSUME TypeOK, NEW f, Freshen(f)
    PROVE  fresh' \in [Files -> BOOLEAN]
BY DEF TypeOK, Freshen

\* A command succeeds.
LEMMA AdvanceTypes ==
    ASSUME MakeTypes, NEW f \in DOMAIN jobs, Advance(f)
    PROVE  MakeTypes'
<1> DEFINE c == Cmd(f)
<1>1. /\ Accepts(c) /\ Freshen(c.to)
      /\ file' = [g \in (DOMAIN file \cup {c.to}) \ Removed(c) |->
                     IF g = c.to THEN Output(f, c) ELSE file[g]]
      /\ recompiled' \subseteq recompiled
      /\ edited' = (edited /\ c.do # "replace_instances")
      /\ IF jobs[f] < Len(Recipe(f))
         THEN jobs' = [jobs EXCEPT ![f] = @ + 1] /\ UNCHANGED make
         ELSE jobs' = WithoutJob(f) /\ make' = [make EXCEPT !.done = @ \cup {f}]
      /\ UNCHANGED <<script, ran, runs>>
    BY DEF Advance, Cmd
<1>2. /\ c.to \in Files /\ f \in Needed /\ f \in Files /\ MakeShape
      /\ jobs[f] \in 1..Len(Recipe(f))
  <2>1. c.to \in Files /\ f \in Needed /\ MakeShape /\ jobs[f] \in 1..Len(Recipe(f))
      BY Targeted DEF MakeTypes, TypeOK
  <2> QED
      BY <2>1, NeededKinds
<1>3. DOMAIN file' \subseteq Files
    BY <1>1, <1>2 DEF MakeTypes, TypeOK
<1>4. ASSUME NEW g \in DOMAIN file' PROVE file'[g].script \in 0..script
  <2>1. CASE g = c.to
    <3>1. c.do # "rm"
        BY <1>1, <1>4, <2>1 DEF Removed
    <3>2. file'[g] = Output(f, c)
        BY <1>1, <1>4, <2>1
    <3> QED
        BY <1>1, <3>1, <3>2, OutputVersion
  <2>2. CASE g # c.to
    <3>1. g \in DOMAIN file /\ file'[g] = file[g]
        BY <1>1, <1>4, <2>2
    <3> QED
        BY <3>1 DEF MakeTypes, TypeOK
  <2> QED
      BY <2>1, <2>2
<1>5. fresh' \in [Files -> BOOLEAN]
    BY <1>1, FreshenTypes DEF MakeTypes
<1>6. recompiled' \subseteq Targets
    BY <1>1 DEF MakeTypes, TypeOK
<1>7. edited' \in BOOLEAN
    BY <1>1 DEF MakeTypes, TypeOK
<1>8. /\ make' \in [goals : SUBSET Targets, j : Nat, done : SUBSET Files, script : Nat,
                    status : {"idle", "making", "failed", "made"}]
      /\ make'.goals = make.goals /\ make'.j = make.j /\ make'.status = make.status
      /\ make'.script = make.script
    BY <1>1, <1>2 DEF MakeShape
<1>9. /\ DOMAIN jobs' \subseteq DOMAIN jobs /\ IsFiniteSet(DOMAIN jobs')
      /\ Cardinality(DOMAIN jobs') <= make.j
      /\ \A g \in DOMAIN jobs' : jobs'[g] \in 1..Len(Recipe(g))
  <2>1. CASE jobs[f] < Len(Recipe(f))
    <3>1. DOMAIN jobs' = DOMAIN jobs /\ jobs' = [jobs EXCEPT ![f] = @ + 1]
        BY <1>1, <2>1
    <3>2. jobs[f] + 1 \in 1..Len(Recipe(f))
        BY <1>2, <2>1
    <3>3. \A g \in DOMAIN jobs : jobs'[g] = IF g = f THEN jobs[f] + 1 ELSE jobs[g]
        BY <3>1
    <3>4. \A g \in DOMAIN jobs' : jobs'[g] \in 1..Len(Recipe(g))
        BY <3>1, <3>2, <3>3 DEF MakeTypes, TypeOK
    <3> QED
        BY <3>1, <3>4 DEF MakeTypes, TypeOK, MakeShape
  <2>2. CASE ~(jobs[f] < Len(Recipe(f)))
    <3>1. jobs' = WithoutJob(f)
        BY <1>1, <2>2
    <3> QED
        BY <3>1, OneJobLess DEF MakeTypes, TypeOK
  <2> QED
      BY <2>1, <2>2
<1>10. Running /\ Running'
  <2>1. Running
      BY DEF MakeTypes, MakeShape
  <2> QED
      BY <1>8, <2>1 DEF Running
<1>11. MakeShape'
    BY <1>1, <1>2, <1>8, <1>9, <1>10 DEF MakeShape
<1>12. Needed' = Needed
    BY <1>8 DEF Needed
<1>13. DOMAIN copied' \subseteq Targets /\ \A t \in DOMAIN copied' : copied'[t].script \in 0..script
    BY AdvanceCopies, CopyTypes DEF MakeTypes
<1>14. TypeOK'
    BY <1>1, <1>3, <1>4, <1>5, <1>6, <1>7, <1>8, <1>9, <1>12, <1>13 DEF MakeTypes, TypeOK
<1> QED
    BY <1>11, <1>14 DEF MakeTypes

\* A command fails.
LEMMA FailTypes ==
    ASSUME MakeTypes, NEW f \in DOMAIN jobs, Fail(f)
    PROVE  MakeTypes'
<1> DEFINE c == Cmd(f)
<1>1. /\ IF c.do \in Redirections
         THEN /\ file' = [g \in DOMAIN file \cup {c.to} |->
                             IF g = c.to THEN [text |-> <<>>, by |-> "vanilla", script |-> 0]
                             ELSE file[g]]
              /\ Freshen(c.to)
         ELSE UNCHANGED <<file, fresh>>
      /\ jobs' = WithoutJob(f)
      /\ make' = [make EXCEPT !.status = "failed"]
      /\ UNCHANGED <<script, ran, recompiled, edited, runs>>
    BY DEF Fail, Cmd
<1>2. c.to \in Files /\ MakeShape /\ script \in Nat
    BY Targeted, MakeAssumption DEF MakeTypes, TypeOK
<1>3. /\ DOMAIN file' \subseteq Files /\ fresh' \in [Files -> BOOLEAN]
      /\ \A g \in DOMAIN file' : file'[g].script \in 0..script
  <2>1. CASE c.do \in Redirections
    <3>1. fresh' \in [Files -> BOOLEAN]
        BY <1>1, <2>1, FreshenTypes DEF MakeTypes
    <3>2. \A g \in DOMAIN file' : g \in Files /\ file'[g].script \in 0..script
      <4>1. 0 \in 0..script
          BY <1>2
      <4> QED
          BY <1>1, <1>2, <2>1, <4>1 DEF MakeTypes, TypeOK
    <3> QED
        BY <3>1, <3>2
  <2>2. CASE c.do \notin Redirections
      BY <1>1, <2>2 DEF MakeTypes, TypeOK
  <2> QED
      BY <2>1, <2>2
<1>4. /\ make' \in [goals : SUBSET Targets, j : Nat, done : SUBSET Files, script : Nat,
                    status : {"idle", "making", "failed", "made"}]
      /\ make'.goals = make.goals /\ make'.j = make.j /\ make'.status = "failed"
      /\ make'.script = make.script
    BY <1>1, <1>2 DEF MakeShape
<1>5. /\ DOMAIN jobs' \subseteq DOMAIN jobs /\ IsFiniteSet(DOMAIN jobs')
      /\ Cardinality(DOMAIN jobs') <= make.j
      /\ \A g \in DOMAIN jobs' : jobs'[g] \in 1..Len(Recipe(g))
    BY <1>1, OneJobLess DEF MakeTypes, TypeOK
<1>6. MakeShape'
    BY <1>1, <1>2, <1>4, <1>5 DEF MakeShape, Running
<1>7. Needed' = Needed
    BY <1>4 DEF Needed
<1>8. DOMAIN copied' \subseteq Targets /\ \A t \in DOMAIN copied' : copied'[t].script \in 0..script
    BY FailCopies, CopyTypes DEF MakeTypes
<1>9. TypeOK'
    BY <1>1, <1>3, <1>4, <1>5, <1>7, <1>8 DEF MakeTypes, TypeOK
<1> QED
    BY <1>6, <1>9 DEF MakeTypes

\* A log is missing.
LEMMA NoRuleTypes ==
    ASSUME MakeTypes, NoRule
    PROVE  MakeTypes'
<1>1. /\ make.status = "making" /\ make' = [make EXCEPT !.status = "failed"]
      /\ UNCHANGED <<file, fresh, script, jobs, ran, copied, recompiled, edited, runs>>
    BY DEF NoRule
<1>2. MakeShape
    BY DEF MakeTypes
<1>3. /\ make' \in [goals : SUBSET Targets, j : Nat, done : SUBSET Files, script : Nat,
                    status : {"idle", "making", "failed", "made"}]
      /\ make'.goals = make.goals /\ make'.j = make.j /\ make'.status = "failed"
      /\ make'.script = make.script
    BY <1>1, <1>2 DEF MakeShape
<1>4. MakeShape'
    BY <1>1, <1>2, <1>3 DEF MakeShape, Running
<1>5. TypeOK'
    BY <1>1, <1>3 DEF MakeTypes, TypeOK, Needed
<1> QED
    BY <1>4, <1>5 DEF MakeTypes

\* make is idle between calls.
LEMMA IdleTypes ==
    /\ Idle \in [goals : SUBSET Targets, j : Nat, done : SUBSET Files, script : Nat,
                 status : {"idle", "making", "failed", "made"}]
    /\ Idle.j = 0 /\ Idle.script = 0 /\ Idle.status = "idle" /\ Idle.goals = {} /\ Idle.done = {}
BY DEF Idle

\* A call ends.
LEMMA FinishTypes ==
    ASSUME MakeTypes, Finish
    PROVE  MakeTypes'
<1>1. /\ jobs = <<>>
      /\ IF make.status = "failed" THEN make' = Idle ELSE make' = [make EXCEPT !.status = "made"]
      /\ UNCHANGED <<file, fresh, script, jobs, copied, recompiled, edited, runs>>
    BY DEF Finish
<1>2. DOMAIN jobs' = {} /\ IsFiniteSet({}) /\ Cardinality({}) = 0
    BY <1>1, NoJobs
<1>3. MakeShape /\ script \in Nat
    BY MakeAssumption DEF MakeTypes, TypeOK
<1>4. /\ make' \in [goals : SUBSET Targets, j : Nat, done : SUBSET Files, script : Nat,
                    status : {"idle", "making", "failed", "made"}]
      /\ make'.script <= script /\ make'.status \in {"idle", "made"}
  <2>1. CASE make.status = "failed"
    <3>1. make' = Idle /\ 0 <= script
        BY <1>1, <1>3, <2>1
    <3> QED
        BY <3>1, IdleTypes
  <2>2. CASE make.status # "failed"
      BY <1>1, <1>3, <2>2 DEF MakeShape
  <2> QED
      BY <2>1, <2>2
<1>5. MakeShape'
    BY <1>1, <1>2, <1>4 DEF MakeShape, Running
<1>6. 0 <= make'.j
    BY <1>4
<1>7. TypeOK'
    BY <1>1, <1>2, <1>4, <1>6 DEF MakeTypes, TypeOK
<1> QED
    BY <1>5, <1>7 DEF MakeTypes

\* The user interrupts a call.
LEMMA InterruptTypes ==
    ASSUME MakeTypes, Interrupt
    PROVE  MakeTypes'
<1>1. /\ DOMAIN file' \subseteq DOMAIN file /\ \A f \in DOMAIN file' : file'[f] = file[f]
      /\ jobs' = <<>> /\ make' = Idle
      /\ UNCHANGED <<fresh, script, ran, recompiled, edited, runs>>
    BY DEF Interrupt
<1>copied. DOMAIN copied' \subseteq Targets /\ \A t \in DOMAIN copied' : copied'[t].script \in 0..script
    BY InterruptCopies, CopyTypes DEF MakeTypes
<1>2. DOMAIN jobs' = {} /\ IsFiniteSet({}) /\ Cardinality({}) = 0 /\ 0 <= 0
    BY <1>1, NoJobs
<1>3. 0 <= script
    BY MakeAssumption DEF MakeTypes, TypeOK
<1>4. MakeShape'
    BY <1>1, <1>2, <1>3, IdleTypes DEF MakeShape, Running
<1>5. TypeOK'
    BY <1>1, <1>2, <1>copied, IdleTypes DEF MakeTypes, TypeOK
<1> QED
    BY <1>4, <1>5 DEF MakeTypes

\* The script is edited.
LEMMA EditScriptTypes ==
    ASSUME MakeTypes, EditScript
    PROVE  MakeTypes'
<1>1. /\ script < MaxEdits /\ script' = script + 1
      /\ fresh' = [fresh EXCEPT ![Prepared] = FALSE]
      /\ edited' = (edited \/ ReadScript)
      /\ UNCHANGED <<file, make, jobs, ran, copied, recompiled, runs>>
    BY DEF EditScript, Prepared
<1>2. script \in 1..MaxEdits /\ MaxEdits \in Nat /\ make.script \in Nat /\ make.script <= script
    BY MakeAssumption DEF MakeTypes, TypeOK, MakeShape
<1>3. script' \in 1..MaxEdits /\ make.script <= script' /\ \A v : v \in 0..script => v \in 0..script'
    BY <1>1, <1>2
<1>4. fresh' \in [Files -> BOOLEAN]
    BY <1>1 DEF MakeTypes, TypeOK
<1>5. edited' \in BOOLEAN
    BY <1>1 DEF ReadScript, MakeTypes, TypeOK
<1>6. MakeShape'
    BY <1>1, <1>3 DEF MakeTypes, MakeShape, Running
<1>7. Needed' = Needed
    BY <1>1 DEF Needed
<1>8. TypeOK'
    BY <1>1, <1>3, <1>4, <1>5, <1>7 DEF MakeTypes, TypeOK
<1> QED
    BY <1>6, <1>8 DEF MakeTypes

\* An executable is made again.
LEMMA RecompileTypes ==
    ASSUME MakeTypes, NEW t \in Targets, Recompile(t)
    PROVE  MakeTypes'
<1>1. /\ t \in DOMAIN copied
      /\ \/ /\ file' = [f \in DOMAIN file \cup {Exe(t)} |-> IF f = Exe(t) THEN copied[t] ELSE file[f]]
            /\ Freshen(Exe(t)) /\ recompiled' = recompiled \cup {t}
         \/ /\ file' = [f \in DOMAIN file \ {Exe(t)} |-> file[f]]
            /\ UNCHANGED <<fresh, recompiled>>
      /\ UNCHANGED <<script, make, jobs, ran, copied, edited, runs>>
    BY DEF Recompile, Exe
<1>2. DOMAIN file' \subseteq Files /\ \A f \in DOMAIN file' : file'[f].script \in 0..script
  <2>1. Exe(t) \in Files
      BY DEF Files, Exe
  <2>2. DOMAIN file \subseteq Files /\ \A f \in DOMAIN file : file[f].script \in 0..script
      BY DEF MakeTypes, TypeOK
  <2>3. copied[t].script \in 0..script
      BY <1>1 DEF MakeTypes, TypeOK
  <2> QED
      BY <1>1, <2>1, <2>2, <2>3
<1>3. fresh' \in [Files -> BOOLEAN]
    BY <1>1, FreshenTypes DEF MakeTypes, TypeOK
<1>4. recompiled' \subseteq Targets
    BY <1>1 DEF MakeTypes, TypeOK
<1>5. MakeShape'
    BY <1>1 DEF MakeTypes, MakeShape, Running
<1>6. Needed' = Needed
    BY <1>1 DEF Needed
<1>7. TypeOK'
    BY <1>1, <1>2, <1>3, <1>4, <1>6 DEF MakeTypes, TypeOK
<1> QED
    BY <1>5, <1>7 DEF MakeTypes

\* Initially there is the pickled design.
LEMMA InitTypes == MakeInit => MakeTypes
<1> SUFFICES ASSUME MakeInit PROVE MakeTypes
    OBVIOUS
<1>1. /\ file = [f \in {PickledSv} |-> [text |-> Pickled, by |-> "vanilla", script |-> 0]]
      /\ fresh = [f \in Files |-> f = PickledSv] /\ script = 1 /\ make = Idle /\ jobs = <<>>
      /\ copied = <<>> /\ recompiled = {} /\ edited = FALSE /\ runs = 0
    BY DEF MakeInit, PickledSv
<1>2. DOMAIN copied = {} /\ DOMAIN jobs = {} /\ IsFiniteSet({}) /\ Cardinality({}) = 0
    BY <1>1, NoJobs
<1>3. PickledSv \in Files /\ DOMAIN file = {PickledSv} /\ file[PickledSv].script = 0
    BY <1>1 DEF Files, Shared, PickledSv
<1>4. script \in 1..MaxEdits /\ runs \in 0..MaxRuns /\ 0 \in 0..script /\ 0 <= script /\ 0 <= 0
    BY <1>1, MakeAssumption
<1>5. MakeShape
    BY <1>1, <1>2, <1>4, IdleTypes DEF MakeShape, Running
<1>6. TypeOK
    BY <1>1, <1>2, <1>3, <1>4, IdleTypes DEF TypeOK
<1> QED
    BY <1>5, <1>6 DEF MakeTypes

\* Every step keeps the types.
LEMMA NextTypes == MakeTypes /\ [MakeNext]_makevars => MakeTypes'
<1> SUFFICES ASSUME MakeTypes, [MakeNext]_makevars PROVE MakeTypes'
    OBVIOUS
<1>1. CASE UNCHANGED makevars
    BY <1>1 DEF makevars, MakeTypes, TypeOK, MakeShape, Running, Needed
<1>2. CASE MakeNext
    BY <1>2, CallTypes, UpToDateTypes, StartRecipeTypes, NoRuleTypes, AdvanceTypes, FailTypes,
       FinishTypes, InterruptTypes, EditScriptTypes, RecompileTypes DEF MakeNext
<1> QED
    BY <1>1, <1>2

\* The types of cellift/Makefile's model: no version runs ahead of the
\* sources, and no more recipes run than make -j allows.
THEOREM MakeTypeCorrect == MakeSpec => []TypeOK
<1>1. MakeTypes => TypeOK
    BY DEF MakeTypes
<1> QED
    BY <1>1, InitTypes, NextTypes, PTL DEF MakeSpec

(***************************************************************************)
(* What a command of a running recipe touches                              *)
(***************************************************************************)
Touched(c) == {c.to} \cup Removed(c)

\* Each recipe touches its target and its own scratch file; Conf is shared.
OwnFile(f, g) ==
    \/ g = f \/ g = Conf \/ \E t : g = Log(t)
    \/ g = TmpPickle /\ f = Prepared
    \/ g = Tmp /\ f = Design("vanilla")
    \/ g = Interm /\ \E t \in make.goals \cap Instrumented : f = Design(t)

\* The files that a command touches.
LEMMA Touches ==
    ASSUME MakeTypes, NEW f \in DOMAIN jobs
    PROVE  \A g \in Touched(Cmd(f)) : OwnFile(f, g)
<1> DEFINE c == Cmd(f)
<1> SUFFICES OwnFile(f, c.to) /\ (c.do = "mv" => OwnFile(f, c.from))
  <2>1. \A g \in Touched(c) : g = c.to \/ (c.do = "mv" /\ g = c.from)
      BY DEF Touched, Removed
  <2> QED
      BY <2>1
<1> USE DEF Cmd, Command, OwnFile
<1>1. CASE f = Prepared /\ jobs[f] \in 1..6
  <2>1. jobs[f] \in {1, 2, 3, 4, 5, 6}
      BY <1>1
  <2> QED
      BY <1>1, <2>1, PreparedSteps
<1>2. CASE f = PreBlackbox /\ jobs[f] = 1
    BY <1>2, BlackboxSteps
<1>3. CASE f = Sv2vOut /\ jobs[f] \in 1..2
  <2>1. jobs[f] \in {1, 2}
      BY <1>3
  <2> QED
      BY <1>3, <2>1, Sv2vSteps
<1>4. ASSUME NEW t \in make.goals \cap Instrumented, f = Precompact(t), jobs[f] = 1
      PROVE  c.to = f /\ c.do # "mv"
  <2>1. c = Command(Sv2vOut, Precompact(t), "yosys")
      BY <1>4, PrecompactSteps
  <2> QED
      BY <1>4, <2>1
<1>5. CASE f = Design("vanilla") /\ jobs[f] \in 1..3
  <2>1. jobs[f] \in {1, 2, 3}
      BY <1>5
  <2> QED
      BY <1>5, <2>1, VanillaSteps
<1>6. ASSUME NEW t \in make.goals \cap Instrumented, f = Design(t), jobs[f] \in 1..5
      PROVE  c.to \in {f, Interm, Log(t)} /\ c.do # "mv"
  <2>1. jobs[f] \in {1, 2, 3, 4, 5} /\ t # "vanilla"
      BY <1>6 DEF Instrumented
  <2>2. c \in {Command(Precompact(t), Interm, "compact"), Command(Interm, Interm, "deparam"),
               Command(Interm, Design(t), "cat"), Command(Interm, Interm, "rm"),
               Command(Precompact(t), Log(t), "cp")}
      BY <1>6, <2>1, CompactSteps
  <2> QED
      BY <1>6, <2>2
<1>7. ASSUME NEW t \in make.goals, f = Exe(t), jobs[f] \in 1..3
      PROVE  c.to \in {f, Conf} /\ c.do # "mv"
  <2>1. jobs[f] \in {1, 2, 3}
      BY <1>7
  <2>2. c \in {Command(Conf, Conf, "rm"), Command(Design(t), Conf, "library_add"),
               Command(Design(t), Exe(t), "fusesoc")}
      BY <1>7, <2>1, ExeSteps
  <2> QED
      BY <1>7, <2>2
<1> HIDE DEF Cmd, Command
<1> QED
    BY <1>1, <1>2, <1>3, <1>4, <1>5, <1>6, <1>7, JobKinds

\* No target is a scratch file.
LEMMA NeedsNoScratch ==
    ASSUME MakeShape, NEW f \in Needed
    PROVE  f \notin Scratch /\ f # PickledSv
BY NeededKinds, Names DEF Scratch

\* What make has dealt with is not touched.
LEMMA DoneIsUntouched ==
    ASSUME MakeTypes, Sequence, NEW f \in DOMAIN jobs, NEW g \in make.done
    PROVE  g \notin Touched(Cmd(f))
<1>1. g # f
    BY DEF Sequence
<1>2. g \notin Scratch
  <2>1. g \in Needed \/ g = PickledSv
      BY DEF Sequence
  <2>2. PickledSv \notin Scratch
      BY Names DEF Scratch
  <2> QED
      BY <2>1, <2>2, NeedsNoScratch DEF MakeTypes
<1>3. Touched(Cmd(f)) \subseteq {f} \cup Scratch
    BY Targeted DEF Touched
<1> QED
    BY <1>1, <1>2, <1>3

\* Nor is the pickled design.
LEMMA PickledIsUntouched ==
    ASSUME MakeTypes, NEW f \in DOMAIN jobs
    PROVE  PickledSv \notin Touched(Cmd(f)) /\ f # PickledSv
<1>1. f # PickledSv
    BY NeedsNoScratch DEF MakeTypes, TypeOK
<1>2. PickledSv \notin Scratch
    BY Names DEF Scratch
<1>3. Touched(Cmd(f)) \subseteq {f} \cup Scratch
    BY Targeted DEF Touched
<1> QED
    BY <1>1, <1>2, <1>3

\* Only one recipe at a time uses generated/interm.sv.
LEMMA OneIsCompacted ==
    ASSUME MakeTypes, OneCompacts,
           NEW t \in make.goals \cap Instrumented, NEW u \in make.goals \cap Instrumented,
           Design(t) \in DOMAIN jobs, Design(u) \in DOMAIN jobs
    PROVE  t = u
<1> SUFFICES ASSUME t # u PROVE FALSE
    OBVIOUS
<1>1. make.j <= 1
    BY DEF OneCompacts
<1>2. /\ IsFiniteSet(DOMAIN jobs) /\ Cardinality(DOMAIN jobs) <= make.j /\ make.j \in Nat
    BY DEF MakeTypes, TypeOK, MakeShape
<1>3. Design(t) # Design(u)
    BY Names
<1>4. IsFiniteSet({Design(t)}) /\ Cardinality({Design(t)}) = 1
    BY FS_Singleton
<1>5. Cardinality({Design(t)} \cup {Design(u)}) = 2
    BY <1>3, <1>4, FS_AddElement
<1>6. Cardinality({Design(t)} \cup {Design(u)}) <= Cardinality(DOMAIN jobs)
  <2>1. {Design(t)} \cup {Design(u)} \subseteq DOMAIN jobs
      OBVIOUS
  <2> QED
      BY <1>2, <2>1, FS_Subset
<1>7. Cardinality(DOMAIN jobs) \in Nat
    BY <1>2, FS_CardinalityType
<1> QED
    BY <1>1, <1>2, <1>5, <1>6, <1>7

\* Nothing is dealt with before the prepared design is.
LEMMA PreparedIsFirst ==
    ASSUME MakeTypes, Sequence, Prepared \notin make.done
    PROVE  make.done \subseteq {PickledSv}
<1>1. /\ make.done \subseteq Needed \cup {PickledSv}
      /\ \A f \in make.done : Prerequisites(f) \subseteq make.done
    BY DEF Sequence
<1>2. MakeShape
    BY DEF MakeTypes
<1>3. PreBlackbox \notin make.done
    BY <1>1, Rules
<1>4. Sv2vOut \notin make.done
    BY <1>1, <1>3, Rules
<1>5. \A t : Precompact(t) \notin make.done
    BY <1>1, <1>4, Rules
<1>6. ASSUME NEW t PROVE Design(t) \notin make.done
  <2>1. CASE t = "vanilla"
      BY <1>1, <2>1, Rules
  <2>2. CASE t # "vanilla"
      BY <1>1, <1>5, <2>2, Rules
  <2> QED
      BY <2>1, <2>2
<1>7. \A t : Exe(t) \notin make.done
    BY <1>1, <1>6, Rules
<1> QED
    BY <1>1, <1>2, <1>3, <1>4, <1>5, <1>6, <1>7, NeededKinds

(***************************************************************************)
(* A command succeeds                                                      *)
(***************************************************************************)

\* What happens to the files.
LEMMA AdvanceFiles ==
    ASSUME MakeTypes, NEW f \in DOMAIN jobs, Advance(f)
    PROVE  /\ \A g : g \notin Touched(Cmd(f)) =>
                 /\ g \in DOMAIN file' <=> g \in DOMAIN file
                 /\ g \in DOMAIN file => file'[g] = file[g]
           /\ \A g \in DOMAIN file' \ {Cmd(f).to} : g \in DOMAIN file /\ file'[g] = file[g]
           /\ Cmd(f).do # "rm" => /\ Cmd(f).to \in DOMAIN file' /\ Cmd(f).from \in DOMAIN file
                                  /\ file'[Cmd(f).to] = Output(f, Cmd(f))
           /\ Cmd(f).do = "rm" => Cmd(f).to \notin DOMAIN file'
           /\ \A g \in Files : fresh'[g] => Cmd(f).to \notin Prerequisites(g) /\ (g = Cmd(f).to \/ fresh[g])
<1> DEFINE c == Cmd(f)
<1>1. /\ Accepts(c) /\ Freshen(c.to)
      /\ file' = [g \in (DOMAIN file \cup {c.to}) \ Removed(c) |->
                     IF g = c.to THEN Output(f, c) ELSE file[g]]
    BY DEF Advance, Cmd
<1>2. c.do # "rm" => c.to \notin Removed(c)
  <2>1. c.do = "mv" => c.to = f /\ c.from \in Scratch
    <3>1. c.do = "mv" => c.to = f /\ Removed(c) \subseteq Scratch
        BY Targeted
    <3>2. c.do = "mv" => Removed(c) = {c.from}
        BY DEF Removed
    <3> QED
        BY <3>1, <3>2
  <2>2. f \notin Scratch
      BY NeedsNoScratch DEF MakeTypes, TypeOK
  <2> QED
      BY <2>1, <2>2 DEF Removed
<1>3. c.do = "rm" => c.to \in Removed(c)
    BY DEF Removed
<1>4. c.do # "rm" => c.from \in DOMAIN file
    BY <1>1 DEF Accepts
<1>5. \A g \in Files : fresh'[g] => c.to \notin Prerequisites(g) /\ (g = c.to \/ fresh[g])
    BY <1>1 DEF Freshen
<1> HIDE DEF c
<1>6. \A g : g \notin Touched(c) =>
          /\ g \in DOMAIN file' <=> g \in DOMAIN file
          /\ g \in DOMAIN file => file'[g] = file[g]
    BY <1>1 DEF Touched
<1>7. \A g \in DOMAIN file' \ {c.to} : g \in DOMAIN file /\ file'[g] = file[g]
    BY <1>1
<1>8. c.do # "rm" => /\ c.to \in DOMAIN file' /\ c.from \in DOMAIN file
                     /\ file'[c.to] = Output(f, c)
    BY <1>1, <1>2, <1>4
<1>9. c.do = "rm" => c.to \notin DOMAIN file'
    BY <1>1, <1>3
<1> QED
    BY <1>5, <1>6, <1>7, <1>8, <1>9 DEF c

\* What happens to the recipes and the call.
LEMMA AdvanceJobs ==
    ASSUME MakeTypes, NEW f \in DOMAIN jobs, Advance(f)
    PROVE  /\ DOMAIN jobs' \subseteq DOMAIN jobs
           /\ \A h \in DOMAIN jobs' : h # f => jobs'[h] = jobs[h]
           /\ f \in DOMAIN jobs' =>
                 jobs'[f] = jobs[f] + 1 /\ jobs[f] < Len(Recipe(f)) /\ make' = make
           /\ f \notin DOMAIN jobs' =>
                 jobs[f] = Len(Recipe(f)) /\ make' = [make EXCEPT !.done = @ \cup {f}]
           /\ jobs[f] \in Nat
<1>1. IF jobs[f] < Len(Recipe(f))
      THEN jobs' = [jobs EXCEPT ![f] = @ + 1] /\ UNCHANGED make
      ELSE jobs' = WithoutJob(f) /\ make' = [make EXCEPT !.done = @ \cup {f}]
    BY DEF Advance
<1>2. jobs[f] \in 1..Len(Recipe(f))
    BY DEF MakeTypes, TypeOK
<1>3. CASE jobs[f] < Len(Recipe(f))
  <2>1. DOMAIN jobs' = DOMAIN jobs /\ jobs'[f] = jobs[f] + 1
        /\ \A h \in DOMAIN jobs' : h # f => jobs'[h] = jobs[h]
      BY <1>1, <1>3
  <2>2. make' = make /\ jobs[f] \in Nat
      BY <1>1, <1>2, <1>3
  <2> QED
      BY <1>3, <2>1, <2>2
<1>4. CASE ~(jobs[f] < Len(Recipe(f)))
  <2>1. DOMAIN jobs' = DOMAIN jobs \ {f} /\ \A h \in DOMAIN jobs' : h # f => jobs'[h] = jobs[h]
      BY <1>1, <1>4 DEF WithoutJob
  <2>2. jobs[f] = Len(Recipe(f)) /\ jobs[f] \in Nat
      BY <1>2, <1>4
  <2> QED
      BY <1>1, <1>4, <2>1, <2>2
<1> QED
    BY <1>3, <1>4

\* What happens to the rest.
LEMMA AdvanceRest ==
    ASSUME MakeTypes, NEW f \in DOMAIN jobs, Advance(f)
    PROVE  /\ script' = script /\ ran' = ran /\ runs' = runs
           /\ edited' => edited
           /\ edited => edited' \/ (f = Prepared /\ jobs[f] = 3)
           /\ recompiled' \subseteq recompiled
           /\ \A t \in recompiled \ recompiled' : f = Exe(t) /\ Cmd(f).to = f
           /\ Running /\ Running'
<1> DEFINE c == Cmd(f)
<1>1. /\ recompiled' = IF c.do = "fusesoc" THEN recompiled \ {f[2]} ELSE recompiled
      /\ edited' = (edited /\ c.do # "replace_instances")
      /\ UNCHANGED <<script, ran, runs>>
    BY DEF Advance, Cmd
<1>2. ASSUME NEW t \in recompiled \ recompiled' PROVE f = Exe(t) /\ c.to = f
  <2>1. c.do = "fusesoc" /\ t = f[2]
      BY <1>1, <1>2
  <2>2. c.to = f /\ \E u \in make.goals : f = Exe(u)
      BY <2>1, Targeted
  <2>3. PICK u \in make.goals : f = Exe(u)
      BY <2>2
  <2>4. Exe(u)[2] = u
      BY Names
  <2> QED
      BY <2>1, <2>2, <2>3, <2>4
<1>3. c.do = "replace_instances" => f = Prepared /\ jobs[f] = 3
    BY Targeted
<1>4. Running /\ MakeShape
    BY DEF MakeTypes, MakeShape
<1>5. make'.status = make.status
    BY <1>4, AdvanceJobs DEF MakeShape
<1>6. Running'
    BY <1>4, <1>5 DEF Running
<1> QED
    BY <1>1, <1>2, <1>3, <1>4, <1>6

\* The call keeps its goals.
LEMMA AdvanceCall ==
    ASSUME MakeTypes, NEW f \in DOMAIN jobs, Advance(f)
    PROVE  /\ make'.goals = make.goals /\ make'.j = make.j /\ make'.script = make.script
           /\ make'.status = make.status /\ Needed' = Needed
           /\ make'.done = IF f \in DOMAIN jobs' THEN make.done ELSE make.done \cup {f}
<1>1. MakeShape
    BY DEF MakeTypes
<1>2. /\ make'.goals = make.goals /\ make'.j = make.j /\ make'.script = make.script
      /\ make'.status = make.status
      /\ make'.done = IF f \in DOMAIN jobs' THEN make.done ELSE make.done \cup {f}
  <2>1. CASE f \in DOMAIN jobs'
      BY <2>1, AdvanceJobs
  <2>2. CASE f \notin DOMAIN jobs'
      BY <1>1, <2>2, AdvanceJobs DEF MakeShape
  <2> QED
      BY <2>1, <2>2
<1>3. Needed' = Needed
    BY <1>2 DEF Needed
<1> QED
    BY <1>2, <1>3

\* The prepared design is made half-way.
LEMMA AdvancePrepared ==
    ASSUME MakeTypes, PreparedHalfway, NEW f \in DOMAIN jobs, Advance(f)
    PROVE  PreparedHalfway'
<1> SUFFICES ASSUME Prepared \in DOMAIN jobs'
             PROVE  /\ (Prepared \notin DOMAIN file \/ ~fresh[Prepared])'
                    /\ jobs'[Prepared] > 3 => (edited \/ Holds(TmpPickle, script))'
    BY DEF PreparedHalfway
<1>1. Prepared \in DOMAIN jobs /\ Prepared \in Files
    BY AdvanceJobs DEF Files, Shared, Prepared
<1>2. /\ Prepared \notin DOMAIN file \/ ~fresh[Prepared]
      /\ jobs[Prepared] > 3 => edited \/ Holds(TmpPickle, script)
    BY <1>1 DEF PreparedHalfway
<1>3. script' = script
    BY AdvanceRest
<1>4. CASE f = Prepared
  <2>1. jobs[f] \in 1..5 /\ jobs'[f] = jobs[f] + 1
    <3>1. Len(Recipe(f)) = 6 /\ jobs[f] \in 1..Len(Recipe(f))
        BY <1>4, PreparedSteps DEF MakeTypes, TypeOK
    <3>2. jobs[f] < Len(Recipe(f)) /\ jobs'[f] = jobs[f] + 1
        BY <1>4, AdvanceJobs
    <3> QED
        BY <3>1, <3>2
  <2>2. jobs[f] \in {1, 2, 3, 4, 5}
      BY <2>1
  <2>3. /\ Cmd(f).to = TmpPickle /\ Cmd(f).do # "rm"
        /\ jobs[f] = 3 => Cmd(f).do = "replace_instances"
        /\ jobs[f] \in {4, 5} => Cmd(f).from = TmpPickle /\ Cmd(f).do # "replace_instances"
      BY <1>4, <2>2, PreparedSteps DEF Cmd, Command
  <2>4. Prepared # TmpPickle
      BY Names
  <2>5. (Prepared \notin DOMAIN file \/ ~fresh[Prepared])'
      BY <1>1, <1>2, <2>3, <2>4, AdvanceFiles
  <2>6. TmpPickle \in DOMAIN file' /\ file'[TmpPickle] = Output(f, Cmd(f))
      BY <2>3, AdvanceFiles
  <2>7. CASE jobs[f] = 3
    <3>1. Output(f, Cmd(f)).script = script
        BY <2>3, <2>7 DEF Output
    <3> QED
        BY <1>3, <2>5, <2>6, <3>1 DEF Holds
  <2>8. CASE jobs[f] \in {4, 5}
    <3>1. Output(f, Cmd(f)).script = file[TmpPickle].script
        BY <2>3, <2>8 DEF Output
    <3>2. jobs[f] > 3 /\ jobs[f] # 3
        BY <2>8
    <3>3. edited \/ file[TmpPickle].script = script
        BY <1>2, <1>4, <3>2 DEF Holds
    <3>4. edited => edited'
        BY <3>2, AdvanceRest
    <3> QED
        BY <1>3, <2>5, <2>6, <3>1, <3>3, <3>4 DEF Holds
  <2>9. CASE jobs[f] \in {1, 2}
    <3>1. ~(jobs'[f] > 3)
        BY <2>1, <2>9
    <3> QED
        BY <1>4, <2>5, <3>1
  <2> QED
      BY <2>2, <2>7, <2>8, <2>9
<1>5. CASE f # Prepared
  <2>1. Prepared \notin Touched(Cmd(f)) /\ TmpPickle \notin Touched(Cmd(f))
    <3>1. ~OwnFile(f, Prepared)
        BY <1>5, Names DEF OwnFile
    <3>2. f # TmpPickle
        BY NeedsNoScratch DEF MakeTypes, TypeOK, Scratch
    <3>3. ~OwnFile(f, TmpPickle)
        BY <1>5, <3>2, Names DEF OwnFile
    <3> QED
        BY <3>1, <3>3, Touches
  <2>2. Prepared \notin DOMAIN file' \/ ~fresh'[Prepared]
    <3>1. Prepared # Cmd(f).to
        BY <2>1 DEF Touched
    <3> QED
        BY <1>1, <1>2, <2>1, <3>1, AdvanceFiles
  <2>3. Holds(TmpPickle, script) => Holds(TmpPickle, script)'
      BY <1>3, <2>1, AdvanceFiles DEF Holds
  <2>4. edited => edited'
      BY <1>5, AdvanceRest
  <2>5. jobs'[Prepared] = jobs[Prepared]
      BY <1>5, AdvanceJobs
  <2> QED
      BY <1>2, <2>2, <2>3, <2>4, <2>5
<1> QED
    BY <1>4, <1>5

\* The design with its blackboxes is made half-way.
LEMMA AdvanceSv2v ==
    ASSUME MakeTypes, Sequence, Sv2vHalfway, NEW f \in DOMAIN jobs, Advance(f), Current
    PROVE  Sv2vHalfway'
<1> SUFFICES ASSUME Sv2vOut \in DOMAIN jobs', jobs'[Sv2vOut] = 2
             PROVE  Sv2vOut \in DOMAIN file' /\ file'[Sv2vOut].script = file'[PreBlackbox].script
    BY DEF Sv2vHalfway, Holds
<1>1. Sv2vOut \in DOMAIN jobs
    BY AdvanceJobs
<1>2. file'[PreBlackbox] = file[PreBlackbox]
  <2>1. PreBlackbox \in make.done
      BY <1>1, Rules DEF Sequence
  <2>2. PreBlackbox \in DOMAIN file
      BY <2>1, AdvanceRest DEF Current
  <2> QED
      BY <2>1, <2>2, DoneIsUntouched, AdvanceFiles
<1>3. CASE f = Sv2vOut
  <2>1. jobs[f] = 1
    <3>1. jobs'[f] = jobs[f] + 1 /\ jobs[f] \in Nat
        BY <1>3, AdvanceJobs
    <3> QED
        BY <1>3, <3>1
  <2>2. Cmd(f).to = Sv2vOut /\ Cmd(f).from = PreBlackbox /\ Cmd(f).do = "cat_blackboxes"
      BY <1>3, <2>1, Sv2vSteps DEF Cmd, Command
  <2>3. Sv2vOut \in DOMAIN file' /\ file'[Sv2vOut] = Output(f, Cmd(f))
      BY <2>2, AdvanceFiles
  <2>4. Output(f, Cmd(f)).script = file[PreBlackbox].script
      BY <2>2 DEF Output
  <2> QED
      BY <1>2, <2>3, <2>4
<1>4. CASE f # Sv2vOut
  <2>1. ~OwnFile(f, Sv2vOut)
      BY <1>4, Names DEF OwnFile
  <2>2. Sv2vOut \notin Touched(Cmd(f))
      BY <2>1, Touches
  <2>3. Sv2vOut \in DOMAIN file /\ file[Sv2vOut].script = file[PreBlackbox].script
      BY <1>1, <1>4, AdvanceJobs DEF Sv2vHalfway, Holds
  <2> QED
      BY <1>2, <2>2, <2>3, AdvanceFiles
<1> QED
    BY <1>3, <1>4

\* The vanilla design is made half-way.
LEMMA AdvanceVanilla ==
    ASSUME MakeTypes, Sequence, VanillaHalfway, NEW f \in DOMAIN jobs, Advance(f), Current
    PROVE  VanillaHalfway'
<1> DEFINE d == Design("vanilla")
<1> SUFFICES ASSUME d \in DOMAIN jobs'
             PROVE  /\ jobs'[d] = 2 => Tmp \in DOMAIN file' /\ file'[Tmp].script = file'[Prepared].script
                    /\ jobs'[d] = 3 => d \in DOMAIN file' /\ file'[d].script = file'[Prepared].script
    BY DEF VanillaHalfway, Holds
<1> HIDE DEF d
<1>1. d \in DOMAIN jobs
    BY AdvanceJobs
<1>2. file'[Prepared] = file[Prepared]
  <2>1. Prepared \in make.done
      BY <1>1, Rules DEF Sequence, d
  <2>2. Prepared \in DOMAIN file
      BY <2>1, AdvanceRest DEF Current
  <2> QED
      BY <2>1, <2>2, DoneIsUntouched, AdvanceFiles
<1>3. /\ jobs[d] = 2 => Tmp \in DOMAIN file /\ file[Tmp].script = file[Prepared].script
      /\ jobs[d] = 3 => d \in DOMAIN file /\ file[d].script = file[Prepared].script
    BY <1>1 DEF VanillaHalfway, Holds, d
<1>4. CASE f = d
  <2>1. jobs'[f] = jobs[f] + 1 /\ jobs[f] \in Nat
      BY <1>4, AdvanceJobs
  <2>2. CASE jobs'[d] = 2
    <3>1. jobs[f] = 1
        BY <1>4, <2>1, <2>2
    <3>2. Cmd(f).to = Tmp /\ Cmd(f).from = Prepared /\ Cmd(f).do = "remove_memories"
        BY <1>4, <3>1, VanillaSteps DEF Cmd, Command, d
    <3>3. Tmp \in DOMAIN file' /\ file'[Tmp] = Output(f, Cmd(f))
        BY <3>2, AdvanceFiles
    <3>4. Output(f, Cmd(f)).script = file[Prepared].script
        BY <3>2 DEF Output
    <3> QED
        BY <1>2, <2>2, <3>3, <3>4
  <2>3. CASE jobs'[d] = 3
    <3>1. jobs[f] = 2
        BY <1>4, <2>1, <2>3
    <3>2. Cmd(f).to = d /\ Cmd(f).from = Tmp /\ Cmd(f).do = "sed_to"
        BY <1>4, <3>1, VanillaSteps DEF Cmd, Command, d
    <3>3. d \in DOMAIN file' /\ file'[d] = Output(f, Cmd(f))
        BY <3>2, AdvanceFiles
    <3>4. Output(f, Cmd(f)).script = file[Tmp].script
        BY <3>2 DEF Output
    <3> QED
        BY <1>2, <1>3, <1>4, <2>3, <3>1, <3>3, <3>4
  <2> QED
      BY <2>2, <2>3
<1>5. CASE f # d
  <2>1. f # Tmp
      BY NeedsNoScratch DEF MakeTypes, TypeOK, Scratch
  <2>2. ~OwnFile(f, d)
      BY <1>5, Names DEF OwnFile, d
  <2>3. ~OwnFile(f, Tmp)
      BY <1>5, <2>1, Names DEF OwnFile, d
  <2>4. d \notin Touched(Cmd(f)) /\ Tmp \notin Touched(Cmd(f))
      BY <2>2, <2>3, Touches
  <2>5. jobs'[d] = jobs[d]
      BY <1>5, AdvanceJobs
  <2> QED
      BY <1>2, <1>3, <2>4, <2>5, AdvanceFiles
<1> QED
    BY <1>4, <1>5

\* An instrumented design is made half-way.
LEMMA AdvanceCompact ==
    ASSUME MakeTypes, Sequence, OneCompacts, Instrumentation, NEW t \in Instrumented,
           CompactHalfway(t), NEW f \in DOMAIN jobs, Advance(f), Current
    PROVE  CompactHalfway(t)'
<1> DEFINE d == Design(t)
           p == Precompact(t)
<1> SUFFICES ASSUME d \in DOMAIN jobs'
             PROVE  /\ jobs'[d] \in {2, 3} =>
                          /\ Interm \in DOMAIN file' /\ file'[Interm].script = file'[p].script
                          /\ file'[Interm].by = t
                    /\ jobs'[d] \in {4, 5} => d \in DOMAIN file' /\ file'[d].script = file'[p].script
    BY DEF CompactHalfway, Holds
<1>1. d \in DOMAIN jobs /\ t # "vanilla" /\ t \in Targets
    BY AdvanceJobs DEF Instrumented
<1>2. file'[p] = file[p] /\ file[p].by = t
  <2>1. p \in make.done
      BY <1>1, Rules DEF Sequence
  <2>2. p \in DOMAIN file
      BY <2>1, AdvanceRest DEF Current
  <2>3. file[p].by = t
      BY <1>1, <2>2 DEF Instrumentation, IsBy
  <2> QED
      BY <2>1, <2>2, <2>3, DoneIsUntouched, AdvanceFiles
<1>3. /\ jobs[d] \in {2, 3} => /\ Interm \in DOMAIN file /\ file[Interm].script = file[p].script
                               /\ file[Interm].by = t
      /\ jobs[d] \in {4, 5} => d \in DOMAIN file /\ file[d].script = file[p].script
    BY <1>1 DEF CompactHalfway, Holds
<1>goal. t \in make.goals
  <2>1. d \in Needed /\ MakeShape
      BY <1>1 DEF MakeTypes, TypeOK
  <2> QED
      BY <2>1, NeededKinds, Names, <1>1
<1>steps. /\ Recipe(d)[1] = Command(p, Interm, "compact")
          /\ Recipe(d)[2] = Command(Interm, Interm, "deparam")
          /\ Recipe(d)[3] = Command(Interm, d, "cat")
          /\ Recipe(d)[4] = Command(Interm, Interm, "rm")
    BY <1>1, CompactSteps
<1>4. CASE f = d
  <2>1. jobs'[f] = jobs[f] + 1 /\ jobs[f] \in Nat
      BY <1>4, AdvanceJobs
  <2>2. CASE jobs'[d] = 2
    <3>1. jobs[f] = 1
        BY <1>4, <2>1, <2>2
    <3>2. Cmd(f).to = Interm /\ Cmd(f).from = p /\ Cmd(f).do = "compact"
        BY <1>4, <1>steps, <3>1 DEF Cmd, Command
    <3>3. Interm \in DOMAIN file' /\ file'[Interm] = Output(f, Cmd(f))
        BY <3>2, AdvanceFiles
    <3>4. Output(f, Cmd(f)).script = file[p].script /\ Output(f, Cmd(f)).by = file[p].by
        BY <3>2 DEF Output
    <3> QED
        BY <1>2, <2>2, <3>3, <3>4
  <2>3. CASE jobs'[d] = 3
    <3>1. jobs[f] = 2
        BY <1>4, <2>1, <2>3
    <3>2. Cmd(f).to = Interm /\ Cmd(f).from = Interm /\ Cmd(f).do = "deparam"
        BY <1>4, <1>steps, <3>1 DEF Cmd, Command
    <3>3. Interm \in DOMAIN file' /\ file'[Interm] = Output(f, Cmd(f))
        BY <3>2, AdvanceFiles
    <3>4. Output(f, Cmd(f)).script = file[Interm].script /\ Output(f, Cmd(f)).by = file[Interm].by
        BY <3>2 DEF Output
    <3> QED
        BY <1>2, <1>3, <1>4, <2>3, <3>1, <3>3, <3>4
  <2>4. CASE jobs'[d] = 4
    <3>1. jobs[f] = 3
        BY <1>4, <2>1, <2>4
    <3>2. Cmd(f).to = d /\ Cmd(f).from = Interm /\ Cmd(f).do = "cat"
        BY <1>4, <1>steps, <3>1 DEF Cmd, Command
    <3>3. d \in DOMAIN file' /\ file'[d] = Output(f, Cmd(f))
        BY <3>2, AdvanceFiles
    <3>4. Output(f, Cmd(f)).script = file[Interm].script
        BY <3>2 DEF Output
    <3> QED
        BY <1>2, <1>3, <1>4, <2>4, <3>1, <3>3, <3>4
  <2>5. CASE jobs'[d] = 5
    <3>1. jobs[f] = 4
        BY <1>4, <2>1, <2>5
    <3>2. Cmd(f).to = Interm /\ Cmd(f).do = "rm"
        BY <1>4, <1>steps, <3>1 DEF Cmd, Command
    <3>3. d \notin Touched(Cmd(f))
        BY <3>2, Names DEF Touched, Removed
    <3> QED
        BY <1>2, <1>3, <1>4, <2>5, <3>1, <3>3, AdvanceFiles
  <2> QED
      BY <2>2, <2>3, <2>4, <2>5
<1>5. CASE f # d
  <2>1. f # Interm
      BY NeedsNoScratch DEF MakeTypes, TypeOK, Scratch
  <2>2. ~OwnFile(f, d)
      BY <1>5, Names DEF OwnFile
  <2>3. ASSUME NEW u \in make.goals \cap Instrumented, f = Design(u) PROVE FALSE
      BY <1>1, <1>5, <1>goal, <2>3, OneIsCompacted
  <2>4. ~OwnFile(f, Interm)
      BY <2>1, <2>3, Names DEF OwnFile
  <2>5. d \notin Touched(Cmd(f)) /\ Interm \notin Touched(Cmd(f))
      BY <2>2, <2>4, Touches
  <2>6. jobs'[d] = jobs[d]
      BY <1>5, AdvanceJobs
  <2> HIDE DEF d, p
  <2>7. (Interm \in DOMAIN file => Interm \in DOMAIN file' /\ file'[Interm] = file[Interm])
        /\ (d \in DOMAIN file => d \in DOMAIN file' /\ file'[d] = file[d])
      BY <2>5, AdvanceFiles
  <2> QED
      BY <1>2, <1>3, <2>6, <2>7
<1> QED
    BY <1>4, <1>5

\* A target is written with the version of its prerequisite; the prepared
\* design has that of the script, unless it was edited meanwhile.
LEMMA WrittenVersion ==
    ASSUME MakeTypes, Halfway, NEW f \in DOMAIN jobs, Cmd(f).to = f
    PROVE  /\ Cmd(f).do # "rm"
           /\ f = Prepared => jobs[f] = 6 /\ (edited \/ Output(f, Cmd(f)).script = script)
           /\ \A g \in Prerequisites(f) \ {PickledSv} : Output(f, Cmd(f)).script = file[g].script
<1> DEFINE out == Output(f, Cmd(f))
<1>1. Cmd(f).do # "rm"
  <2>1. f \notin Scratch
      BY NeedsNoScratch DEF MakeTypes, TypeOK
  <2> QED
      BY <2>1, Targeted
<1>2. Cmd(f).do # "replace_instances" => out.script = file[Cmd(f).from].script
    BY DEF Output
<1> HIDE DEF out
<1>3. CASE f = Prepared /\ jobs[f] \in 1..6
  <2>1. jobs[f] \in {1, 2, 3, 4, 5, 6} /\ TmpPickle # Prepared
      BY <1>3, Names
  <2>2. jobs[f] = 6 /\ Cmd(f).from = TmpPickle /\ Cmd(f).do = "mv"
      BY <1>3, <2>1, PreparedSteps DEF Cmd, Command
  <2>3. edited \/ file[TmpPickle].script = script
      BY <1>3, <2>2 DEF Halfway, PreparedHalfway, Holds
  <2>4. Prerequisites(f) \ {PickledSv} = {}
      BY <1>3, Rules
  <2> QED
      BY <1>1, <1>2, <2>2, <2>3, <2>4 DEF out
<1>other. ASSUME f # Prepared, NEW g, Prerequisites(f) = {g}, out.script = file[g].script
          PROVE  /\ f = Prepared => jobs[f] = 6 /\ (edited \/ out.script = script)
                 /\ \A h \in Prerequisites(f) \ {PickledSv} : out.script = file[h].script
    BY <1>other
<1>4. CASE f = PreBlackbox /\ jobs[f] = 1
  <2>1. Cmd(f).from = Prepared /\ Cmd(f).do = "sv2v"
      BY <1>4, BlackboxSteps DEF Cmd, Command
  <2>2. f # Prepared /\ Prerequisites(f) = {Prepared}
      BY <1>4, Names, Rules
  <2> QED
      BY <1>1, <1>2, <1>other, <2>1, <2>2 DEF out
<1>5. CASE f = Sv2vOut /\ jobs[f] \in 1..2
  <2>1. jobs[f] \in {1, 2}
      BY <1>5
  <2>2. /\ jobs[f] = 1 => Cmd(f).from = PreBlackbox
        /\ jobs[f] = 2 => Cmd(f).from = Sv2vOut
        /\ Cmd(f).do # "replace_instances"
      BY <1>5, <2>1, Sv2vSteps DEF Cmd, Command
  <2>3. jobs[f] = 2 => file[Sv2vOut].script = file[PreBlackbox].script
      BY <1>5 DEF Halfway, Sv2vHalfway, Holds
  <2>4. f # Prepared /\ Prerequisites(f) = {PreBlackbox}
      BY <1>5, Names, Rules
  <2> QED
      BY <1>1, <1>2, <1>other, <2>1, <2>2, <2>3, <2>4 DEF out
<1>6. ASSUME NEW t \in make.goals \cap Instrumented, f = Precompact(t), jobs[f] = 1
      PROVE  f # Prepared /\ Prerequisites(f) = {Sv2vOut} /\ out.script = file[Sv2vOut].script
  <2>1. Cmd(f).from = Sv2vOut /\ Cmd(f).do = "yosys"
    <3>1. Cmd(f) = Command(Sv2vOut, Precompact(t), "yosys")
        BY <1>6, PrecompactSteps DEF Cmd
    <3> QED
        BY <3>1 DEF Command
  <2>2. Prerequisites(Precompact(t)) = {Sv2vOut} /\ Precompact(t) # Prepared
      BY Names, Rules
  <2> QED
      BY <1>2, <1>6, <2>1, <2>2
<1>7. CASE f = Design("vanilla") /\ jobs[f] \in 1..3
  <2>1. jobs[f] \in {1, 2, 3} /\ Tmp # Design("vanilla")
      BY <1>7, Names
  <2>2. jobs[f] = 2 /\ Cmd(f).from = Tmp /\ Cmd(f).do = "sed_to"
      BY <1>7, <2>1, VanillaSteps DEF Cmd, Command
  <2>3. file[Tmp].script = file[Prepared].script
      BY <1>7, <2>2 DEF Halfway, VanillaHalfway, Holds
  <2>4. f # Prepared /\ Prerequisites(f) = {Prepared}
      BY <1>7, Names, Rules
  <2> QED
      BY <1>1, <1>2, <1>other, <2>2, <2>3, <2>4 DEF out
<1>8. ASSUME NEW t \in make.goals \cap Instrumented, f = Design(t), jobs[f] \in 1..5
      PROVE  f # Prepared /\ Prerequisites(f) = {Precompact(t)} /\ out.script = file[Precompact(t)].script
  <2>1. jobs[f] \in {1, 2, 3, 4, 5} /\ Interm # Design(t) /\ t # "vanilla" /\ Design(t) # Prepared
      BY <1>8, Names DEF Instrumented
  <2>2. jobs[f] = 3 /\ Cmd(f).from = Interm /\ Cmd(f).do = "cat"
    <3>1. /\ jobs[f] = 1 => Cmd(f) = Command(Precompact(t), Interm, "compact")
          /\ jobs[f] = 2 => Cmd(f) = Command(Interm, Interm, "deparam")
          /\ jobs[f] = 3 => Cmd(f) = Command(Interm, Design(t), "cat")
          /\ jobs[f] = 4 => Cmd(f) = Command(Interm, Interm, "rm")
          /\ jobs[f] = 5 => Cmd(f) = Command(Precompact(t), Log(t), "cp")
        BY <1>8, <2>1, CompactSteps DEF Cmd
    <3>2. Log(t) # Design(t)
        BY Names
    <3> QED
        BY <1>8, <2>1, <3>1, <3>2 DEF Command
  <2>3. file[Interm].script = file[Precompact(t)].script
    <3>1. CompactHalfway(t)
        BY DEF Halfway
    <3> QED
        BY <1>8, <2>2, <3>1 DEF CompactHalfway, Holds
  <2>4. Prerequisites(Design(t)) = {Precompact(t)}
      BY <2>1, Rules
  <2> QED
      BY <1>2, <1>8, <2>1, <2>2, <2>3, <2>4
<1>9. ASSUME NEW t \in make.goals, f = Exe(t), jobs[f] \in 1..3
      PROVE  f # Prepared /\ Prerequisites(f) = {Design(t)} /\ out.script = file[Design(t)].script
  <2>1. jobs[f] \in {1, 2, 3} /\ Conf # Exe(t) /\ Exe(t) # Prepared
      BY <1>9, Names
  <2>2. Cmd(f).from = Design(t) /\ Cmd(f).do = "fusesoc"
    <3>1. /\ jobs[f] = 1 => Cmd(f) = Command(Conf, Conf, "rm")
          /\ jobs[f] = 2 => Cmd(f) = Command(Design(t), Conf, "library_add")
          /\ jobs[f] = 3 => Cmd(f) = Command(Design(t), Exe(t), "fusesoc")
        BY <1>9, <2>1, ExeSteps DEF Cmd
    <3> QED
        BY <1>9, <2>1, <3>1 DEF Command
  <2>3. Prerequisites(Exe(t)) = {Design(t)}
      BY Rules
  <2> QED
      BY <1>2, <1>9, <2>1, <2>2, <2>3
<1>10. CASE \E g : f # Prepared /\ Prerequisites(f) = {g} /\ out.script = file[g].script
    BY <1>1, <1>10, <1>other DEF out
<1> QED
    BY <1>3, <1>4, <1>5, <1>6, <1>7, <1>8, <1>9, <1>10, JobKinds

\* A recipe ends with its target made so.
LEMMA EndVersion ==
    ASSUME MakeTypes, Sequence, Halfway, Current, NEW f \in DOMAIN jobs, Advance(f), f \notin DOMAIN jobs'
    PROVE  /\ f \in DOMAIN file'
           /\ f = Prepared => edited' \/ file'[f].script = script
           /\ \A g \in Prerequisites(f) \ {PickledSv} : file'[f].script = file[g].script
<1>1. jobs[f] = Len(Recipe(f))
    BY AdvanceJobs
<1>2. CASE Cmd(f).to = f
  <2>1. f \in DOMAIN file' /\ file'[f] = Output(f, Cmd(f))
      BY <1>2, WrittenVersion, AdvanceFiles
  <2>2. f = Prepared => (edited => edited')
      BY <1>2, WrittenVersion, AdvanceRest
  <2> QED
      BY <1>2, <2>1, <2>2, WrittenVersion
<1>3. CASE Cmd(f).to # f
  <2>1. f \notin Touched(Cmd(f))
    <3>1. f \notin Scratch
        BY NeedsNoScratch DEF MakeTypes, TypeOK
    <3> QED
        BY <1>3, <3>1, Targeted DEF Touched
  <2>2. SUFFICES /\ f # Prepared /\ f \in DOMAIN file
                 /\ \A g \in Prerequisites(f) : file[f].script = file[g].script
      BY <2>1, AdvanceFiles
  <2>3. ASSUME f = Prepared PROVE FALSE
    <3>1. Cmd(f) = Command(TmpPickle, Prepared, "mv")
        BY <1>1, <2>3, PreparedSteps DEF Cmd
    <3>2. Cmd(f).to = f
        BY <2>3, <3>1 DEF Command
    <3> QED
        BY <1>3, <3>2
  <2>4. ASSUME f = PreBlackbox PROVE FALSE
    <3>1. Cmd(f) = Command(Prepared, PreBlackbox, "sv2v")
        BY <1>1, <2>4, BlackboxSteps DEF Cmd
    <3>2. Cmd(f).to = f
        BY <2>4, <3>1 DEF Command
    <3> QED
        BY <1>3, <3>2
  <2>5. ASSUME f = Sv2vOut PROVE FALSE
    <3>1. Cmd(f) = Command(Sv2vOut, Sv2vOut, "insert_blackbox")
        BY <1>1, <2>5, Sv2vSteps DEF Cmd
    <3>2. Cmd(f).to = f
        BY <2>5, <3>1 DEF Command
    <3> QED
        BY <1>3, <3>2
  <2>6. ASSUME NEW t, f = Precompact(t) PROVE FALSE
    <3>1. Cmd(f) = Command(Sv2vOut, Precompact(t), "yosys")
        BY <1>1, <2>6, PrecompactSteps DEF Cmd
    <3>2. Cmd(f).to = f
        BY <2>6, <3>1 DEF Command
    <3> QED
        BY <1>3, <3>2
  <2>7. ASSUME NEW t, f = Exe(t) PROVE FALSE
    <3>1. Cmd(f) = Command(Design(t), Exe(t), "fusesoc")
        BY <1>1, <2>7, ExeSteps DEF Cmd
    <3>2. Cmd(f).to = f
        BY <2>7, <3>1 DEF Command
    <3> QED
        BY <1>3, <3>2
  <2>8. CASE f = Design("vanilla")
    <3>1. jobs[f] = 3 /\ Prerequisites(f) = {Prepared}
        BY <1>1, <2>8, VanillaSteps, Rules
    <3>2. f \in DOMAIN file /\ file[f].script = file[Prepared].script
        BY <2>8, <3>1 DEF Halfway, VanillaHalfway, Holds
    <3> QED
        BY <2>3, <3>1, <3>2
  <2>9. CASE \E t \in make.goals \cap Instrumented : f = Design(t)
    <3>1. PICK t \in make.goals \cap Instrumented : f = Design(t)
        BY <2>9
    <3>2. t # "vanilla"
        BY DEF Instrumented
    <3>3. jobs[f] = 5 /\ Prerequisites(f) = {Precompact(t)}
        BY <1>1, <3>1, <3>2, CompactSteps, Rules
    <3>4. CompactHalfway(t)
        BY DEF Halfway
    <3>5. f \in DOMAIN file /\ file[f].script = file[Precompact(t)].script
        BY <3>1, <3>3, <3>4 DEF CompactHalfway, Holds
    <3> QED
        BY <2>3, <3>3, <3>5
  <2> QED
      BY <2>3, <2>4, <2>5, <2>6, <2>7, <2>8, <2>9, JobKinds
<1> QED
    BY <1>2, <1>3

\* A file is written with the instrumentation that its name says.
LEMMA WrittenBy ==
    ASSUME MakeTypes, Instrumentation, Halfway, NEW f \in DOMAIN jobs,
           Cmd(f).do # "rm", Cmd(f).from \in DOMAIN file
    PROVE  IsBy(Cmd(f).to, Output(f, Cmd(f)).by)
<1> DEFINE c == Cmd(f)
           by == Output(f, Cmd(f)).by
<1>1. /\ c.do # "yosys" => by = file[c.from].by
      /\ c.do = "yosys" => by = f[2]
    BY DEF Output
<1>2. IsBy(c.from, file[c.from].by)
    BY DEF Instrumentation
<1> HIDE DEF by
<1>3. CASE f = Prepared /\ jobs[f] \in 1..6
  <2>1. jobs[f] \in {1, 2, 3, 4, 5, 6}
      BY <1>3
  <2>2. c.from \in {PickledSv, TmpPickle} /\ c.to \in {TmpPickle, Prepared} /\ c.do # "yosys"
      BY <1>3, <2>1, PreparedSteps DEF Cmd, Command
  <2>3. by = "vanilla"
      BY <1>1, <1>2, <2>2 DEF IsBy
  <2>4. \A t : c.to \notin {Precompact(t), Design(t), Exe(t)}
      BY <2>2, Names
  <2> QED
      BY <2>3, <2>4 DEF IsBy, by
<1>4. CASE f = PreBlackbox /\ jobs[f] = 1
  <2>1. c.to = PreBlackbox
      BY <1>4, BlackboxSteps DEF Cmd, Command
  <2> QED
      BY <2>1, Names DEF IsBy
<1>5. CASE f = Sv2vOut /\ jobs[f] \in 1..2
  <2>1. jobs[f] \in {1, 2}
      BY <1>5
  <2>2. c.to = Sv2vOut
      BY <1>5, <2>1, Sv2vSteps DEF Cmd, Command
  <2> QED
      BY <2>2, Names DEF IsBy
<1>6. ASSUME NEW t \in make.goals \cap Instrumented, f = Precompact(t), jobs[f] = 1
      PROVE  IsBy(c.to, by)
  <2>1. c = Command(Sv2vOut, Precompact(t), "yosys")
      BY <1>6, PrecompactSteps DEF Cmd
  <2>2. c.to = Precompact(t) /\ c.do = "yosys"
      BY <2>1 DEF Command
  <2>3. by = t
      BY <1>1, <1>6, <2>2, Names
  <2> QED
      BY <2>2, <2>3, Names DEF IsBy
<1>7. CASE f = Design("vanilla") /\ jobs[f] \in 1..3
  <2>1. jobs[f] \in {1, 2, 3}
      BY <1>7
  <2>2. c.from \in {Prepared, Tmp} /\ c.to \in {Tmp, Design("vanilla")} /\ c.do # "yosys"
      BY <1>7, <2>1, VanillaSteps DEF Cmd, Command
  <2>3. by = "vanilla"
      BY <1>1, <1>2, <2>2 DEF IsBy
  <2>4. \A t : c.to \in {Precompact(t), Design(t), Exe(t)} => t = "vanilla"
      BY <2>2, Names
  <2> QED
      BY <2>3, <2>4 DEF IsBy, by
<1>8. ASSUME NEW t \in make.goals \cap Instrumented, f = Design(t), jobs[f] \in 1..5
      PROVE  IsBy(c.to, by)
  <2>1. jobs[f] \in {1, 2, 3, 4, 5} /\ t # "vanilla"
      BY <1>8 DEF Instrumented
  <2>2. /\ jobs[f] = 1 => c = Command(Precompact(t), Interm, "compact")
        /\ jobs[f] = 2 => c = Command(Interm, Interm, "deparam")
        /\ jobs[f] = 3 => c = Command(Interm, Design(t), "cat")
        /\ jobs[f] = 4 => c = Command(Interm, Interm, "rm")
        /\ jobs[f] = 5 => c = Command(Precompact(t), Log(t), "cp")
      BY <1>8, <2>1, CompactSteps DEF Cmd
  <2>3. CASE jobs[f] = 3
    <3>1. c.from = Interm /\ c.to = Design(t) /\ c.do = "cat"
        BY <2>2, <2>3 DEF Command
    <3>2. CompactHalfway(t)
        BY DEF Halfway
    <3>3. file[Interm].by = t
        BY <1>8, <2>3, <3>2 DEF CompactHalfway
    <3>4. by = t
        BY <1>1, <3>1, <3>3
    <3> QED
        BY <3>1, <3>4, Names DEF IsBy
  <2>4. CASE jobs[f] # 3
    <3>1. c.to \in {Interm, Log(t)}
        BY <2>1, <2>2, <2>4 DEF Command
    <3> QED
        BY <3>1, Names DEF IsBy
  <2> QED
      BY <2>3, <2>4
<1>9. ASSUME NEW t \in make.goals, f = Exe(t), jobs[f] \in 1..3
      PROVE  IsBy(c.to, by)
  <2>1. jobs[f] \in {1, 2, 3} /\ t \in Targets
      BY <1>9 DEF MakeTypes, MakeShape
  <2>2. /\ jobs[f] = 1 => c = Command(Conf, Conf, "rm")
        /\ jobs[f] = 2 => c = Command(Design(t), Conf, "library_add")
        /\ jobs[f] = 3 => c = Command(Design(t), Exe(t), "fusesoc")
      BY <1>9, <2>1, ExeSteps DEF Cmd
  <2>3. CASE jobs[f] = 3
    <3>1. c.from = Design(t) /\ c.to = Exe(t) /\ c.do = "fusesoc"
        BY <2>2, <2>3 DEF Command
    <3>2. by = t
        BY <1>1, <1>2, <2>1, <3>1 DEF IsBy
    <3> QED
        BY <3>1, <3>2, Names DEF IsBy
  <2>4. CASE jobs[f] # 3
    <3>1. c.to = Conf
        BY <2>1, <2>2, <2>4 DEF Command
    <3> QED
        BY <3>1, Names DEF IsBy
  <2> QED
      BY <2>3, <2>4
<1>10. CASE IsBy(c.to, by)
    BY <1>10 DEF by
<1> QED
    BY <1>3, <1>4, <1>5, <1>6, <1>7, <1>8, <1>9, <1>10, JobKinds

\* A command keeps the instrumentation.
LEMMA AdvanceInstrumentation ==
    ASSUME MakeTypes, Instrumentation, Halfway, NEW f \in DOMAIN jobs, Advance(f)
    PROVE  Instrumentation'
<1> SUFFICES ASSUME NEW g \in DOMAIN file' PROVE IsBy(g, file'[g].by)
    BY AdvanceCopies, CopyBy DEF Instrumentation, IsBy
<1>1. CASE g = Cmd(f).to
    BY <1>1, WrittenBy, AdvanceFiles
<1>2. CASE g # Cmd(f).to
  <2>1. g \in DOMAIN file /\ file'[g] = file[g]
      BY <1>2, AdvanceFiles
  <2> QED
      BY <2>1 DEF Instrumentation
<1> QED
    BY <1>1, <1>2

\* A command keeps the sequence.
LEMMA AdvanceSequence ==
    ASSUME MakeTypes, Sequence, NEW f \in DOMAIN jobs, Advance(f)
    PROVE  Sequence'
<1>1. f \in Needed /\ Prerequisites(f) \subseteq make.done
    BY DEF Sequence, MakeTypes, TypeOK
<1>2. Needed' = Needed /\ make'.done = IF f \in DOMAIN jobs' THEN make.done ELSE make.done \cup {f}
    BY AdvanceCall
<1>3. make'.done \subseteq Needed' \cup {PickledSv}
    BY <1>1, <1>2 DEF Sequence
<1>4. \A g \in make'.done : Prerequisites(g) \subseteq make'.done
    BY <1>1, <1>2 DEF Sequence
<1>5. \A g \in DOMAIN jobs' : g \notin make'.done /\ Prerequisites(g) \subseteq make'.done
    BY <1>2, AdvanceJobs DEF Sequence
<1> QED
    BY <1>3, <1>4, <1>5 DEF Sequence

\* A command keeps the dates.
LEMMA AdvanceDates ==
    ASSUME MakeTypes, Halfway, Dates, NEW f \in DOMAIN jobs, Advance(f)
    PROVE  Dates'
<1> DEFINE c == Cmd(f)
<1>types. DOMAIN file' \subseteq Files /\ Prepared \in Files
    BY AdvanceTypes DEF MakeTypes, TypeOK, Files, Shared, Prepared
<1>1. ASSUME Prepared \in DOMAIN file', fresh'[Prepared]
      PROVE  edited' \/ file'[Prepared].script = script'
  <2>1. script' = script
      BY AdvanceRest
  <2>2. CASE c.to = Prepared
    <3>1. f = Prepared
      <4>1. OwnFile(f, Prepared)
          BY <2>2, Touches DEF Touched
      <4> QED
          BY <4>1, Names DEF OwnFile
    <3>2. jobs[f] = 6 /\ (edited \/ Output(f, c).script = script) /\ c.do # "rm"
        BY <2>2, <3>1, WrittenVersion
    <3>3. file'[Prepared] = Output(f, c)
        BY <2>2, <3>2, AdvanceFiles
    <3>4. edited => edited'
        BY <3>2, AdvanceRest
    <3> QED
        BY <2>1, <3>2, <3>3, <3>4
  <2>3. CASE c.to # Prepared
    <3>1. Prepared \in DOMAIN file /\ fresh[Prepared] /\ file'[Prepared] = file[Prepared]
        BY <1>1, <1>types, <2>3, AdvanceFiles
    <3>2. edited \/ file[Prepared].script = script
        BY <3>1 DEF Dates
    <3>3. f # Prepared
        BY <3>1 DEF Halfway, PreparedHalfway
    <3>4. edited => edited'
        BY <3>3, AdvanceRest
    <3> QED
        BY <2>1, <3>1, <3>2, <3>4
  <2> QED
      BY <2>2, <2>3
<1>2. ASSUME NEW h \in DOMAIN file', NEW g \in Prerequisites(h),
             fresh'[h], g \in DOMAIN file', g # PickledSv, \A t \in recompiled' : h # Exe(t)
      PROVE  file'[h].script = file'[g].script
  <2>1. h \in Files
      BY <1>types
  <2>2. g # c.to /\ (h = c.to \/ fresh[h])
      BY <1>2, <2>1, AdvanceFiles
  <2>3. g \in DOMAIN file /\ file'[g] = file[g]
      BY <1>2, <2>2, AdvanceFiles
  <2>4. CASE h = c.to
    <3>1. h = f
      <4>1. h \in {f} \cup Scratch
          BY <2>4, Targeted
      <4>2. h \notin Scratch
          BY Rules
      <4> QED
          BY <4>1, <4>2
    <3>2. c.do # "rm" /\ Output(f, c).script = file[g].script
        BY <1>2, <2>4, <3>1, WrittenVersion
    <3>3. file'[h] = Output(f, c)
        BY <2>4, <3>2, AdvanceFiles
    <3> QED
        BY <2>3, <3>2, <3>3
  <2>5. CASE h # c.to
    <3>1. h \in DOMAIN file /\ file'[h] = file[h] /\ fresh[h]
        BY <2>2, <2>5, AdvanceFiles
    <3>2. \A t \in recompiled : h # Exe(t)
      <4>1. \A t \in recompiled \ recompiled' : Exe(t) = c.to
          BY AdvanceRest
      <4> QED
          BY <1>2, <2>5, <4>1
    <3>3. file[h].script = file[g].script
        BY <1>2, <2>3, <3>1, <3>2 DEF Dates
    <3> QED
        BY <2>3, <3>1, <3>3
  <2> QED
      BY <2>4, <2>5
<1> QED
    BY <1>1, <1>2 DEF Dates

\* What is dealt with is kept.
LEMMA AdvanceDone ==
    ASSUME MakeTypes, Sequence, Current, NEW f \in DOMAIN jobs, Advance(f), NEW g \in make.done
    PROVE  g \in DOMAIN file /\ g \in DOMAIN file' /\ file'[g] = file[g]
<1>1. g \in DOMAIN file
    BY AdvanceRest DEF Current
<1> QED
    BY <1>1, DoneIsUntouched, AdvanceFiles

\* A command keeps what is dealt with current.
LEMMA AdvanceCurrent ==
    ASSUME MakeTypes, Sequence, Halfway, Current, NEW f \in DOMAIN jobs, Advance(f)
    PROVE  Current'
<1>types. make.script \in Nat /\ script \in Nat /\ make.script <= script /\ MakeShape
    BY MakeAssumption DEF MakeTypes, TypeOK, MakeShape
<1>call. /\ make'.done = IF f \in DOMAIN jobs' THEN make.done ELSE make.done \cup {f}
         /\ make'.script = make.script /\ script' = script /\ Running /\ Running'
    BY AdvanceCall, AdvanceRest
<1>ended. ASSUME NEW g \in make'.done, g \notin make.done
          PROVE  g = f /\ f \notin DOMAIN jobs'
    BY <1>call, <1>ended
<1>1. PickledSv \in DOMAIN file'
    BY PickledIsUntouched, AdvanceFiles DEF Current
<1>2. make'.done \subseteq DOMAIN file'
    BY <1>ended, AdvanceDone, EndVersion
<1>3. ASSUME NEW g \in make'.done \ {PickledSv}
      PROVE  edited' \/ file'[g].script >= make.script \/ \E t \in Targets : g = Exe(t)
  <2>1. CASE g \in make.done
    <3>1. edited \/ file[g].script >= make.script \/ \E t \in Targets : g = Exe(t)
        BY <1>call, <1>3, <2>1 DEF Current
    <3>2. file'[g] = file[g]
        BY <2>1, AdvanceDone
    <3>3. edited => edited'
      <4>1. f # Prepared
        <5>1. CASE f = Prepared
          <6>1. Prepared \notin make.done
              BY <5>1 DEF Sequence
          <6> QED
              BY <1>3, <2>1, <6>1, PreparedIsFirst
        <5> QED
            BY <5>1
      <4> QED
          BY <4>1, AdvanceRest
    <3> QED
        BY <3>1, <3>2, <3>3
  <2>2. CASE g \notin make.done
    <3>1. g = f /\ f \notin DOMAIN jobs'
        BY <1>3, <1>ended, <2>2
    <3>2. CASE f = Prepared
      <4>1. edited' \/ file'[f].script = script
          BY <3>1, <3>2, EndVersion
      <4>2. script >= make.script
          BY <1>types
      <4> QED
          BY <3>1, <4>1, <4>2
    <3>3. CASE f # Prepared
      <4>1. \A h \in Prerequisites(f) \ {PickledSv} : file'[f].script = file[h].script
          BY <3>1, EndVersion
      <4>2. edited => edited'
          BY <3>3, AdvanceRest
      <4>3. Prerequisites(f) \subseteq make.done
          BY DEF Sequence
      <4>4. \/ \E h \in Prerequisites(f) \ {PickledSv} : \A t : h # Exe(t)
            \/ \E t \in Targets : f = Exe(t)
        <5>1. \A t : Prepared # Exe(t) /\ PreBlackbox # Exe(t) /\ Sv2vOut # Exe(t)
            BY Names
        <5>2. \A t, u : Precompact(u) # Exe(t) /\ Precompact(u) # PickledSv
            BY Names
        <5>3. Prepared # PickledSv /\ PreBlackbox # PickledSv /\ Sv2vOut # PickledSv
            BY Names
        <5>4. ASSUME NEW u \in make.goals \cap Instrumented, f = Design(u)
              PROVE  Prerequisites(f) = {Precompact(u)}
            BY <5>4, Rules DEF Instrumented
        <5>5. make.goals \subseteq Targets
            BY <1>types DEF MakeShape
        <5> QED
            BY <3>3, <5>1, <5>2, <5>3, <5>4, <5>5, JobKinds, Rules
      <4>5. CASE \E h \in Prerequisites(f) \ {PickledSv} : \A t : h # Exe(t)
        <5>1. PICK h \in Prerequisites(f) \ {PickledSv} : \A t : h # Exe(t)
            BY <4>5
        <5>2. edited \/ file[h].script >= make.script
            BY <1>call, <4>3, <5>1 DEF Current
        <5>3. file'[f].script = file[h].script
            BY <4>1
        <5> QED
            BY <3>1, <4>2, <5>2, <5>3
      <4> QED
          BY <3>1, <4>4, <4>5
    <3> QED
        BY <3>2, <3>3
  <2> QED
      BY <2>1, <2>2
<1>4. ASSUME NEW t \in Targets \ recompiled', Exe(t) \in make'.done
      PROVE  file'[Exe(t)].script = file'[Design(t)].script
  <2>1. Prerequisites(Exe(t)) = {Design(t)} /\ Design(t) # PickledSv
      BY Rules, Names
  <2>2. CASE Exe(t) \in make.done
    <3>1. Design(t) \in make.done
        BY <2>1, <2>2 DEF Sequence
    <3>2. file'[Exe(t)] = file[Exe(t)] /\ file'[Design(t)] = file[Design(t)]
        BY <2>2, <3>1, AdvanceDone
    <3>3. t \notin recompiled
      <4>1. Exe(t) # f
          BY <2>2 DEF Sequence
      <4> QED
          BY <1>4, <4>1, AdvanceRest
    <3> QED
        BY <1>call, <2>2, <3>2, <3>3 DEF Current
  <2>3. CASE Exe(t) \notin make.done
    <3>1. Exe(t) = f /\ f \notin DOMAIN jobs'
        BY <1>4, <1>ended, <2>3
    <3>2. Design(t) \in make.done
        BY <2>1, <3>1 DEF Sequence
    <3>3. file'[Design(t)] = file[Design(t)]
        BY <3>2, AdvanceDone
    <3>4. file'[f].script = file[Design(t)].script
        BY <2>1, <3>1, EndVersion
    <3> QED
        BY <3>1, <3>3, <3>4
  <2> QED
      BY <2>2, <2>3
<1> QED
    BY <1>1, <1>2, <1>3, <1>4, <1>call DEF Current

\* A command keeps the invariant.
LEMMA AdvanceInv ==
    ASSUME MakeInv, NEW f \in DOMAIN jobs, Advance(f)
    PROVE  MakeInv'
<1> USE DEF MakeInv
<1>1. Halfway'
  <2>1. PreparedHalfway' /\ Sv2vHalfway' /\ VanillaHalfway'
      BY AdvancePrepared, AdvanceSv2v, AdvanceVanilla DEF Halfway
  <2>2. \A t \in Instrumented : CompactHalfway(t)'
      BY AdvanceCompact DEF Halfway
  <2> QED
      BY <2>1, <2>2 DEF Halfway, Instrumented
<1>2. OneCompacts'
    BY AdvanceCall DEF OneCompacts, Instrumented
<1>3. DesignsExist' /\ MadeIsCurrent'
  <2>1. make'.status # "made"
      BY AdvanceRest DEF Running
  <2> QED
      BY <2>1 DEF DesignsExist, MadeIsCurrent
<1>4. MakeTypes' /\ Sequence' /\ Instrumentation'
    BY AdvanceTypes, AdvanceSequence, AdvanceInstrumentation
<1>5. Dates' /\ Current'
    BY AdvanceDates, AdvanceCurrent
<1> QED
    BY <1>1, <1>2, <1>3, <1>4, <1>5

(***************************************************************************)
(* The other steps                                                         *)
(***************************************************************************)

\* Every call of make that is given more than one job builds at most one
\* instrumented design.
OneInstrumentedAtATime ==
    \A build \in Builds :
        build.j <= 1 \/ \A t, u \in build.goals \cap Instrumented : t = u

\* A redirection to a target fails only for want of its input.
RedirectionsSucceed == Failing \cap Redirections = {}

\* make is called.
LEMMA CallInv ==
    ASSUME MakeInv, OneInstrumentedAtATime, NEW build \in Builds, Call(build)
    PROVE  MakeInv'
<1> USE DEF MakeInv
<1>1. /\ make' = [goals |-> build.goals, j |-> build.j, done |-> {PickledSv},
                  script |-> script, status |-> "making"]
      /\ UNCHANGED <<file, fresh, script, jobs, ran, copied, recompiled, edited>> /\ ~Running
    BY DEF Call, PickledSv
<1>2. MakeTypes'
    BY CallTypes
<1>3. DOMAIN jobs' = {}
    BY <1>1 DEF MakeTypes, MakeShape
<1>4. Sequence'
    BY <1>1, <1>3, Rules DEF Sequence
<1>5. OneCompacts'
    BY <1>1 DEF OneInstrumentedAtATime, OneCompacts, Instrumented
<1>6. Halfway'
    BY <1>3 DEF Halfway, PreparedHalfway, Sv2vHalfway, VanillaHalfway, CompactHalfway
<1>7. Instrumentation' /\ Dates'
    BY <1>1 DEF Instrumentation, IsBy, Dates
<1>8. Current'
  <2>1. PickledSv \in DOMAIN file' /\ make'.done = {PickledSv}
      BY <1>1 DEF Current
  <2>2. \A t : Exe(t) # PickledSv
      BY Names
  <2> QED
      BY <2>1, <2>2 DEF Current
<1>9. DesignsExist' /\ MadeIsCurrent'
    BY <1>1 DEF DesignsExist, MadeIsCurrent
<1> QED
    BY <1>2, <1>4, <1>5, <1>6, <1>7, <1>8, <1>9

\* A file that is up to date is as recent as the call.
LEMMA UpToDateInv ==
    ASSUME MakeInv, NEW f \in Files, UpToDate(f)
    PROVE  MakeInv'
<1> USE DEF MakeInv
<1>1. /\ make.status = "making" /\ f \in Needed /\ f \notin DOMAIN jobs
      /\ Prerequisites(f) \subseteq make.done /\ f \in DOMAIN file /\ fresh[f]
      /\ make' = [make EXCEPT !.done = @ \cup {f}]
      /\ UNCHANGED <<file, fresh, script, jobs, ran, copied, recompiled, edited, runs>>
    BY DEF UpToDate, Considered
<1>2. MakeTypes' /\ MakeShape /\ make.script \in Nat /\ script \in Nat /\ make.script <= script
    BY UpToDateTypes, MakeAssumption DEF MakeTypes, MakeShape, TypeOK
<1>3. /\ make'.goals = make.goals /\ make'.j = make.j /\ make'.script = make.script
      /\ make'.status = "making" /\ make'.done = make.done \cup {f}
    BY <1>1, <1>2 DEF MakeShape
<1>4. Needed' = Needed /\ Running
    BY <1>1, <1>3 DEF Needed, Running
<1>5. Sequence'
    BY <1>1, <1>3, <1>4 DEF Sequence
<1>6. OneCompacts'
    BY <1>3 DEF OneCompacts, Instrumented
<1>7. Halfway'
    BY <1>1 DEF Halfway, PreparedHalfway, Sv2vHalfway, VanillaHalfway, CompactHalfway, Holds, Instrumented
<1>8. Instrumentation' /\ Dates'
    BY <1>1 DEF Instrumentation, IsBy, Dates
<1>version. edited \/ file[f].script >= make.script \/ \E t \in Targets : f = Exe(t)
  <2>1. CASE f = Prepared
    <3>1. edited \/ file[f].script = script
        BY <1>1, <2>1 DEF Dates
    <3>2. script >= make.script
        BY <1>2
    <3> QED
        BY <3>1, <3>2
  <2>2. CASE \E t \in make.goals : f = Exe(t)
      BY <1>2, <2>2 DEF MakeShape
  <2>3. CASE f # Prepared /\ ~\E t \in make.goals : f = Exe(t)
    <3>1. \E h \in Prerequisites(f) \ {PickledSv} : \A t : h # Exe(t) /\ f # Exe(t)
      <4>1. \A t : Prepared # Exe(t) /\ PreBlackbox # Exe(t) /\ Sv2vOut # Exe(t)
          BY Names
      <4>2. \A t, u : Precompact(u) # Exe(t) /\ Precompact(u) # PickledSv /\ Design(u) # Exe(t)
          BY Names
      <4>3. Prepared # PickledSv /\ PreBlackbox # PickledSv /\ Sv2vOut # PickledSv
          BY Names
      <4>4. ASSUME NEW u \in make.goals \cap Instrumented, f = Design(u)
            PROVE  Prerequisites(f) = {Precompact(u)}
          BY <4>4, Rules DEF Instrumented
      <4> QED
          BY <1>1, <1>2, <2>3, <4>1, <4>2, <4>3, <4>4, NeededKinds, Rules
    <3>2. PICK h \in Prerequisites(f) \ {PickledSv} : \A t : h # Exe(t) /\ f # Exe(t)
        BY <3>1
    <3>3. h \in make.done /\ h \in DOMAIN file
        BY <1>1, <1>4, <3>2 DEF Current
    <3>4. file[f].script = file[h].script
        BY <1>1, <3>2, <3>3 DEF Dates
    <3>5. edited \/ file[h].script >= make.script
        BY <1>4, <3>2, <3>3 DEF Current
    <3> QED
        BY <3>4, <3>5
  <2> QED
      BY <2>1, <2>2, <2>3
<1>exe. ASSUME NEW t \in Targets \ recompiled, f = Exe(t)
        PROVE  file[f].script = file[Design(t)].script
  <2>1. Design(t) \in Prerequisites(f) /\ Design(t) # PickledSv
      BY <1>exe, Rules, Names
  <2>2. Design(t) \in DOMAIN file
      BY <1>1, <1>4, <2>1 DEF Current
  <2>3. \A u \in recompiled : f # Exe(u)
      BY <1>exe, Names
  <2> QED
      BY <1>1, <2>1, <2>2, <2>3 DEF Dates
<1>9. Current'
  <2>1. PickledSv \in DOMAIN file /\ make.done \cup {f} \subseteq DOMAIN file
      BY <1>1, <1>4 DEF Current
  <2>2. \A g \in (make.done \cup {f}) \ {PickledSv} :
            edited \/ file[g].script >= make.script \/ \E t \in Targets : g = Exe(t)
      BY <1>4, <1>version DEF Current
  <2>3. \A t \in Targets \ recompiled :
            Exe(t) \in make.done \cup {f} => file[Exe(t)].script = file[Design(t)].script
      BY <1>4, <1>exe DEF Current
  <2> QED
      BY <1>1, <1>3, <2>1, <2>2, <2>3 DEF Current
<1>10. DesignsExist' /\ MadeIsCurrent'
    BY <1>3 DEF DesignsExist, MadeIsCurrent
<1> QED
    BY <1>2, <1>5, <1>6, <1>7, <1>8, <1>9, <1>10

\* A recipe starts with nothing made.
LEMMA StartRecipeInv ==
    ASSUME MakeInv, NEW f \in Files, StartRecipe(f)
    PROVE  MakeInv'
<1> USE DEF MakeInv
<1>1. /\ f \notin DOMAIN jobs /\ f \notin make.done /\ Prerequisites(f) \subseteq make.done
      /\ f \notin DOMAIN file \/ ~fresh[f]
      /\ jobs' = [g \in DOMAIN jobs \cup {f} |-> IF g = f THEN 1 ELSE jobs[g]]
      /\ UNCHANGED <<file, fresh, script, make, ran, copied, recompiled, edited, runs>>
    BY DEF StartRecipe, Considered
<1>2. DOMAIN jobs' = DOMAIN jobs \cup {f} /\ jobs'[f] = 1 /\ \A g \in DOMAIN jobs : jobs'[g] = jobs[g]
    BY <1>1
<1>3. MakeTypes'
    BY StartRecipeTypes
<1>4. Sequence'
    BY <1>1, <1>2 DEF Sequence, Needed
<1>5. OneCompacts' /\ Instrumentation' /\ Dates' /\ Current' /\ DesignsExist' /\ MadeIsCurrent'
  <2>1. OneCompacts'
      BY <1>1 DEF OneCompacts, Instrumented
  <2>2. Instrumentation' /\ Dates'
      BY <1>1 DEF Instrumentation, IsBy, Dates
  <2>3. Current'
      BY <1>1 DEF Current, Running
  <2>4. DesignsExist' /\ MadeIsCurrent'
      BY <1>1 DEF DesignsExist, MadeIsCurrent
  <2> QED
      BY <2>1, <2>2, <2>3, <2>4
<1>6. Halfway'
  <2>1. PreparedHalfway'
      BY <1>1, <1>2 DEF Halfway, PreparedHalfway, Holds
  <2>2. Sv2vHalfway'
      BY <1>1, <1>2 DEF Halfway, Sv2vHalfway, Holds
  <2>3. VanillaHalfway'
      BY <1>1, <1>2 DEF Halfway, VanillaHalfway, Holds
  <2>4. ASSUME NEW t \in Instrumented PROVE CompactHalfway(t)'
    <3>1. CompactHalfway(t)
        BY DEF Halfway
    <3> QED
        BY <1>1, <1>2, <3>1 DEF CompactHalfway, Holds
  <2> QED
      BY <2>1, <2>2, <2>3, <2>4 DEF Halfway, Instrumented
<1> QED
    BY <1>3, <1>4, <1>5, <1>6

\* A redirection finds its input.
LEMMA RedirectionsFindInput ==
    ASSUME MakeInv, NEW f \in DOMAIN jobs, Cmd(f).do \in Redirections
    PROVE  Accepts(Cmd(f))
<1> USE DEF MakeInv
<1>1. Running
    BY DEF MakeTypes, MakeShape
<1> SUFFICES Cmd(f).from \in DOMAIN file
    BY DEF Accepts, Redirections
<1>2. CASE f = Prepared /\ jobs[f] \in 1..6
  <2>1. jobs[f] \in {1, 2, 3, 4, 5, 6}
      BY <1>2
  <2> QED
      BY <1>2, <2>1, PreparedSteps DEF Cmd, Command, Redirections
<1>3. CASE f = PreBlackbox /\ jobs[f] = 1
    BY <1>3, BlackboxSteps DEF Cmd, Command, Redirections
<1>4. CASE f = Sv2vOut /\ jobs[f] \in 1..2
  <2>1. jobs[f] \in {1, 2}
      BY <1>4
  <2>2. Cmd(f).from = PreBlackbox
      BY <1>4, <2>1, Sv2vSteps DEF Cmd, Command, Redirections
  <2>3. PreBlackbox \in make.done
      BY <1>4, Rules DEF Sequence
  <2> QED
      BY <1>1, <2>2, <2>3 DEF Current
<1>5. ASSUME NEW t \in make.goals \cap Instrumented, f = Precompact(t), jobs[f] = 1
      PROVE  FALSE
  <2>1. Cmd(f) = Command(Sv2vOut, Precompact(t), "yosys")
      BY <1>5, PrecompactSteps DEF Cmd
  <2> QED
      BY <2>1 DEF Command, Redirections
<1>6. CASE f = Design("vanilla") /\ jobs[f] \in 1..3
  <2>1. jobs[f] \in {1, 2, 3}
      BY <1>6
  <2>2. jobs[f] = 2 /\ Cmd(f).from = Tmp
      BY <1>6, <2>1, VanillaSteps DEF Cmd, Command, Redirections
  <2> QED
      BY <1>6, <2>2 DEF Halfway, VanillaHalfway, Holds
<1>7. ASSUME NEW t \in make.goals \cap Instrumented, f = Design(t), jobs[f] \in 1..5
      PROVE  Cmd(f).from \in DOMAIN file
  <2>1. jobs[f] \in {1, 2, 3, 4, 5} /\ t # "vanilla"
      BY <1>7 DEF Instrumented
  <2>2. /\ jobs[f] = 1 => Cmd(f) = Command(Precompact(t), Interm, "compact")
        /\ jobs[f] = 2 => Cmd(f) = Command(Interm, Interm, "deparam")
        /\ jobs[f] = 3 => Cmd(f) = Command(Interm, Design(t), "cat")
        /\ jobs[f] = 4 => Cmd(f) = Command(Interm, Interm, "rm")
        /\ jobs[f] = 5 => Cmd(f) = Command(Precompact(t), Log(t), "cp")
      BY <1>7, <2>1, CompactSteps DEF Cmd
  <2>3. jobs[f] = 3 /\ Cmd(f).from = Interm
      BY <2>1, <2>2 DEF Command, Redirections
  <2>4. CompactHalfway(t)
      BY DEF Halfway
  <2> QED
      BY <1>7, <2>3, <2>4 DEF CompactHalfway, Holds
<1>8. ASSUME NEW t \in make.goals, f = Exe(t), jobs[f] \in 1..3
      PROVE  FALSE
  <2>1. jobs[f] \in {1, 2, 3}
      BY <1>8
  <2>2. Cmd(f) \in {Command(Conf, Conf, "rm"), Command(Design(t), Conf, "library_add"),
                    Command(Design(t), Exe(t), "fusesoc")}
      BY <1>8, <2>1, ExeSteps DEF Cmd
  <2> QED
      BY <2>2 DEF Command, Redirections
<1> QED
    BY <1>2, <1>3, <1>4, <1>5, <1>6, <1>7, <1>8, JobKinds

\* A command fails and leaves the files as they were.
LEMMA FailInv ==
    ASSUME MakeInv, RedirectionsSucceed, NEW f \in DOMAIN jobs, Fail(f)
    PROVE  MakeInv'
<1> USE DEF MakeInv
<1>1. Cmd(f).do \notin Redirections
  <2>1. ~Accepts(Cmd(f)) \/ Cmd(f).do \in Failing
      BY DEF Fail, Cmd
  <2> QED
      BY <2>1, RedirectionsFindInput DEF RedirectionsSucceed
<1>2. /\ UNCHANGED <<file, fresh>> /\ jobs' = WithoutJob(f)
      /\ make' = [make EXCEPT !.status = "failed"]
      /\ UNCHANGED <<script, ran, recompiled, edited, runs>>
    BY <1>1 DEF Fail, Cmd
<1>3. MakeTypes' /\ MakeShape /\ Running
    BY FailTypes DEF MakeTypes, MakeShape
<1>4. /\ make'.goals = make.goals /\ make'.j = make.j /\ make'.script = make.script
      /\ make'.status = "failed" /\ make'.done = make.done
    BY <1>2, <1>3 DEF MakeShape
<1>5. Needed' = Needed
    BY <1>4 DEF Needed
<1>6. DOMAIN jobs' \subseteq DOMAIN jobs /\ \A g \in DOMAIN jobs' : jobs'[g] = jobs[g]
    BY <1>2 DEF WithoutJob
<1>7. Sequence'
    BY <1>4, <1>5, <1>6 DEF Sequence
<1>8. OneCompacts'
    BY <1>4 DEF OneCompacts, Instrumented
<1>9. Instrumentation' /\ Dates'
  <2>1. \A t \in DOMAIN copied' : copied'[t].by = t
      BY FailCopies, CopyBy
  <2> QED
      BY <1>2, <2>1 DEF Instrumentation, IsBy, Dates
<1>10. Current'
    BY <1>2, <1>3, <1>4 DEF Current
<1>11. DesignsExist' /\ MadeIsCurrent'
    BY <1>4 DEF DesignsExist, MadeIsCurrent
<1>12. Halfway'
  <2>1. PreparedHalfway'
      BY <1>2, <1>6 DEF Halfway, PreparedHalfway, Holds
  <2>2. Sv2vHalfway'
      BY <1>2, <1>6 DEF Halfway, Sv2vHalfway, Holds
  <2>3. VanillaHalfway'
      BY <1>2, <1>6 DEF Halfway, VanillaHalfway, Holds
  <2>4. ASSUME NEW t \in Instrumented PROVE CompactHalfway(t)'
    <3>1. CompactHalfway(t)
        BY DEF Halfway
    <3> QED
        BY <1>2, <1>6, <3>1 DEF CompactHalfway, Holds
  <2> QED
      BY <2>1, <2>2, <2>3, <2>4 DEF Halfway, Instrumented
<1> QED
    BY <1>3, <1>7, <1>8, <1>9, <1>10, <1>11, <1>12

\* make gives up for want of a log.
LEMMA NoRuleInv ==
    ASSUME MakeInv, NoRule
    PROVE  MakeInv'
<1> USE DEF MakeInv
<1>1. /\ make.status = "making" /\ make' = [make EXCEPT !.status = "failed"]
      /\ UNCHANGED <<file, fresh, script, jobs, ran, copied, recompiled, edited, runs>>
    BY DEF NoRule
<1>2. MakeTypes' /\ MakeShape /\ Running
    BY <1>1, NoRuleTypes DEF MakeTypes, Running
<1>3. /\ make'.goals = make.goals /\ make'.j = make.j /\ make'.script = make.script
      /\ make'.status = "failed" /\ make'.done = make.done
    BY <1>1, <1>2 DEF MakeShape
<1>4. Needed' = Needed
    BY <1>3 DEF Needed
<1>5. Sequence'
    BY <1>1, <1>3, <1>4 DEF Sequence
<1>6. OneCompacts'
    BY <1>3 DEF OneCompacts, Instrumented
<1>7. Instrumentation' /\ Dates'
    BY <1>1 DEF Instrumentation, IsBy, Dates
<1>8. Current'
    BY <1>1, <1>2, <1>3 DEF Current
<1>9. DesignsExist' /\ MadeIsCurrent'
    BY <1>3 DEF DesignsExist, MadeIsCurrent
<1>10. Halfway'
    BY <1>1 DEF Halfway, PreparedHalfway, Sv2vHalfway, VanillaHalfway, CompactHalfway, Holds, Instrumented
<1> QED
    BY <1>2, <1>5, <1>6, <1>7, <1>8, <1>9, <1>10

\* Between calls nothing is asked for.
LEMMA IdleInv ==
    ASSUME make' = Idle, jobs' = <<>>
    PROVE  Sequence' /\ OneCompacts' /\ Halfway' /\ DesignsExist' /\ MadeIsCurrent' /\ ~Running'
<1>1. DOMAIN jobs' = {} /\ make'.done = {} /\ make'.j <= 1 /\ make'.status = "idle"
    BY NoJobs, IdleTypes
<1>2. Halfway'
    BY <1>1 DEF Halfway, PreparedHalfway, Sv2vHalfway, VanillaHalfway, CompactHalfway
<1> QED
    BY <1>1, <1>2 DEF Sequence, OneCompacts, DesignsExist, MadeIsCurrent, Running

\* A call ends, and what it made is current.
LEMMA FinishInv ==
    ASSUME MakeInv, Finish
    PROVE  MakeInv'
<1> USE DEF MakeInv
<1>1. /\ Running /\ jobs = <<>>
      /\ UNCHANGED <<file, fresh, script, jobs, copied, recompiled, edited, runs>>
    BY DEF Finish
<1>2. MakeTypes' /\ MakeShape
    BY FinishTypes DEF MakeTypes
<1>3. Instrumentation' /\ Dates' /\ PickledSv \in DOMAIN file'
    BY <1>1 DEF Instrumentation, IsBy, Dates, Current
<1>4. CASE make.status = "failed"
  <2>1. make' = Idle /\ jobs' = <<>>
      BY <1>1, <1>4 DEF Finish
  <2>2. Current'
      BY <1>3, <2>1, IdleInv DEF Current
  <2> QED
      BY <1>2, <1>3, <2>1, <2>2, IdleInv
<1>5. CASE make.status # "failed"
  <2>1. /\ Needed \subseteq make.done /\ make' = [make EXCEPT !.status = "made"]
        /\ ran' = [t \in make.goals |-> file[Exe(t)]]
      BY <1>5 DEF Finish, Exe
  <2>2. /\ make'.goals = make.goals /\ make'.j = make.j /\ make'.script = make.script
        /\ make'.status = "made" /\ make'.done = make.done
      BY <1>2, <2>1 DEF MakeShape
  <2>3. Needed' = Needed
      BY <2>2 DEF Needed
  <2>4. Sequence'
      BY <1>1, <2>2, <2>3 DEF Sequence
  <2>5. OneCompacts'
      BY <2>2 DEF OneCompacts, Instrumented
  <2>6. Halfway'
    <3>1. DOMAIN jobs' = {}
        BY <1>1, NoJobs
    <3> QED
        BY <3>1 DEF Halfway, PreparedHalfway, Sv2vHalfway, VanillaHalfway, CompactHalfway
  <2>7. ~Running'
      BY <2>2 DEF Running
  <2>8. Current'
      BY <1>3, <2>7 DEF Current
  <2>9. ASSUME NEW t \in make.goals
        PROVE  /\ Design(t) \in DOMAIN file
               /\ edited \/ file[Design(t)].script >= make.script
               /\ \/ t \in recompiled
                  \/ file[Exe(t)].script = file[Design(t)].script /\ file[Exe(t)].by = t
    <3>1. Design(t) \in make.done /\ Exe(t) \in make.done
        BY <2>1 DEF Needed, Design, Exe
    <3>2. t \in Targets
        BY <1>2 DEF MakeShape
    <3>3. Design(t) # PickledSv /\ \A u : Design(t) # Exe(u)
        BY Names
    <3>4. edited \/ file[Design(t)].script >= make.script
        BY <1>1, <3>1, <3>3 DEF Current
    <3>5. t \in recompiled \/ file[Exe(t)].script = file[Design(t)].script
        BY <1>1, <3>1, <3>2 DEF Current
    <3>6. Exe(t) \in DOMAIN file /\ Design(t) \in DOMAIN file
        BY <1>1, <3>1 DEF Current
    <3>7. file[Exe(t)].by = t
        BY <3>2, <3>6 DEF Instrumentation, IsBy
    <3> QED
        BY <3>4, <3>5, <3>6, <3>7
  <2>10. \A t \in make.goals : ran'[t] = file[Exe(t)]
      BY <2>1
  <2>11. DesignsExist'
      BY <1>1, <2>2, <2>9 DEF DesignsExist
  <2>12. MadeIsCurrent'
    <3>1. \A t \in make'.goals :
              /\ edited' \/ file'[Design(t)].script >= make'.script
              /\ t \in recompiled' \/ (ran'[t].script = file'[Design(t)].script /\ ran'[t].by = t)
        BY <1>1, <2>2, <2>9, <2>10
    <3> QED
        BY <3>1 DEF MadeIsCurrent, Design
  <2> QED
      BY <1>2, <1>3, <2>4, <2>5, <2>6, <2>8, <2>11, <2>12
<1> QED
    BY <1>4, <1>5

\* An interrupt leaves files that make either trusts rightly or makes again.
LEMMA InterruptInv ==
    ASSUME MakeInv, Interrupt
    PROVE  MakeInv'
<1> USE DEF MakeInv
<1>1. /\ file' = [f \in DOMAIN file \ {g \in DOMAIN jobs : Written(g)} |-> file[f]]
      /\ jobs' = <<>> /\ make' = Idle
      /\ UNCHANGED <<fresh, script, ran, recompiled, edited, runs>>
    BY DEF Interrupt
<1>2. DOMAIN file' \subseteq DOMAIN file /\ \A f \in DOMAIN file' : file'[f] = file[f]
    BY <1>1
<1>3. MakeTypes'
    BY InterruptTypes
<1>4. PickledSv \in DOMAIN file'
  <2>1. PickledSv \notin DOMAIN jobs
      BY PickledIsUntouched
  <2> QED
      BY <1>1, <2>1 DEF Current
<1>5. Current'
    BY <1>1, <1>4, IdleInv DEF Current
<1>6. Instrumentation'
  <2>1. \A t \in DOMAIN copied' : copied'[t].by = t
      BY InterruptCopies, CopyBy
  <2> QED
      BY <1>2, <2>1 DEF Instrumentation, IsBy
<1>7. Dates'
    BY <1>1, <1>2 DEF Dates
<1> QED
    BY <1>1, <1>3, <1>5, <1>6, <1>7, IdleInv

\* An edit of the script makes the prepared design old.
LEMMA EditScriptInv ==
    ASSUME MakeInv, EditScript
    PROVE  MakeInv'
<1> USE DEF MakeInv
<1>1. /\ script' = script + 1
      /\ fresh' = [fresh EXCEPT ![Prepared] = FALSE]
      /\ edited' = (edited \/ ReadScript)
      /\ UNCHANGED <<file, make, jobs, ran, copied, recompiled, runs>>
    BY DEF EditScript, Prepared
<1>2. MakeTypes'
    BY EditScriptTypes
<1>3. ~fresh'[Prepared] /\ \A f \in Files : fresh'[f] => fresh[f]
  <2>1. Prepared \in Files /\ fresh \in [Files -> BOOLEAN]
      BY DEF Files, Shared, Prepared, MakeTypes, TypeOK
  <2> QED
      BY <1>1, <2>1
<1>4. DOMAIN file \subseteq Files
    BY DEF MakeTypes, TypeOK
<1>5. Sequence'
    BY <1>1 DEF Sequence, Needed
<1>6. OneCompacts'
    BY <1>1 DEF OneCompacts, Instrumented
<1>7. Instrumentation'
    BY <1>1 DEF Instrumentation, IsBy
<1>8. Dates'
  <2>1. ASSUME NEW f \in DOMAIN file, NEW g \in Prerequisites(f),
               fresh'[f], g \in DOMAIN file, g # PickledSv, \A t \in recompiled : f # Exe(t)
        PROVE  file[f].script = file[g].script
      BY <1>3, <1>4, <2>1 DEF Dates
  <2> QED
      BY <1>1, <1>3, <2>1 DEF Dates
<1>9. Current'
  <2>1. edited => edited'
      BY <1>1
  <2>2. Running' = Running
      BY <1>1 DEF Running
  <2> QED
      BY <1>1, <2>1, <2>2 DEF Current
<1>10. DesignsExist' /\ MadeIsCurrent'
    BY <1>1 DEF DesignsExist, MadeIsCurrent
<1>11. Halfway'
  <2>1. PreparedHalfway'
    <3>1. ASSUME Prepared \in DOMAIN jobs, jobs[Prepared] > 3 PROVE edited'
        BY <1>1, <3>1 DEF ReadScript, Prepared
    <3> QED
        BY <1>1, <1>3, <3>1 DEF PreparedHalfway
  <2>2. Sv2vHalfway' /\ VanillaHalfway'
      BY <1>1 DEF Halfway, Sv2vHalfway, VanillaHalfway, Holds
  <2>3. ASSUME NEW t \in Instrumented PROVE CompactHalfway(t)'
    <3>1. CompactHalfway(t)
        BY DEF Halfway
    <3> QED
        BY <1>1, <3>1 DEF CompactHalfway, Holds
  <2> QED
      BY <2>1, <2>2, <2>3 DEF Halfway, Instrumented
<1> QED
    BY <1>2, <1>5, <1>6, <1>7, <1>8, <1>9, <1>10, <1>11

\* make recompile changes executables only.
LEMMA RecompileInv ==
    ASSUME MakeInv, NEW t \in Targets, Recompile(t)
    PROVE  MakeInv'
<1> USE DEF MakeInv
<1>1. /\ ~Running /\ t \in DOMAIN copied
      /\ \/ /\ file' = [f \in DOMAIN file \cup {Exe(t)} |-> IF f = Exe(t) THEN copied[t] ELSE file[f]]
            /\ Freshen(Exe(t)) /\ recompiled' = recompiled \cup {t}
         \/ /\ file' = [f \in DOMAIN file \ {Exe(t)} |-> file[f]]
            /\ UNCHANGED <<fresh, recompiled>>
      /\ UNCHANGED <<script, make, jobs, ran, copied, edited, runs>>
    BY DEF Recompile, Exe
<1>2. MakeTypes' /\ DOMAIN jobs' = {} /\ DOMAIN file \subseteq Files
    BY <1>1, RecompileTypes DEF MakeTypes, MakeShape, TypeOK
<1>3. /\ \A f : f # Exe(t) => f \in DOMAIN file' <=> f \in DOMAIN file
      /\ \A f \in DOMAIN file' : f # Exe(t) => file'[f] = file[f]
      /\ recompiled \subseteq recompiled'
      /\ Exe(t) \in DOMAIN file' => file'[Exe(t)] = copied[t] /\ t \in recompiled'
    BY <1>1
<1>4. \A f \in Files : fresh'[f] => fresh[f] \/ (f = Exe(t) /\ t \in recompiled')
    BY <1>1 DEF Freshen
<1>5. \A u : Prepared # Exe(u) /\ PickledSv # Exe(u) /\ \A v : Design(v) # Exe(u)
    BY Names
<1>6. Sequence'
    BY <1>1 DEF Sequence, Needed
<1>7. OneCompacts'
    BY <1>1 DEF OneCompacts, Instrumented
<1>8. Instrumentation'
  <2>1. \A f \in DOMAIN file : IsBy(f, file[f].by)
      BY DEF Instrumentation
  <2>2. copied[t].by = t /\ copied' = copied
      BY <1>1 DEF Instrumentation
  <2>3. IsBy(Exe(t), t)
      BY Names DEF IsBy
  <2>4. \A f \in DOMAIN file' : IsBy(f, file'[f].by)
      BY <1>3, <2>1, <2>2, <2>3
  <2> QED
      BY <1>1, <2>4 DEF Instrumentation, IsBy
<1>9. Dates'
  <2>1. ASSUME Prepared \in DOMAIN file', fresh'[Prepared]
        PROVE  edited \/ file'[Prepared].script = script
      BY <1>2, <1>3, <1>4, <1>5, <2>1 DEF Dates
  <2>2. ASSUME NEW f \in DOMAIN file', NEW g \in Prerequisites(f),
               fresh'[f], g \in DOMAIN file', g # PickledSv, \A u \in recompiled' : f # Exe(u)
        PROVE  file'[f].script = file'[g].script
    <3>1. f # Exe(t) /\ g # Exe(t)
      <4>1. \A u : g # Exe(u)
          BY <2>2, <1>4, <1>2, Names DEF Prerequisites
      <4> QED
          BY <1>3, <2>2, <4>1
    <3>2. f \in Files /\ fresh[f] /\ \A u \in recompiled : f # Exe(u)
        BY <1>2, <1>3, <1>4, <2>2, <3>1
    <3>3. file[f].script = file[g].script
        BY <1>3, <2>2, <3>1, <3>2 DEF Dates
    <3> QED
        BY <1>3, <2>2, <3>1, <3>3
  <2> QED
      BY <1>1, <2>1, <2>2 DEF Dates
<1>10. Current'
  <2>1. PickledSv \in DOMAIN file'
      BY <1>3, <1>5 DEF Current
  <2>2. ~Running'
      BY <1>1 DEF Running
  <2> QED
      BY <2>1, <2>2 DEF Current
<1>11. Halfway'
    BY <1>2 DEF Halfway, PreparedHalfway, Sv2vHalfway, VanillaHalfway, CompactHalfway
<1> HIDE DEF MakeInv
<1>12. DesignsExist'
    BY <1>1, <1>3, <1>5 DEF MakeInv, DesignsExist
<1>13. MadeIsCurrent'
  <2>1. CASE make.status = "made"
    <3>1. ASSUME NEW u \in make.goals
          PROVE  /\ edited \/ file'[Design(u)].script >= make.script
                 /\ u \in recompiled' \/ (ran[u].script = file'[Design(u)].script /\ ran[u].by = u)
      <4>1. /\ edited \/ file[Design(u)].script >= make.script
            /\ u \in recompiled \/ (ran[u].script = file[Design(u)].script /\ ran[u].by = u)
          BY <2>1 DEF MakeInv, MadeIsCurrent, Design
      <4>2. file'[Design(u)] = file[Design(u)]
        <5>1. Design(u) \in DOMAIN file
            BY <2>1 DEF MakeInv, DesignsExist
        <5> QED
            BY <1>3, <1>5, <5>1
      <4> QED
          BY <1>3, <4>1, <4>2
    <3> QED
        BY <1>1, <3>1 DEF MadeIsCurrent, Design
  <2>2. CASE make.status # "made"
      BY <1>1, <2>2 DEF MadeIsCurrent
  <2> QED
      BY <2>1, <2>2
<1> QED
    BY <1>2, <1>6, <1>7, <1>8, <1>9, <1>10, <1>11, <1>12, <1>13 DEF MakeInv

(***************************************************************************)
(* Induction                                                               *)
(***************************************************************************)

\* Initially there is only the pickled design.
LEMMA MakeInitInv == MakeInit => MakeInv
<1> SUFFICES ASSUME MakeInit PROVE MakeInv
    OBVIOUS
<1>1. /\ file = [f \in {PickledSv} |-> [text |-> Pickled, by |-> "vanilla", script |-> 0]]
      /\ make = Idle /\ jobs = <<>>
    BY DEF MakeInit, PickledSv
<1>2. DOMAIN jobs = {} /\ make.done = {} /\ make.j <= 1 /\ make.status = "idle"
    BY <1>1, NoJobs, IdleTypes
<1>3. DOMAIN file = {PickledSv} /\ file[PickledSv].by = "vanilla" /\ DOMAIN copied = {}
    BY <1>1, NoJobs DEF MakeInit
<1>4. PickledSv # Prepared /\ \A t : PickledSv \notin {Precompact(t), Design(t), Exe(t)}
    BY Names
<1>5. Instrumentation
    BY <1>3, <1>4 DEF Instrumentation, IsBy
<1>6. Dates
    BY <1>3, <1>4, Rules DEF Dates
<1>7. Sequence /\ OneCompacts
    BY <1>2 DEF Sequence, OneCompacts
<1>8. Halfway
    BY <1>2 DEF Halfway, PreparedHalfway, Sv2vHalfway, VanillaHalfway, CompactHalfway
<1>9. Current /\ DesignsExist /\ MadeIsCurrent
    BY <1>2, <1>3 DEF Current, Running, DesignsExist, MadeIsCurrent
<1> QED
    BY <1>5, <1>6, <1>7, <1>8, <1>9, InitTypes DEF MakeInv

\* A step that changes nothing keeps everything.
LEMMA MakeStutter ==
    ASSUME MakeInv, UNCHANGED makevars
    PROVE  MakeInv'
<1> USE DEF MakeInv, makevars
<1>1. MakeTypes'
    BY NextTypes
<1>2. Sequence' /\ OneCompacts'
    BY DEF Sequence, OneCompacts, Needed, Instrumented
<1>3. Instrumentation' /\ Dates'
    BY DEF Instrumentation, IsBy, Dates
<1>4. PreparedHalfway' /\ Sv2vHalfway' /\ VanillaHalfway'
    BY DEF Halfway, PreparedHalfway, Sv2vHalfway, VanillaHalfway, Holds
<1>5. ASSUME NEW t \in Instrumented PROVE CompactHalfway(t)'
  <2>1. CompactHalfway(t)
      BY DEF Halfway
  <2> QED
      BY <2>1 DEF CompactHalfway, Holds
<1>6. Halfway'
    BY <1>4, <1>5 DEF Halfway, Instrumented
<1>7. Current'
    BY DEF Current, Running
<1>8. DesignsExist' /\ MadeIsCurrent'
    BY DEF DesignsExist, MadeIsCurrent
<1> QED
    BY <1>1, <1>2, <1>3, <1>6, <1>7, <1>8

\* Every step keeps the invariant.
LEMMA MakeNextInv ==
    ASSUME OneInstrumentedAtATime, RedirectionsSucceed
    PROVE  MakeInv /\ [MakeNext]_makevars => MakeInv'
<1> SUFFICES ASSUME MakeInv, MakeNext \/ UNCHANGED makevars PROVE MakeInv'
    OBVIOUS
<1>1. CASE UNCHANGED makevars
    BY <1>1, MakeStutter
<1>2. CASE MakeNext
    BY <1>2, CallInv, UpToDateInv, StartRecipeInv, NoRuleInv, AdvanceInv, FailInv,
       FinishInv, InterruptInv, EditScriptInv, RecompileInv DEF MakeNext
<1> QED
    BY <1>1, <1>2

\* The rules of cellift/Makefile carry every edit of the script down to the
\* designs and executables of every later call of make that succeeds, through
\* any interrupts, failed scripts, missing logs and calls of make recompile,
\* if a call with several jobs builds at most one instrumented design and the
\* redirections to the targets do not fail.
THEOREM MadeIsAlwaysCurrent ==
    ASSUME OneInstrumentedAtATime, RedirectionsSucceed
    PROVE  MakeSpec => []MadeIsCurrent
<1>1. MakeInv => MadeIsCurrent
    BY DEF MakeInv
<1>2. MakeInv /\ [MakeNext]_makevars => MakeInv'
    BY MakeNextInv
<1> QED
    BY <1>1, <1>2, MakeInitInv, PTL DEF MakeSpec

(***************************************************************************)
(* The texts that builds can leave                                         *)
(***************************************************************************)

\* The stages of the prepared design, command by command.
Stage1 == Text("fix_global_imports", Pickled)
Stage2 == Text("remove_modules", Stage1)
Stage3 == Text("replace_instances", Stage2)
Stage4 == Text("remove_pragma", Stage3)
Stage5 == Text("sed", Stage4)
PreparedText == Text("mv", Stage5)
BlackboxText == Text("sv2v", PreparedText)

\* When insert_blackbox_attrs.py fails, the design without attributes stays,
\* newer than its prerequisite.  The scripts that refuse a design write none.
AddedText == Text("cat_blackboxes", BlackboxText)
Sv2vTexts == {AddedText, Text("insert_blackbox", AddedText)}
PrecompactTexts == {Text("yosys", text) : text \in Sv2vTexts} \ {Raise}
CompactTexts == {Text("compact", text) : text \in PrecompactTexts}
DeparamTexts == {Text("deparam", text) : text \in CompactTexts} \ {Raise}
VanillaText == Text("remove_memories", PreparedText)
DesignTexts(t) ==
    IF t = "vanilla" THEN {Text("sed_to", VanillaText)}
    ELSE {Text("cat", text) : text \in DeparamTexts}

\* The text of a file that make trusts.
IsText(f, text) ==
    /\ f = PickledSv => text = Pickled
    /\ f = Prepared => text = PreparedText
    /\ f = PreBlackbox => text = BlackboxText
    /\ f = Sv2vOut => text \in Sv2vTexts
    /\ \A t \in Targets : /\ f = Precompact(t) => text \in PrecompactTexts
                          /\ f = Design(t) => text \in DesignTexts(t)

\* The text that a running recipe has made so far.
IsHalfText(f, n, g, text) ==
    /\ f = Prepared /\ g = TmpPickle =>
          /\ n = 2 => text = Stage1
          /\ n = 3 => text = Stage2
          /\ n = 4 => text = Stage3
          /\ n = 5 => text = Stage4
          /\ n = 6 => text = Stage5
    /\ f = Sv2vOut /\ g = Sv2vOut /\ n = 2 => text = AddedText
    /\ f = Design("vanilla") /\ g = Tmp /\ n = 2 => text = VanillaText
    /\ \A t \in make.goals \cap Instrumented : f = Design(t) /\ g = Interm =>
          /\ n = 2 => text \in CompactTexts
          /\ n = 3 => text \in DeparamTexts

Contents ==
    /\ \A f \in DOMAIN file : IsText(f, file[f].text)
    /\ \A f \in DOMAIN jobs : \A g \in DOMAIN file : IsHalfText(f, jobs[f], g, file[g].text)

\* The first command of a recipe reads what make trusts.
LEMMA FirstHalfText == ASSUME NEW f, NEW g, NEW text PROVE IsHalfText(f, 1, g, text)
BY DEF IsHalfText

\* What a command of a recipe writes.
LEMMA WrittenText ==
    ASSUME MakeTypes, Contents, NEW f \in DOMAIN jobs, Accepts(Cmd(f)), Cmd(f).do # "rm"
    PROVE  /\ IsText(Cmd(f).to, Output(f, Cmd(f)).text)
           /\ IsHalfText(f, jobs[f] + 1, Cmd(f).to, Output(f, Cmd(f)).text)
<1> DEFINE c == Cmd(f)
           in == file[c.from].text
           text == Output(f, c).text
<1>1. text = Text(c.do, in) /\ c.from \in DOMAIN file
    BY DEF Output, Accepts
<1>2. IsText(c.from, in) /\ IsHalfText(f, jobs[f], c.from, in)
    BY <1>1 DEF Contents
<1>3. c.do \in {"yosys", "deparam"} => text # Raise
    BY <1>1 DEF Accepts
<1> HIDE DEF in, text
<1>4. CASE f = Prepared /\ jobs[f] \in 1..6
  <2>1. jobs[f] \in {1, 2, 3, 4, 5, 6}
      BY <1>4
  <2>names. \A t : /\ TmpPickle \notin {PickledSv, Prepared, PreBlackbox, Sv2vOut, Tmp, Interm, Precompact(t), Design(t)}
                   /\ Prepared \notin {PickledSv, TmpPickle, PreBlackbox, Sv2vOut, Tmp, Interm, Precompact(t), Design(t)}
      BY Names
  <2>2. \/ jobs[f] = 1 /\ c = Command(PickledSv, TmpPickle, "fix_global_imports")
        \/ jobs[f] = 2 /\ c = Command(TmpPickle, TmpPickle, "remove_modules")
        \/ jobs[f] = 3 /\ c = Command(TmpPickle, TmpPickle, "replace_instances")
        \/ jobs[f] = 4 /\ c = Command(TmpPickle, TmpPickle, "remove_pragma")
        \/ jobs[f] = 5 /\ c = Command(TmpPickle, TmpPickle, "sed")
        \/ jobs[f] = 6 /\ c = Command(TmpPickle, Prepared, "mv")
      BY <1>4, <2>1, PreparedSteps DEF Cmd
  <2>3. /\ jobs[f] = 1 => c.to = TmpPickle /\ text = Stage1
        /\ jobs[f] = 2 => c.to = TmpPickle /\ text = Stage2
        /\ jobs[f] = 3 => c.to = TmpPickle /\ text = Stage3
        /\ jobs[f] = 4 => c.to = TmpPickle /\ text = Stage4
        /\ jobs[f] = 5 => c.to = TmpPickle /\ text = Stage5
        /\ jobs[f] = 6 => c.to = Prepared /\ text = PreparedText
      BY <1>1, <1>2, <1>4, <2>2 DEF Command, IsText, IsHalfText, Stage1, Stage2, Stage3, Stage4,
         Stage5, PreparedText
  <2>4. IsText(c.to, text)
      BY <2>1, <2>3, <2>names DEF IsText
  <2>5. IsHalfText(f, jobs[f] + 1, c.to, text)
      BY <1>4, <2>1, <2>3, <2>names DEF IsHalfText
  <2> QED
      BY <2>4, <2>5 DEF text
<1>5. CASE f = PreBlackbox /\ jobs[f] = 1
  <2>1. c.from = Prepared /\ c.to = PreBlackbox /\ c.do = "sv2v"
      BY <1>5, BlackboxSteps DEF Cmd, Command
  <2>2. text = BlackboxText
      BY <1>1, <1>2, <2>1 DEF IsText, BlackboxText
  <2>3. IsText(PreBlackbox, text)
      BY <2>2, Names DEF IsText
  <2>4. \A n : IsHalfText(f, n, PreBlackbox, text)
      BY <1>5, Names DEF IsHalfText
  <2> QED
      BY <2>1, <2>3, <2>4 DEF text
<1>6. CASE f = Sv2vOut /\ jobs[f] \in 1..2
  <2>1. jobs[f] \in {1, 2}
      BY <1>6
  <2>2. \/ jobs[f] = 1 /\ c = Command(PreBlackbox, Sv2vOut, "cat_blackboxes")
        \/ jobs[f] = 2 /\ c = Command(Sv2vOut, Sv2vOut, "insert_blackbox")
      BY <1>6, <2>1, Sv2vSteps DEF Cmd
  <2>3. /\ c.to = Sv2vOut
        /\ jobs[f] = 1 => text = AddedText
        /\ jobs[f] = 2 => text = Text("insert_blackbox", AddedText)
      BY <1>1, <1>2, <1>6, <2>2 DEF Command, IsText, IsHalfText, AddedText
  <2>4. text \in Sv2vTexts
      BY <2>1, <2>3 DEF Sv2vTexts
  <2>5. IsText(Sv2vOut, text)
      BY <2>4, Names DEF IsText
  <2>6. IsHalfText(f, jobs[f] + 1, Sv2vOut, text)
      BY <1>6, <2>1, <2>3, Names DEF IsHalfText
  <2> QED
      BY <2>3, <2>5, <2>6 DEF text
<1>7. ASSUME NEW t \in make.goals \cap Instrumented, f = Precompact(t), jobs[f] = 1
      PROVE  IsText(c.to, text) /\ IsHalfText(f, jobs[f] + 1, c.to, text)
  <2>1. c = Command(Sv2vOut, Precompact(t), "yosys")
      BY <1>7, PrecompactSteps DEF Cmd
  <2>2. c.from = Sv2vOut /\ c.to = Precompact(t) /\ c.do = "yosys"
      BY <2>1 DEF Command
  <2>3. text \in PrecompactTexts
    <3>1. in \in Sv2vTexts
        BY <1>2, <2>2 DEF IsText
    <3> QED
        BY <1>1, <1>3, <2>2, <3>1 DEF PrecompactTexts
  <2>4. IsText(Precompact(t), text)
      BY <2>3, Names DEF IsText
  <2>5. \A n : IsHalfText(f, n, Precompact(t), text)
      BY <1>7, Names DEF IsHalfText
  <2> QED
      BY <2>2, <2>4, <2>5
<1>8. CASE f = Design("vanilla") /\ jobs[f] \in 1..3
  <2>1. jobs[f] \in {1, 2, 3}
      BY <1>8
  <2>2. \/ jobs[f] = 1 /\ c = Command(Prepared, Tmp, "remove_memories")
        \/ jobs[f] = 2 /\ c = Command(Tmp, Design("vanilla"), "sed_to")
        \/ jobs[f] = 3 /\ c = Command(Tmp, Tmp, "rm")
      BY <1>8, <2>1, VanillaSteps DEF Cmd
  <2>3. CASE jobs[f] = 1
    <3>1. c.to = Tmp /\ text = VanillaText
        BY <1>1, <1>2, <2>2, <2>3 DEF Command, IsText, VanillaText
    <3>2. IsText(Tmp, text)
        BY Names DEF IsText
    <3>3. IsHalfText(f, jobs[f] + 1, Tmp, text)
        BY <1>8, <2>3, <3>1, Names DEF IsHalfText
    <3> QED
        BY <3>1, <3>2, <3>3 DEF text
  <2>4. CASE jobs[f] = 2
    <3>1. c.from = Tmp /\ c.to = Design("vanilla") /\ c.do = "sed_to"
        BY <2>2, <2>4 DEF Command
    <3>2. in = VanillaText
        BY <1>2, <1>8, <2>4, <3>1 DEF IsHalfText
    <3>3. text \in DesignTexts("vanilla")
        BY <1>1, <3>1, <3>2 DEF DesignTexts
    <3>4. IsText(Design("vanilla"), text)
        BY <3>3, Names DEF IsText
    <3>5. \A n : IsHalfText(f, n, Design("vanilla"), text)
        BY <1>8, Names DEF IsHalfText
    <3> QED
        BY <3>1, <3>4, <3>5 DEF text
  <2>5. CASE jobs[f] = 3
    <3>1. c.do = "rm"
        BY <2>2, <2>5 DEF Command
    <3> QED
        BY <3>1
  <2> QED
      BY <2>1, <2>3, <2>4, <2>5
<1>9. ASSUME NEW t \in make.goals \cap Instrumented, f = Design(t), jobs[f] \in 1..5
      PROVE  IsText(c.to, text) /\ IsHalfText(f, jobs[f] + 1, c.to, text)
  <2>1. jobs[f] \in {1, 2, 3, 4, 5} /\ t # "vanilla" /\ t \in Targets
      BY <1>9 DEF Instrumented
  <2>2. /\ jobs[f] = 1 => c = Command(Precompact(t), Interm, "compact")
        /\ jobs[f] = 2 => c = Command(Interm, Interm, "deparam")
        /\ jobs[f] = 3 => c = Command(Interm, Design(t), "cat")
        /\ jobs[f] = 4 => c = Command(Interm, Interm, "rm")
        /\ jobs[f] = 5 => c = Command(Precompact(t), Log(t), "cp")
      BY <1>9, <2>1, CompactSteps DEF Cmd
  <2>3. IsText(Interm, text)
      BY Names DEF IsText
  <2>4. CASE jobs[f] = 1
    <3>1. c.from = Precompact(t) /\ c.to = Interm /\ c.do = "compact"
        BY <2>2, <2>4 DEF Command
    <3>2. text \in CompactTexts
        BY <1>1, <1>2, <2>1, <3>1 DEF IsText, CompactTexts
    <3>3. IsHalfText(f, jobs[f] + 1, Interm, text)
        BY <1>9, <2>1, <2>4, <3>2, Names DEF IsHalfText
    <3> QED
        BY <2>3, <3>1, <3>3
  <2>5. CASE jobs[f] = 2
    <3>1. c.from = Interm /\ c.to = Interm /\ c.do = "deparam"
        BY <2>2, <2>5 DEF Command
    <3>2. in \in CompactTexts
        BY <1>2, <1>9, <2>5, <3>1 DEF IsHalfText
    <3>3. text \in DeparamTexts
        BY <1>1, <1>3, <3>1, <3>2 DEF DeparamTexts
    <3>4. IsHalfText(f, jobs[f] + 1, Interm, text)
        BY <1>9, <2>1, <2>5, <3>3, Names DEF IsHalfText
    <3> QED
        BY <2>3, <3>1, <3>4
  <2>6. CASE jobs[f] = 3
    <3>1. c.from = Interm /\ c.to = Design(t) /\ c.do = "cat"
        BY <2>2, <2>6 DEF Command
    <3>2. in \in DeparamTexts
        BY <1>2, <1>9, <2>6, <3>1 DEF IsHalfText
    <3>3. text \in DesignTexts(t)
        BY <1>1, <2>1, <3>1, <3>2 DEF DesignTexts
    <3>4. IsText(Design(t), text)
        BY <3>3, Names DEF IsText
    <3>5. \A n : IsHalfText(f, n, Design(t), text)
        BY <1>9, <2>1, Names DEF IsHalfText
    <3> QED
        BY <3>1, <3>4, <3>5
  <2>7. CASE jobs[f] = 4
    <3>1. c.do = "rm"
        BY <2>2, <2>7 DEF Command
    <3> QED
        BY <3>1
  <2>8. CASE jobs[f] = 5
    <3>1. c.to = Log(t)
        BY <2>2, <2>8 DEF Command
    <3>2. IsText(Log(t), text)
        BY Names DEF IsText
    <3>3. \A n : IsHalfText(f, n, Log(t), text)
        BY <1>9, <2>1, Names DEF IsHalfText
    <3> QED
        BY <3>1, <3>2, <3>3
  <2> QED
      BY <2>1, <2>4, <2>5, <2>6, <2>7, <2>8
<1>10. ASSUME NEW t \in make.goals, f = Exe(t)
       PROVE  IsText(c.to, text) /\ IsHalfText(f, jobs[f] + 1, c.to, text)
  <2>1. c.to \in {f} \cup {Conf} \/ \E u : c.to = Log(u)
    <3>1. OwnFile(f, c.to)
        BY Touches DEF Touched
    <3> QED
        BY <1>10, <3>1, Names DEF OwnFile
  <2>2. \A n : IsHalfText(f, n, c.to, text)
      BY <1>10, Names DEF IsHalfText
  <2>3. IsText(c.to, text)
      BY <1>10, <2>1, Names DEF IsText
  <2> QED
      BY <2>2, <2>3
<1>11. CASE IsText(c.to, text) /\ IsHalfText(f, jobs[f] + 1, c.to, text)
    BY <1>11 DEF text
<1> QED
    BY <1>4, <1>5, <1>6, <1>7, <1>8, <1>9, <1>10, <1>11, JobKinds

\* Each command writes the file that the next one reads.
LEMMA NextReadsWritten ==
    ASSUME MakeTypes, NEW f \in DOMAIN jobs, jobs[f] < Len(Recipe(f)), NEW g, g # Cmd(f).to, NEW text
    PROVE  IsHalfText(f, jobs[f] + 1, g, text)
<1>1. CASE f = Prepared
  <2>1. jobs[f] \in {1, 2, 3, 4, 5}
    <3>1. Len(Recipe(f)) = 6 /\ jobs[f] \in 1..Len(Recipe(f))
        BY <1>1, PreparedSteps DEF MakeTypes, TypeOK
    <3> QED
        BY <3>1
  <2>2. Cmd(f).to = TmpPickle
      BY <1>1, <2>1, PreparedSteps DEF Cmd, Command
  <2> QED
      BY <1>1, <2>2, Names DEF IsHalfText
<1>2. CASE f = Sv2vOut
  <2>1. Cmd(f).to = Sv2vOut
    <3>1. jobs[f] \in 1..2
        BY <1>2, JobKinds, Sv2vSteps DEF MakeTypes, TypeOK
    <3>2. jobs[f] \in {1, 2}
        BY <3>1
    <3> QED
        BY <1>2, <3>2, Sv2vSteps DEF Cmd, Command
  <2> QED
      BY <1>2, <2>1, Names DEF IsHalfText
<1>3. CASE f = Design("vanilla")
  <2>1. jobs[f] + 1 = 2 => Cmd(f).to = Tmp
    <3>1. jobs[f] \in Nat
        BY <1>3, VanillaSteps DEF MakeTypes, TypeOK
    <3>2. jobs[f] + 1 = 2 => jobs[f] = 1
        BY <3>1
    <3> QED
        BY <1>3, <3>2, VanillaSteps DEF Cmd, Command
  <2>2. \A t \in Instrumented : f # Design(t)
      BY <1>3, Names DEF Instrumented
  <2> QED
      BY <1>3, <2>1, <2>2, Names DEF IsHalfText
<1>4. ASSUME NEW t \in make.goals \cap Instrumented, f = Design(t)
      PROVE  IsHalfText(f, jobs[f] + 1, g, text)
  <2>1. t # "vanilla" /\ jobs[f] \in 1..Len(Recipe(f)) /\ Len(Recipe(f)) = 5
      BY <1>4, CompactSteps DEF Instrumented, MakeTypes, TypeOK
  <2>2. jobs[f] \in {1, 2, 3, 4} /\ (jobs[f] \in {3, 4} => jobs[f] + 1 \in {4, 5})
      BY <2>1
  <2>3. jobs[f] \in {1, 2} => Cmd(f).to = Interm
    <3>1. /\ jobs[f] = 1 => Cmd(f) = Command(Precompact(t), Interm, "compact")
          /\ jobs[f] = 2 => Cmd(f) = Command(Interm, Interm, "deparam")
        BY <1>4, <2>1, CompactSteps DEF Cmd
    <3> QED
        BY <3>1 DEF Command
  <2>4. f \notin {Prepared, Sv2vOut, Design("vanilla")}
      BY <1>4, <2>1, Names
  <2> QED
      BY <2>2, <2>3, <2>4 DEF IsHalfText
<1>5. CASE f \notin {Prepared, Sv2vOut, Design("vanilla")} /\ \A t \in make.goals \cap Instrumented : f # Design(t)
    BY <1>5 DEF IsHalfText
<1> QED
    BY <1>1, <1>2, <1>3, <1>4, <1>5

\* No recipe writes what another has half made.
LEMMA OthersHalfText ==
    ASSUME MakeTypes, OneCompacts, NEW f \in DOMAIN jobs, NEW h \in DOMAIN jobs, h # f, NEW n, NEW text
    PROVE  IsHalfText(h, n, Cmd(f).to, text)
<1> DEFINE g == Cmd(f).to
<1>1. OwnFile(f, g)
    BY Touches DEF Touched
<1>2. f \notin Scratch /\ TmpPickle \in Scratch /\ Tmp \in Scratch /\ Interm \in Scratch
    BY NeedsNoScratch DEF MakeTypes, TypeOK, Scratch
<1> HIDE DEF g
<1>3. ~(h = Prepared /\ g = TmpPickle)
    BY <1>1, <1>2, Names DEF OwnFile
<1>4. ~(h = Sv2vOut /\ g = Sv2vOut)
    BY <1>1, Names DEF OwnFile
<1>5. ~(h = Design("vanilla") /\ g = Tmp)
    BY <1>1, <1>2, Names DEF OwnFile
<1>6. ASSUME NEW t \in make.goals \cap Instrumented, h = Design(t), g = Interm PROVE FALSE
  <2>1. \E u \in make.goals \cap Instrumented : f = Design(u)
      BY <1>1, <1>2, <1>6, Names DEF OwnFile
  <2>2. PICK u \in make.goals \cap Instrumented : f = Design(u)
      BY <2>1
  <2>3. t = u
      BY <1>6, <2>2, OneIsCompacted
  <2> QED
      BY <1>6, <2>2, <2>3
<1>7. IsHalfText(h, n, g, text)
    BY <1>3, <1>4, <1>5, <1>6 DEF IsHalfText
<1> QED
    BY <1>7 DEF g

\* A command keeps the texts.
LEMMA AdvanceContents ==
    ASSUME MakeTypes, OneCompacts, Contents, NEW f \in DOMAIN jobs, Advance(f)
    PROVE  Contents'
<1> DEFINE c == Cmd(f)
<1>1. Accepts(c)
    BY DEF Advance, Cmd
<1>2. make'.goals = make.goals
    BY AdvanceCall
<1>3. ASSUME NEW g \in DOMAIN file' PROVE IsText(g, file'[g].text)
  <2>1. CASE g = c.to
    <3>1. c.do # "rm" /\ file'[g] = Output(f, c)
        BY <1>3, <2>1, AdvanceFiles
    <3> QED
        BY <1>1, <2>1, <3>1, WrittenText
  <2>2. CASE g # c.to
    <3>1. g \in DOMAIN file /\ file'[g] = file[g]
        BY <1>3, <2>2, AdvanceFiles
    <3> QED
        BY <3>1 DEF Contents
  <2> QED
      BY <2>1, <2>2
<1>4. ASSUME NEW h \in DOMAIN jobs', NEW g \in DOMAIN file'
      PROVE  IsHalfText(h, jobs'[h], g, file'[g].text)
  <2>1. h \in DOMAIN jobs
      BY AdvanceJobs
  <2>2. CASE h = f /\ g = c.to
    <3>1. c.do # "rm" /\ file'[g] = Output(f, c) /\ jobs'[h] = jobs[f] + 1
        BY <2>2, AdvanceFiles, AdvanceJobs
    <3> QED
        BY <1>1, <2>2, <3>1, WrittenText
  <2>3. CASE h = f /\ g # c.to
    <3>1. jobs'[h] = jobs[f] + 1 /\ jobs[f] < Len(Recipe(f))
        BY <2>3, AdvanceJobs
    <3> QED
        BY <2>3, <3>1, NextReadsWritten
  <2>4. CASE h # f /\ g = c.to
      BY <2>1, <2>4, OthersHalfText
  <2>5. CASE h # f /\ g # c.to
    <3>1. g \in DOMAIN file /\ file'[g] = file[g] /\ jobs'[h] = jobs[h]
        BY <2>5, AdvanceFiles, AdvanceJobs
    <3> QED
        BY <2>1, <3>1 DEF Contents
  <2> QED
      BY <2>2, <2>3, <2>4, <2>5
<1> QED
    BY <1>2, <1>3, <1>4 DEF Contents, IsText, IsHalfText

\* The other steps write nothing, and start recipes at their first command.
LEMMA KeepContents ==
    ASSUME Contents,
           DOMAIN file' \subseteq DOMAIN file, \A f \in DOMAIN file' : file'[f] = file[f],
           \A f \in DOMAIN jobs' :
               jobs'[f] = 1 \/ (f \in DOMAIN jobs /\ jobs'[f] = jobs[f] /\ make'.goals = make.goals)
    PROVE  Contents'
<1>1. ASSUME NEW f \in DOMAIN file' PROVE IsText(f, file'[f].text)
    BY <1>1 DEF Contents
<1>2. ASSUME NEW f \in DOMAIN jobs', NEW g \in DOMAIN file', jobs'[f] # 1
      PROVE  IsHalfText(f, jobs'[f], g, file'[g].text) /\ make'.goals = make.goals
    BY <1>2 DEF Contents
<1> QED
    BY <1>1, <1>2 DEF Contents, IsText, IsHalfText

\* Every step keeps the texts.
LEMMA NextContents ==
    ASSUME MakeInv, Contents, RedirectionsSucceed, MakeNext \/ UNCHANGED makevars
    PROVE  Contents'
<1>inv. MakeTypes /\ MakeShape /\ OneCompacts
    BY DEF MakeInv, MakeTypes
<1>1. ASSUME NEW build \in Builds, Call(build) PROVE Contents'
  <2>1. UNCHANGED <<file, jobs>> /\ DOMAIN jobs = {}
      BY <1>1, <1>inv DEF Call, MakeShape
  <2> QED
      BY <2>1, KeepContents
<1>2. ASSUME NEW f \in Files, UpToDate(f) PROVE Contents'
  <2>1. UNCHANGED <<file, jobs>> /\ make'.goals = make.goals
      BY <1>2, <1>inv DEF UpToDate, MakeShape
  <2> QED
      BY <2>1, KeepContents
<1>3. ASSUME NEW f \in Files, StartRecipe(f) PROVE Contents'
  <2>1. /\ UNCHANGED <<file, make>>
        /\ jobs' = [g \in DOMAIN jobs \cup {f} |-> IF g = f THEN 1 ELSE jobs[g]]
      BY <1>3 DEF StartRecipe
  <2>2. \A g \in DOMAIN jobs' : jobs'[g] = 1 \/ (g \in DOMAIN jobs /\ jobs'[g] = jobs[g])
      BY <2>1
  <2> QED
      BY <2>1, <2>2, KeepContents
<1>4. ASSUME NEW f \in DOMAIN jobs, Advance(f) PROVE Contents'
    BY <1>4, <1>inv, AdvanceContents
<1>5. ASSUME NEW f \in DOMAIN jobs, Fail(f) PROVE Contents'
  <2>1. Cmd(f).do \notin Redirections
    <3>1. ~Accepts(Cmd(f)) \/ Cmd(f).do \in Failing
        BY <1>5 DEF Fail, Cmd
    <3> QED
        BY <3>1, RedirectionsFindInput DEF RedirectionsSucceed
  <2>2. UNCHANGED file /\ jobs' = WithoutJob(f) /\ make' = [make EXCEPT !.status = "failed"]
      BY <1>5, <2>1 DEF Fail, Cmd
  <2>3. make'.goals = make.goals
      BY <1>inv, <2>2 DEF MakeShape
  <2>4. \A g \in DOMAIN jobs' : g \in DOMAIN jobs /\ jobs'[g] = jobs[g]
      BY <2>2 DEF WithoutJob
  <2> QED
      BY <2>2, <2>3, <2>4, KeepContents
<1>6. CASE Finish
  <2>1. UNCHANGED file /\ DOMAIN jobs' = {}
      BY <1>6, NoJobs DEF Finish
  <2> QED
      BY <2>1, KeepContents
<1>7. CASE Interrupt
  <2>1. /\ DOMAIN file' \subseteq DOMAIN file /\ \A f \in DOMAIN file' : file'[f] = file[f]
        /\ DOMAIN jobs' = {}
      BY <1>7, NoJobs DEF Interrupt
  <2> QED
      BY <2>1, KeepContents
<1>8. CASE EditScript \/ UNCHANGED makevars
  <2>1. UNCHANGED <<file, jobs, make>>
      BY <1>8 DEF EditScript, makevars
  <2> QED
      BY <2>1, KeepContents
<1>9. ASSUME NEW t \in Targets, Recompile(t) PROVE Contents'
  <2>1. /\ DOMAIN jobs' = {}
        /\ \A f \in DOMAIN file' : f = Exe(t) \/ (f \in DOMAIN file /\ file'[f] = file[f])
    <3>1. ~Running /\ jobs' = jobs
        BY <1>9 DEF Recompile
    <3>2. \A f \in DOMAIN file' : f = Exe(t) \/ (f \in DOMAIN file /\ file'[f] = file[f])
        BY <1>9 DEF Recompile, Exe
    <3> QED
        BY <1>inv, <3>1, <3>2 DEF MakeShape
  <2>2. \A f \in DOMAIN file' : IsText(f, file'[f].text)
    <3>1. \A text : IsText(Exe(t), text)
        BY Names DEF IsText
    <3> QED
        BY <2>1, <3>1 DEF Contents
  <2> QED
      BY <2>1, <2>2 DEF Contents, IsText
<1>10. CASE NoRule
  <2>1. UNCHANGED <<file, jobs>> /\ make'.goals = make.goals
      BY <1>10, <1>inv DEF NoRule, MakeShape
  <2> QED
      BY <2>1, KeepContents
<1> QED
    BY <1>1, <1>2, <1>3, <1>4, <1>5, <1>6, <1>7, <1>8, <1>9, <1>10 DEF MakeNext

\* Every design that the scripts make of the pickled design, and do not
\* refuse, is well formed.
DesignsAreWellFormed ==
    \A t \in Targets : \A text \in DesignTexts(t) : WellFormed(t, [text |-> text, by |-> t])

\* When make succeeds, its designs have the texts of builds that were left
\* alone, but for the attributes that insert_blackbox_attrs.py may have failed
\* to add, whatever was interrupted or failed before: the scratch files that
\* a stopped recipe leaves behind (build/tmp.sv, generated/interm.sv) never
\* get into a later design.  They are well formed if the scripts' designs are.
THEOREM MadeIsAlwaysWellFormed ==
    ASSUME OneInstrumentedAtATime, RedirectionsSucceed, DesignsAreWellFormed
    PROVE  MakeSpec => []MadeIsWellFormed
<1>1. MakeInit => MakeInv /\ Contents
  <2> SUFFICES ASSUME MakeInit PROVE Contents
      BY MakeInitInv
  <2>1. /\ file = [f \in {PickledSv} |-> [text |-> Pickled, by |-> "vanilla", script |-> 0]]
        /\ DOMAIN jobs = {}
      BY NoJobs DEF MakeInit, PickledSv
  <2>2. IsText(PickledSv, Pickled)
      BY Names DEF IsText
  <2> QED
      BY <2>1, <2>2 DEF Contents
<1>2. MakeInv /\ Contents /\ [MakeNext]_makevars => (MakeInv /\ Contents)'
  <2>1. ASSUME MakeInv, Contents, MakeNext \/ UNCHANGED makevars PROVE MakeInv' /\ Contents'
      BY <2>1, MakeNextInv, NextContents
  <2> QED
      BY <2>1
<1>3. MakeInv /\ Contents => MadeIsWellFormed
  <2> SUFFICES ASSUME MakeInv, Contents, make.status = "made", NEW t \in make.goals
               PROVE  WellFormed(t, file[Design(t)])
      BY DEF MadeIsWellFormed, Design
  <2> DEFINE text == file[Design(t)].text
  <2>1. t \in Targets /\ Design(t) \in DOMAIN file
      BY DEF MakeInv, MakeTypes, MakeShape, DesignsExist
  <2>2. file[Design(t)].by = t
      BY <2>1 DEF MakeInv, Instrumentation, IsBy
  <2>3. text \in DesignTexts(t)
      BY <2>1 DEF Contents, IsText
  <2>4. WellFormed(t, [text |-> text, by |-> t])
      BY <2>1, <2>3 DEF DesignsAreWellFormed
  <2> QED
      BY <2>2, <2>4 DEF WellFormed
<1> QED
    BY <1>1, <1>2, <1>3, PTL DEF MakeSpec

=============================================================================
