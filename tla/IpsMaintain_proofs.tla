------------------------- MODULE IpsMaintain_proofs -------------------------
(***************************************************************************)
(* The maintenance commands, for any list of IPs, any tags, either Python, *)
(* and any number of commands, commits and actions of the user.            *)
(***************************************************************************)
EXTENDS IpsMaintain, SequenceTheorems, TLAPS

(***************************************************************************)
(* The list of IPs, and the fields of a command                            *)
(***************************************************************************)

\* A position of the loop is a position of the list.
LEMMA ListPositions ==
    /\ Len(IpList) \in Nat
    /\ DOMAIN IpList = 1..Len(IpList)
    /\ \A m \in 1..Len(IpList) : IpList[m] \in Ips
    /\ \A m, n \in 1..Len(IpList) : IpList[m] = IpList[n] => m = n
<1>1. IpList \in Seq(Ips)
    BY ConstantsAssumption
<1>2. Len(IpList) \in Nat /\ DOMAIN IpList = 1..Len(IpList)
    BY <1>1
<1> QED
    BY <1>2, ConstantsAssumption DEF Ips

\* The IPs whose turn has been.
DoneIps == {IpList[m] : m \in 1..(k - 1)}

\* The IP whose turn it is is in the list and has not had its turn.
LEMMA CurrentIp ==
    ASSUME k \in 1..(Len(IpList) + 1), k <= Len(IpList)
    PROVE  ip \in Ips /\ ip \notin DoneIps
<1>1. k \in 1..Len(IpList)
    BY ListPositions
<1>2. \A m \in 1..(k - 1) : m \in 1..Len(IpList) /\ m # k
    BY <1>1, ListPositions
<1>3. IpList[k] \in Ips
    BY <1>1, ListPositions
<1>4. \A m \in 1..(k - 1) : IpList[m] # IpList[k]
    BY <1>1, <1>2, ListPositions
<1> QED
    BY <1>3, <1>4 DEF ip, DoneIps

\* Its turn over, it is one of those whose turn has been.
LEMMA TurnOver ==
    ASSUME k \in 1..(Len(IpList) + 1), k' = k + 1
    PROVE  DoneIps' = DoneIps \cup {ip}
<1>1. 1..(k' - 1) = (1..(k - 1)) \cup {k}
    BY ListPositions
<1> QED
    BY <1>1 DEF DoneIps, ip

\* After the loop every IP has had its turn.
LEMMA AllDone ==
    ASSUME k \in 1..(Len(IpList) + 1), k > Len(IpList)
    PROVE  DoneIps = Ips
<1>1. k - 1 = Len(IpList)
    BY ListPositions
<1> QED
    BY <1>1, ListPositions DEF DoneIps, Ips

\* Before the loop none has.
LEMMA NoneDone ==
    ASSUME k = 1
    PROVE  DoneIps = {}
<1>1. 1..(k - 1) = {}
    OBVIOUS
<1> QED
    BY <1>1 DEF DoneIps

\* A command has the options of its kind.
LEMMA CommandFields ==
    ASSUME NEW c \in Commands
    PROVE  /\ c.op \in {"diff", "remove", "tag", "push", "delete", "latest"}
           /\ c.op = "remove" => c.skip_check \in BOOLEAN
           /\ c.op = "tag" => c.tag \in Tags /\ c.always \in BOOLEAN /\ c.store \in BOOLEAN
           /\ c.op = "delete" => c.tag \in Tags
BY DEF Commands

(***************************************************************************)
(* Types                                                                   *)
(***************************************************************************)

\* The phase belongs to the command, and an ended command leaves nothing.
Phases ==
    /\ pc # "idle" => pc = cmd.op \/ (pc = "diff" /\ cmd.op = "remove")
    /\ pc = "idle" => k = 1 /\ changed = {} /\ new_ips = <<>>

TypeInv == TypeOK /\ Phases

\* An ended command has the types, and the phase "idle".
LEMMA ExitTypes ==
    ASSUME NEW reason \in Exits, Exit(reason)
    PROVE  /\ pc' = "idle" /\ exit' \in Exits
           /\ k' \in 1..(Len(IpList) + 1) /\ changed' \subseteq Ips /\ new_ips' \in Seq(NewEntry)
           /\ Phases'
<1>1. 1 \in 1..(Len(IpList) + 1)
    BY ListPositions
<1> QED
    BY <1>1 DEF Exit, Phases

\* So has a step to the next IP.
LEMMA NextIpTypes ==
    ASSUME TypeOK, k <= Len(IpList), NextIp, pc # "idle", Phases
    PROVE  /\ k' \in 1..(Len(IpList) + 1) /\ Phases'
           /\ python' = python /\ cmd' = cmd /\ pc' = pc /\ exit' = exit /\ touched' = touched
           /\ stored' = stored /\ adopted' = adopted /\ user' = user /\ runs' = runs
<1>1. k + 1 \in 1..(Len(IpList) + 1)
    BY ListPositions DEF TypeOK
<1> QED
    BY <1>1 DEF NextIp, Phases, files, bounds

\* The working copies the user can make of one.
LEMMA WorkedTypes ==
    ASSUME TypeOK, NEW i \in Ips, Present(i)
    PROVE  Worked(i) \subseteq WorkingCopy \cup {None}
<1> DEFINE d == dir[i]
<1>1. d \in WorkingCopy /\ d.head \in 1..MaxCommit
    BY DEF TypeOK, Present, WorkingCopy, Commits
<1>2. [d EXCEPT !.unstaged = TRUE] \in WorkingCopy
    BY <1>1 DEF WorkingCopy
<1>3. [d EXCEPT !.staged = TRUE, !.unstaged = FALSE] \in WorkingCopy
    BY <1>1 DEF WorkingCopy
<1>4. ASSUME d.head < MaxCommit PROVE Clean(d.head + 1) \in WorkingCopy
  <2>1. d.head + 1 \in 1..MaxCommit
      BY <1>1, <1>4, ConstantsAssumption
  <2> QED
      BY <2>1 DEF Clean, WorkingCopy, Commits
<1>5. ASSUME d.head > 1 PROVE [d EXCEPT !.head = @ - 1] \in WorkingCopy
  <2>1. d.head - 1 \in 1..MaxCommit
      BY <1>1, <1>5, ConstantsAssumption
  <2> QED
      BY <1>1, <2>1 DEF WorkingCopy, Commits
<1> HIDE DEF d
<1>6. Worked(i) \subseteq {[d EXCEPT !.unstaged = TRUE], None}
             \cup {[d EXCEPT !.staged = TRUE, !.unstaged = FALSE]}
             \cup (IF d.head < MaxCommit THEN {Clean(d.head + 1)} ELSE {})
             \cup (IF d.head > 1 THEN {[d EXCEPT !.head = @ - 1]} ELSE {})
    BY Zenon DEF Worked, d
<1> QED
    BY <1>2, <1>3, <1>4, <1>5, <1>6

\* Initially the types hold.
LEMMA InitTypes == Init => TypeInv
<1> SUFFICES ASSUME Init PROVE TypeInv
    OBVIOUS
<1>1. Clean(1) \in WorkingCopy /\ 1 \in Commits /\ 0 \in 0..MaxCommit
    BY ConstantsAssumption DEF Clean, WorkingCopy, Commits
<1>2. cmd \in Commands
    BY DEF Init, Commands
<1>3. 1 \in 1..(Len(IpList) + 1)
    BY ListPositions
<1>4. 0 \in 0..MaxUser /\ 0 \in 0..MaxRuns
    BY ConstantsAssumption
<1>5. TypeOK
  <2>1. /\ dir \in [Ips -> WorkingCopy \cup {None}] /\ remote \in [Ips -> Commits]
        /\ tags \in [Ips -> [Tags -> 0..MaxCommit]]
        /\ remote_tags \in [Ips -> [Tags -> 0..MaxCommit]]
      BY <1>1 DEF Init
  <2>2. new_ips \in Seq(NewEntry)
      BY DEF Init
  <2> QED
      BY <1>2, <1>3, <1>4, <2>1, <2>2 DEF Init, TypeOK, Exits
<1>6. Phases
    BY DEF Init, Phases
<1> QED
    BY <1>5, <1>6 DEF TypeInv

\* An IP that is collected makes an entry of the new list.
LEMMA CollectTypes ==
    ASSUME TypeOK, NEW c \in Tags \cup Commits, ip \in Ips, Collect(c)
    PROVE  new_ips' \in Seq(NewEntry)
<1>1. [ip |-> ip, commit |-> c] \in NewEntry
    BY DEF NewEntry
<1> QED
    BY <1>1 DEF TypeOK, Collect


\* Setting one tag of one IP.
LEMMA SetTag ==
    ASSUME NEW f \in [Ips -> [Tags -> 0..MaxCommit]], NEW i \in Ips, NEW t \in Tags,
           NEW c \in 0..MaxCommit
    PROVE  /\ [f EXCEPT ![i][t] = c] \in [Ips -> [Tags -> 0..MaxCommit]]
           /\ [f EXCEPT ![i][t] = c][i][t] = c
           /\ \A u \in Tags : u # t => [f EXCEPT ![i][t] = c][i][u] = f[i][u]
           /\ \A j \in Ips : j # i => [f EXCEPT ![i][t] = c][j] = f[j]
OBVIOUS

\* The command at an IP whose turn it is: where it stands in the types.
LEMMA TurnTypes ==
    ASSUME TypeInv, NEW phase, AtIp(phase), phase # "idle"
    PROVE  /\ ip \in Ips /\ pc = phase /\ k <= Len(IpList)
           /\ Present(ip) => dir[ip] \in WorkingCopy /\ dir[ip].head \in Commits
           /\ phase = "tag" => cmd.op = "tag" /\ cmd.tag \in Tags
           /\ phase = "delete" => cmd.tag \in Tags
<1>1. ip \in Ips
    BY CurrentIp DEF TypeInv, TypeOK, AtIp
<1>2. Present(ip) => dir[ip] \in WorkingCopy /\ dir[ip].head \in Commits
    BY <1>1 DEF TypeInv, TypeOK, Present, WorkingCopy
<1>3. cmd \in Commands /\ (phase \in {"tag", "delete"} => cmd.op = phase)
    BY DEF TypeInv, TypeOK, Phases, AtIp
<1> QED
    BY <1>1, <1>2, <1>3, CommandFields DEF AtIp

\* A new command has the types.
LEMMA StartTypes == TypeInv /\ Start => TypeInv'
<1> SUFFICES ASSUME TypeInv, Start PROVE TypeInv'
    OBVIOUS
<1>1. runs' \in 0..MaxRuns
    BY ConstantsAssumption DEF TypeInv, TypeOK, Start
<1>2. cmd' \in Commands /\ cmd'.op \in {"diff", "remove", "tag", "push", "delete", "latest"}
    BY CommandFields DEF Start
<1>3. /\ pc' \in {"idle", "diff", "remove", "tag", "push", "delete", "latest"}
      /\ exit' \in Exits
      /\ pc' # "idle" => pc' = cmd'.op \/ (pc' = "diff" /\ cmd'.op = "remove")
    BY <1>2 DEF Start, LoadIpsList, Exits
<1>4. k' = k /\ k = 1 /\ changed' = {} /\ new_ips' = <<>>
    BY DEF Start, TypeInv, Phases
<1>5. TypeOK'
    BY <1>1, <1>2, <1>3, <1>4 DEF TypeInv, TypeOK, Start, git, files
<1>6. Phases'
    BY <1>3, <1>4 DEF Phases
<1> QED
    BY <1>5, <1>6 DEF TypeInv

\* What the user does keeps the types.
LEMMA UserTypes == TypeInv /\ UserStep => TypeInv'
<1> SUFFICES ASSUME TypeInv, UserStep PROVE TypeInv'
    OBVIOUS
<1>1. ASSUME NEW i \in Ips, UserActs(i)
      PROVE  /\ user' \in 0..MaxUser /\ runs' \in 0..MaxRuns
             /\ touched' \subseteq Ips /\ warned' \subseteq Ips /\ agreed' \subseteq Ips
             /\ remote_tags' = remote_tags /\ python' = python /\ cmd' = cmd /\ pc' = pc /\ k' = k
             /\ changed' = changed /\ new_ips' = new_ips /\ stored' = stored /\ exit' = exit
             /\ Phases'
  <2>1. user' \in 0..MaxUser
      BY <1>1, ConstantsAssumption DEF TypeInv, TypeOK, UserActs
  <2> QED
      BY <1>1, <2>1 DEF TypeInv, TypeOK, UserActs, Phases
<1>2. CASE UserAdopts
  <2>1. PICK i \in Ips : UserActs(i)
      BY <1>2 DEF UserAdopts
  <2> QED
      BY <1>1, <1>2, <2>1 DEF UserAdopts, TypeInv, TypeOK
<1>3. ASSUME NEW i \in Ips, UserWorks(i) PROVE TypeInv'
  <2>1. PICK d \in WorkingCopy \cup {None} : dir' = [dir EXCEPT ![i] = d]
      BY <1>3, WorkedTypes DEF UserWorks, TypeInv
  <2>2. dir' \in [Ips -> WorkingCopy \cup {None}]
      BY <2>1 DEF TypeInv, TypeOK
  <2>3. tags' \in [Ips -> [Tags -> 0..MaxCommit]]
    <3>1. [t \in Tags |-> 0] \in [Tags -> 0..MaxCommit]
        BY ConstantsAssumption
    <3> QED
        BY <1>3, <3>1 DEF UserWorks, TypeInv, TypeOK
  <2>4. UserActs(i)
      BY <1>3 DEF UserWorks
  <2> QED
      BY <1>1, <1>3, <2>2, <2>3, <2>4 DEF UserWorks, TypeInv, TypeOK
<1>4. ASSUME NEW i \in Ips, UserPushes(i) PROVE TypeInv'
  <2>1. dir[i].head \in Commits
      BY <1>4 DEF UserPushes, Present, TypeInv, TypeOK, WorkingCopy
  <2>2. remote' \in [Ips -> Commits]
      BY <1>4, <2>1 DEF UserPushes, TypeInv, TypeOK
  <2>3. UserActs(i)
      BY <1>4 DEF UserPushes
  <2> QED
      BY <1>1, <1>4, <2>2, <2>3 DEF UserPushes, TypeInv, TypeOK
<1>5. ASSUME NEW i \in Ips, UserDownloads(i) PROVE TypeInv'
  <2>1. Clean(remote[i]) \in WorkingCopy /\ remote_tags[i] \in [Tags -> 0..MaxCommit]
      BY DEF TypeInv, TypeOK, Clean, WorkingCopy
  <2>2. dir' \in [Ips -> WorkingCopy \cup {None}]
      BY <1>5, <2>1 DEF UserDownloads, TypeInv, TypeOK
  <2>3. tags' \in [Ips -> [Tags -> 0..MaxCommit]]
      BY <1>5, <2>1 DEF UserDownloads, TypeInv, TypeOK
  <2>4. UserActs(i) /\ ips_dir' = TRUE
      BY <1>5 DEF UserDownloads
  <2> QED
      BY <1>1, <1>5, <2>2, <2>3, <2>4 DEF UserDownloads, TypeInv, TypeOK
<1> QED
    BY <1>2, <1>3, <1>4, <1>5 DEF UserStep

\* So does a step of a command.
LEMMA ToolTypes == TypeInv /\ ToolStep => TypeInv'
<1> SUFFICES ASSUME TypeInv, ToolStep PROVE TypeInv'
    OBVIOUS
<1> USE DEF TypeInv
<1> DEFINE Rest == UNCHANGED <<git, python, cmd, files, history, bounds>>
<1>1. ASSUME NEW reason \in Exits, Exit(reason), Rest PROVE TypeInv'
    BY <1>1, ExitTypes DEF TypeOK, git, files, history, bounds
<1>2. CASE SplitRaises
    BY <1>1, <1>2 DEF SplitRaises, Exits
<1>3. CASE ChdirRaises
    BY <1>1, <1>3 DEF ChdirRaises, Exits
<1>4. CASE PushDone
    BY <1>1, <1>4 DEF PushDone, Exits
<1>5. CASE DiffIp
  <2>1. ip \in Ips /\ pc = "diff" /\ k <= Len(IpList)
      BY <1>5, TurnTypes DEF DiffIp
  <2>2. changed' \subseteq Ips
      BY <1>5, <2>1 DEF DiffIp, TypeOK
  <2> QED
      BY <1>5, <2>1, <2>2, NextIpTypes DEF DiffIp, TypeOK, git
<1>6. CASE DiffDone
  <2>1. CASE \E reason \in Exits : Exit(reason)
      BY <1>1, <1>6, <2>1 DEF DiffDone
  <2>2. CASE cmd.op = "remove" /\ pc' = "remove" /\ k' = 1 /\ UNCHANGED <<changed, new_ips, exit>>
    <3>1. 1 \in 1..(Len(IpList) + 1)
        BY ListPositions
    <3> QED
        BY <1>6, <2>2, <3>1 DEF DiffDone, TypeOK, Phases, git, files, history, bounds
  <2> QED
      BY <1>6, <2>1, <2>2 DEF DiffDone, Exits
<1>7. CASE RemoveIp
  <2>1. ip \in Ips /\ pc = "remove" /\ k <= Len(IpList)
      BY <1>7, TurnTypes DEF RemoveIp
  <2>2. [t \in Tags |-> 0] \in [Tags -> 0..MaxCommit]
      BY ConstantsAssumption
  <2>3. dir' \in [Ips -> WorkingCopy \cup {None}] /\ tags' \in [Ips -> [Tags -> 0..MaxCommit]]
      BY <1>7, <2>1, <2>2 DEF RemoveIp, TypeOK
  <2> QED
      BY <1>7, <2>1, <2>3, NextIpTypes DEF RemoveIp, TypeOK
<1>8. CASE RemoveDone
  <2>1. ips_dir' \in BOOLEAN
      BY <1>8, ConstantsAssumption DEF RemoveDone
  <2>2. "ok" \in Exits
      BY DEF Exits
  <2> QED
      BY <1>8, <2>1, <2>2, ExitTypes DEF RemoveDone, TypeOK, files, history, bounds
<1>9. CASE SkipOrDie
  <2>1. pc # "idle" /\ k <= Len(IpList)
      BY <1>9 DEF SkipOrDie, AtIp
  <2>2. CASE Exit("changes") /\ UNCHANGED <<python, cmd, files, touched, bounds>>
      BY <1>1, <1>9, <2>2 DEF SkipOrDie, Exits, history
  <2>3. CASE NextIp /\ UNCHANGED <<changed, new_ips>>
      BY <1>9, <2>1, <2>3, NextIpTypes DEF SkipOrDie, TypeOK, git
  <2> QED
      BY <1>9, <2>2, <2>3 DEF SkipOrDie
<1>10. CASE KeepTag
  <2>1. ip \in Ips /\ pc = "tag" /\ k <= Len(IpList)
      BY <1>10, TurnTypes DEF KeepTag, CleanIp
  <2>2. Describe(ip) \in Tags
      BY <1>10 DEF KeepTag, NeedsTag, Reached
  <2>3. new_ips' \in Seq(NewEntry)
      BY <1>10, <2>1, <2>2, CollectTypes DEF KeepTag
  <2> QED
      BY <1>10, <2>1, <2>3, NextIpTypes DEF KeepTag, TypeOK, git
<1>11. CASE CreateTag
  <2>1. ip \in Ips /\ pc = "tag" /\ k <= Len(IpList) /\ cmd.tag \in Tags /\ dir[ip].head \in Commits
      BY <1>11, TurnTypes DEF CreateTag, CleanIp
  <2>2. new_ips' \in Seq(NewEntry)
      BY <1>11, <2>1, CollectTypes DEF CreateTag
  <2>3. dir[ip].head \in 0..MaxCommit
      BY <2>1, ConstantsAssumption DEF Commits
  <2>4. tags' \in [Ips -> [Tags -> 0..MaxCommit]] /\ agreed' \subseteq Ips /\ warned' \subseteq Ips
    <3>1. tags' = tags \/ tags' = [tags EXCEPT ![ip][cmd.tag] = dir[ip].head]
        BY <1>11 DEF CreateTag
    <3>2. tags' \in [Ips -> [Tags -> 0..MaxCommit]]
      <4>1. PICK i \in Ips, t \in Tags, c \in 0..MaxCommit :
               i = ip /\ t = cmd.tag /\ c = dir[ip].head
          BY <2>1, <2>3
      <4>2. tags \in [Ips -> [Tags -> 0..MaxCommit]]
          BY DEF TypeOK
      <4>3. [tags EXCEPT ![i][t] = c] \in [Ips -> [Tags -> 0..MaxCommit]]
          BY <4>2, SetTag
      <4>4. tags' = tags \/ tags' = [tags EXCEPT ![i][t] = c]
          BY <3>1, <4>1
      <4> QED
          BY <4>2, <4>3, <4>4
    <3> QED
        BY <1>11, <2>1, <3>2 DEF CreateTag, TypeOK
  <2> QED
      BY <1>11, <2>1, <2>2, <2>4, NextIpTypes DEF CreateTag, TypeOK
<1>12. CASE TagDone
  <2>1. "ok" \in Exits
      BY DEF Exits
  <2>2. Collected \subseteq Ips
    <3>1. \A n \in DOMAIN new_ips : new_ips[n] \in NewEntry
        BY DEF TypeOK
    <3> QED
        BY <3>1 DEF Collected, NewEntry
  <2>3. stored' \in Seq(NewEntry) \cup {None} /\ agreed' \subseteq Ips
      BY <1>12, <2>2 DEF TagDone, TypeOK
  <2> QED
      BY <1>12, <2>1, <2>3, ExitTypes DEF TagDone, TypeOK, git, bounds
<1>13. CASE PushTag
  <2>1. ip \in Ips /\ pc = "push" /\ k <= Len(IpList)
      BY <1>13, TurnTypes DEF PushTag
  <2>2. remote_tags' \in [Ips -> [Tags -> 0..MaxCommit]]
    <3>1. CASE UNCHANGED remote_tags
        BY <3>1 DEF TypeOK
    <3>2. CASE CanPush(ip, PushedTag(ip))
               /\ remote_tags' = [remote_tags EXCEPT ![ip][PushedTag(ip)] = tags[ip][PushedTag(ip)]]
      <4>1. PICK t \in Tags : t = PushedTag(ip)
          BY <3>2 DEF CanPush
      <4>2. tags[ip][t] \in 0..MaxCommit
          BY <2>1 DEF TypeOK
      <4> QED
          BY <2>1, <3>2, <4>1, <4>2, SetTag DEF TypeOK
    <3> QED
        BY <1>13, <3>1, <3>2 DEF PushTag
  <2> QED
      BY <1>13, <2>1, <2>2, NextIpTypes DEF PushTag, TypeOK
<1>14. CASE DeleteTag
  <2>1. ip \in Ips /\ pc = "delete" /\ k <= Len(IpList) /\ cmd.tag \in Tags
      BY <1>14, TurnTypes DEF DeleteTag
  <2>2. tags' \in [Ips -> [Tags -> 0..MaxCommit]]
      BY <1>14, <2>1, ConstantsAssumption DEF DeleteTag, TypeOK
  <2> QED
      BY <1>14, <2>1, <2>2, NextIpTypes DEF DeleteTag, TypeOK
<1>15. CASE LatestIp
  <2>1. ip \in Ips /\ pc = "latest" /\ k <= Len(IpList) /\ dir[ip].head \in Commits
      BY <1>15, TurnTypes DEF LatestIp, CleanIp
  <2>2. new_ips' \in Seq(NewEntry)
      BY <1>15, <2>1, CollectTypes DEF LatestIp
  <2> QED
      BY <1>15, <2>1, <2>2, NextIpTypes DEF LatestIp, TypeOK, git
<1>16. CASE LatestDone
  <2>1. "ok" \in Exits
      BY DEF Exits
  <2> QED
      BY <1>16, <2>1, ExitTypes DEF LatestDone, TypeOK, git, bounds
<1> QED
    BY <1>2, <1>3, <1>4, <1>5, <1>6, <1>7, <1>8, <1>9, <1>10, <1>11, <1>12, <1>13, <1>14,
       <1>15, <1>16 DEF ToolStep

\* TypeInv is inductive.
LEMMA NextTypes == TypeInv /\ [Next]_vars => TypeInv'
<1>1. TypeInv /\ UNCHANGED vars => TypeInv'
    BY DEF TypeInv, TypeOK, Phases, vars, git, files, history, bounds
<1> QED
    BY <1>1, StartTypes, ToolTypes, UserTypes DEF Next

\* Working copies, tags, lists and positions keep their types.
THEOREM TypeCorrect == Spec => []TypeOK
<1>1. Spec => []TypeInv
    BY InitTypes, NextTypes, PTL DEF Spec
<1>2. TypeInv => TypeOK
    BY DEF TypeInv
<1> QED
    BY <1>1, <1>2, PTL

(***************************************************************************)
(* remove_ips                                                              *)
(***************************************************************************)

Tidy(i) == Present(i) => ~Changed(i)
Kept(i) == dir'[i] = dir[i] /\ tags'[i] = tags[i]

\* What diff_ips knows of the IPs it has looked at, and remove_ips of all of
\* them: of an IP that the user has left alone, whether it has changes.
Diffed ==
    /\ pc = "diff" => \A i \in DoneIps : i \in touched \cup changed \/ Tidy(i)
    /\ pc = "remove" /\ ~cmd.skip_check => \A i \in Ips \ touched : Tidy(i)

\* A working copy that is kept is as tidy as before, has the same newest tag,
\* and is reproduced by the same entries.
LEMMA KeptCopy ==
    ASSUME NEW i, Kept(i)
    PROVE  /\ Present(i)' = Present(i)
           /\ Tidy(i)' = Tidy(i)
           /\ Describe(i)' = Describe(i)
           /\ \A e : e.ip = i => Reproduces(e)' = Reproduces(e)
<1>1. Present(i)' = Present(i) /\ Tidy(i)' = Tidy(i)
    BY DEF Kept, Tidy, Present, Changed
<1>2. Reached(i)' = Reached(i)
    BY DEF Kept, Reached
<1>3. Describe(i)' = Describe(i)
    BY <1>2 DEF Kept, Describe
<1>4. ASSUME NEW e, e.ip = i PROVE Reproduces(e)' = Reproduces(e)
    BY <1>4 DEF Kept, Reproduces, Present, Changed, Resolves
<1> QED
    BY <1>1, <1>3, <1>4

\* The user works in one IP; the others are kept.
LEMMA UserKeeps ==
    ASSUME TypeInv, UserStep
    PROVE  \E i \in Ips : UserActs(i) /\ \A j \in Ips \ {i} : Kept(j)
<1>1. CASE UserAdopts
    BY <1>1 DEF UserAdopts, Kept
<1>2. ASSUME NEW i \in Ips, UserWorks(i) \/ UserPushes(i) \/ UserDownloads(i)
      PROVE  UserActs(i) /\ \A j \in Ips \ {i} : Kept(j)
  <2>1. UserActs(i)
      BY <1>2 DEF UserWorks, UserPushes, UserDownloads
  <2>2. ASSUME NEW j \in Ips \ {i} PROVE dir'[j] = dir[j]
      BY <1>2 DEF UserWorks, UserPushes, UserDownloads, TypeInv, TypeOK
  <2>3. ASSUME NEW j \in Ips \ {i} PROVE tags'[j] = tags[j]
      BY <1>2 DEF UserWorks, UserPushes, UserDownloads, TypeInv, TypeOK
  <2> QED
      BY <2>1, <2>2, <2>3 DEF Kept
<1> QED
    BY <1>1, <1>2 DEF UserStep

\* IPs whose turn has been are of the list.
LEMMA DoneInList ==
    ASSUME TypeOK
    PROVE  DoneIps \subseteq Ips
<1>1. \A m \in 1..(k - 1) : m \in 1..Len(IpList)
    BY ListPositions DEF TypeOK
<1> QED
    BY <1>1, ListPositions DEF DoneIps

\* The user cannot invalidate it: what he changes he has touched.
LEMMA UserDiffed == TypeInv /\ Diffed /\ UserStep => Diffed'
<1> SUFFICES ASSUME TypeInv, Diffed, UserStep PROVE Diffed'
    OBVIOUS
<1>1. PICK i \in Ips : UserActs(i) /\ \A j \in Ips \ {i} : Kept(j)
    BY UserKeeps
<1>2. /\ pc' = pc /\ cmd' = cmd /\ k' = k /\ changed' = changed
      /\ touched' = touched \cup {i}
    BY <1>1 DEF UserActs
<1>3. DoneIps' = DoneIps /\ DoneIps \subseteq Ips
    BY <1>2, DoneInList DEF DoneIps, TypeInv
<1>4. \A j \in Ips : j \notin touched' => Tidy(j)' = Tidy(j)
    BY <1>1, <1>2, KeptCopy
<1> QED
    BY <1>2, <1>3, <1>4 DEF Diffed

\* The commands keep it.
LEMMA ToolDiffed == TypeInv /\ Diffed /\ ToolStep => Diffed'
<1> SUFFICES ASSUME TypeInv, Diffed, ToolStep PROVE Diffed'
    OBVIOUS
<1>1. ASSUME pc' \notin {"diff", "remove"} PROVE Diffed'
    BY <1>1 DEF Diffed
<1>2. CASE DiffIp
  <2>1. pc = "diff" /\ pc' = "diff" /\ k' = k + 1 /\ touched' = touched
      BY <1>2 DEF DiffIp, AtIp, NextIp
  <2>2. DoneIps' = DoneIps \cup {ip}
      BY <2>1, TurnOver DEF TypeInv, TypeOK
  <2>3. \A i : Tidy(i)' = Tidy(i)
    <3>1. dir' = dir
        BY <1>2 DEF DiffIp, git
    <3> QED
        BY <3>1 DEF Tidy, Present, Changed
  <2>4. changed \subseteq changed' /\ (ip \in changed' \/ Tidy(ip))
      BY <1>2 DEF DiffIp, Tidy
  <2> QED
      BY <2>1, <2>2, <2>3, <2>4 DEF Diffed
<1>3. CASE DiffDone
  <2>1. CASE pc' = "remove" /\ (cmd.skip_check \/ changed = {})
    <3>1. DoneIps = Ips /\ pc = "diff" /\ dir' = dir /\ cmd' = cmd /\ touched' = touched
        BY <1>3, AllDone DEF DiffDone, LoopDone, TypeInv, TypeOK, git, history
    <3>2. \A i : Tidy(i)' = Tidy(i)
        BY <3>1 DEF Tidy, Present, Changed
    <3> QED
        BY <2>1, <3>1, <3>2 DEF Diffed
  <2> QED
      BY <1>1, <1>3, <2>1 DEF DiffDone, Exit
<1>4. CASE RemoveIp
  <2>1. pc = "remove" /\ pc' = "remove" /\ cmd' = cmd /\ touched' = touched
      BY <1>4 DEF RemoveIp, AtIp, NextIp
  <2>2. \A i \in Ips : Tidy(i) => Tidy(i)'
      BY <1>4 DEF RemoveIp, Tidy, Present, Changed, TypeInv, TypeOK
  <2> QED
      BY <2>1, <2>2 DEF Diffed
<1>5. CASE pc' = "idle" \/ (pc' = pc /\ pc \in {"tag", "push", "delete", "latest"})
    BY <1>1, <1>5
<1>6. CASE SplitRaises \/ ChdirRaises \/ RemoveDone \/ TagDone \/ LatestDone \/ PushDone
    BY <1>5, <1>6 DEF SplitRaises, ChdirRaises, RemoveDone, TagDone, LatestDone, PushDone, Exit
<1>7. CASE SkipOrDie \/ KeepTag \/ CreateTag \/ PushTag \/ DeleteTag \/ LatestIp
    BY <1>5, <1>7 DEF SkipOrDie, KeepTag, CreateTag, PushTag, DeleteTag, LatestIp, CleanIp, AtIp,
                      NextIp, Exit
<1> QED
    BY <1>2, <1>3, <1>4, <1>6, <1>7 DEF ToolStep

\* A command starts with no IP looked at.
LEMMA NextDiffed == TypeInv /\ Diffed /\ [Next]_vars => Diffed'
<1> SUFFICES ASSUME TypeInv, Diffed, [Next]_vars PROVE Diffed'
    OBVIOUS
<1>1. CASE Start
  <2>1. DoneIps' = {}
    <3>1. k' = 1
        BY <1>1 DEF Start, TypeInv, Phases
    <3>2. 1..(k' - 1) = {}
        BY <3>1
    <3> QED
        BY <3>2 DEF DoneIps
  <2>2. pc' # "remove"
      BY <1>1 DEF Start
  <2> QED
      BY <2>1, <2>2 DEF Diffed
<1>2. CASE UNCHANGED vars
    BY <1>2 DEF vars, git, history, Diffed, DoneIps, Tidy, Present, Changed
<1> QED
    BY <1>1, <1>2, UserDiffed, ToolDiffed DEF Next

\* remove_ips without --skip-check removes directories only when no IP has
\* changes, other than those made after it began.
THEOREM AlwaysRemovesOnlyClean == Spec => RemovesOnlyClean
<1>1. Init => Diffed
    BY DEF Init, Diffed
<1>2. Spec => [](TypeInv /\ Diffed)
    BY <1>1, InitTypes, NextTypes, NextDiffed, PTL DEF Spec
<1> DEFINE Step == \A i \in Ips :
          pc = "remove" /\ ~cmd.skip_check /\ Present(i) /\ dir'[i] = None /\ user' = user
          => \A j \in Ips \ touched : Present(j) => ~Changed(j)
<1>3. TypeInv /\ Diffed => Step
    BY DEF Diffed, Tidy
<1>4. Spec => [][Step]_vars
    BY <1>2, <1>3, PTL
<1> QED
    BY <1>4 DEF RemovesOnlyClean

(***************************************************************************)
(* tag_ips and get_latest_ips                                              *)
(***************************************************************************)

\* What a collected entry says of its IP, which has had its turn: HEAD of a
\* copy without changes, and, for tag_ips, by a tag.
GoodEntry(e) ==
    /\ e.ip \in DoneIps
    /\ e.ip \in touched \cup warned \/ Reproduces(e)
    /\ pc = "tag" => e.commit \in Tags
Listing == pc \in {"tag", "latest"} => \A n \in DOMAIN new_ips : GoodEntry(new_ips[n])

\* An entry stays good while its working copy is kept, or once it is excused.
LEMMA EntryStaysGood ==
    ASSUME NEW e, GoodEntry(e), DoneIps \subseteq DoneIps', pc' = pc, cmd' = cmd,
           touched \subseteq touched', warned \subseteq warned',
           Kept(e.ip) \/ e.ip \in touched' \cup warned'
    PROVE  GoodEntry(e)'
<1>1. CASE e.ip \in touched' \cup warned'
    BY <1>1 DEF GoodEntry
<1>2. CASE Kept(e.ip) /\ e.ip \notin touched' \cup warned'
  <2>1. Describe(e.ip)' = Describe(e.ip) /\ Reproduces(e)' = Reproduces(e)
      BY <1>2, KeptCopy
  <2> QED
      BY <1>2, <2>1 DEF GoodEntry
<1> QED
    BY <1>1, <1>2

\* So a list stays good.
LEMMA ListStaysGood ==
    ASSUME Listing, DoneIps \subseteq DoneIps', pc' = pc, cmd' = cmd, new_ips' = new_ips,
           touched \subseteq touched', warned \subseteq warned',
           \A i \in DoneIps : Kept(i) \/ i \in touched' \cup warned'
    PROVE  Listing'
<1> SUFFICES ASSUME pc \in {"tag", "latest"}, NEW n \in DOMAIN new_ips
             PROVE  GoodEntry(new_ips[n])'
    BY DEF Listing
<1>1. PICK e : e = new_ips[n]
    OBVIOUS
<1>2. GoodEntry(e)
    BY <1>1 DEF Listing
<1>3. GoodEntry(e)'
    BY <1>2, EntryStaysGood DEF GoodEntry
<1> QED
    BY <1>1, <1>3

\* The new list is the old one and the entry that is collected.
LEMMA CollectedEntries ==
    ASSUME TypeOK, NEW c, Collect(c), NEW n \in DOMAIN new_ips'
    PROVE  \/ n \in DOMAIN new_ips /\ new_ips'[n] = new_ips[n]
           \/ new_ips'[n] = [ip |-> ip, commit |-> c]
<1> DEFINE e == [ip |-> ip, commit |-> c]
<1>1. new_ips \in Seq(NewEntry) /\ new_ips' = Append(new_ips, e)
    BY DEF TypeOK, Collect
<1> HIDE DEF e
<1>2. Len(new_ips) \in Nat /\ DOMAIN new_ips = 1..Len(new_ips)
    BY <1>1
<1>3. DOMAIN new_ips' = 1..(Len(new_ips) + 1)
    BY <1>1
<1>4. \A m \in 1..Len(new_ips) : new_ips'[m] = new_ips[m]
    BY <1>1, <1>2
<1>5. new_ips'[Len(new_ips) + 1] = e
    BY <1>1, <1>2
<1>6. n \in 1..Len(new_ips) \/ n = Len(new_ips) + 1
    BY <1>2, <1>3
<1> QED
    BY <1>2, <1>4, <1>5, <1>6 DEF e

\* A good list with one more good entry is good.
LEMMA GoodListGrows ==
    ASSUME TypeOK, Listing, NEW c, Collect(c), NextIp, pc \in {"tag", "latest"},
           warned \subseteq warned', \A i \in DoneIps : Kept(i),
           NEW e, e = [ip |-> ip, commit |-> c], GoodEntry(e)'
    PROVE  Listing'
<1>1. /\ pc' = pc /\ cmd' = cmd /\ touched' = touched
      /\ DoneIps \subseteq DoneIps'
    BY TurnOver DEF NextIp, TypeOK
<1> SUFFICES ASSUME NEW n \in DOMAIN new_ips' PROVE GoodEntry(new_ips[n])'
    BY DEF Listing
<1>2. PICK d : d = new_ips'[n]
    OBVIOUS
<1>3. CASE d = [ip |-> ip, commit |-> c]
    BY <1>2, <1>3
<1>4. CASE n \in DOMAIN new_ips /\ d = new_ips[n]
  <2>1. GoodEntry(d)
      BY <1>4 DEF Listing
  <2>2. GoodEntry(d)'
      BY <1>1, <2>1, EntryStaysGood DEF GoodEntry
  <2> QED
      BY <1>2, <2>2
<1> QED
    BY <1>2, <1>3, <1>4, CollectedEntries

\* The user excuses the IP he works in.
LEMMA UserListing == TypeInv /\ Listing /\ UserStep => Listing'
<1> SUFFICES ASSUME TypeInv, Listing, UserStep PROVE Listing'
    OBVIOUS
<1>1. PICK i \in Ips : UserActs(i) /\ \A j \in Ips \ {i} : Kept(j)
    BY UserKeeps
<1>2. /\ pc' = pc /\ cmd' = cmd /\ k' = k /\ new_ips' = new_ips /\ warned' = warned
      /\ touched' = touched \cup {i}
    BY <1>1 DEF UserActs
<1>3. DoneIps' = DoneIps /\ DoneIps \subseteq Ips
    BY <1>2, DoneInList DEF DoneIps, TypeInv
<1> QED
    BY <1>1, <1>2, <1>3, ListStaysGood

\* The commands keep the list good.
LEMMA ToolListing == TypeInv /\ Listing /\ ToolStep => Listing'
<1> SUFFICES ASSUME TypeInv, Listing, ToolStep PROVE Listing'
    OBVIOUS
<1>1. ASSUME pc' \notin {"tag", "latest"} PROVE Listing'
    BY <1>1 DEF Listing
<1>2. CASE SplitRaises \/ ChdirRaises \/ RemoveDone \/ TagDone \/ LatestDone \/ PushDone
    BY <1>1, <1>2 DEF SplitRaises, ChdirRaises, RemoveDone, TagDone, LatestDone, PushDone, Exit
<1>3. CASE DiffIp \/ DiffDone \/ RemoveIp \/ PushTag \/ DeleteTag
    BY <1>1, <1>3 DEF DiffIp, DiffDone, RemoveIp, PushTag, DeleteTag, AtIp, NextIp, Exit
<1>4. CASE SkipOrDie
  <2>1. CASE Exit("changes")
      BY <1>1, <2>1 DEF Exit
  <2>2. CASE NextIp /\ UNCHANGED <<changed, new_ips>>
    <3>1. DoneIps \subseteq DoneIps'
        BY <2>2, TurnOver DEF NextIp, TypeInv, TypeOK
    <3>2. pc' = pc /\ cmd' = cmd /\ touched' = touched /\ warned' = warned /\ \A i : Kept(i)
        BY <1>4, <2>2 DEF SkipOrDie, NextIp, git, Kept
    <3> QED
        BY <2>2, <3>1, <3>2, ListStaysGood
  <2> QED
      BY <1>4, <2>1, <2>2 DEF SkipOrDie
<1>5. ASSUME NEW phase \in {"tag", "latest"}, CleanIp(phase), NextIp, NEW c, Collect(c)
      PROVE  /\ TypeOK /\ pc = phase /\ pc' = phase /\ cmd' = cmd /\ touched' = touched
             /\ ip \in Ips /\ ip \in DoneIps' /\ ip \notin DoneIps /\ DoneIps \subseteq Ips
             /\ Present(ip) /\ ~Changed(ip) /\ dir[ip].head \in Commits
  <2>1. AtIp(phase) /\ phase # "idle" /\ Present(ip) /\ ~Changed(ip)
      BY <1>5 DEF CleanIp
  <2>2. ip \in Ips /\ pc = phase /\ k <= Len(IpList) /\ dir[ip].head \in Commits
      BY <2>1, TurnTypes
  <2>3. ip \notin DoneIps /\ DoneIps \subseteq Ips
      BY <2>2, CurrentIp, DoneInList DEF TypeInv, TypeOK
  <2>4. ip \in DoneIps'
      BY <1>5, TurnOver DEF NextIp, TypeInv, TypeOK
  <2> QED
      BY <1>5, <2>1, <2>2, <2>3, <2>4 DEF NextIp, TypeInv
<1>6. CASE KeepTag
  <2>1. PICK i, c, e : i = ip /\ c = Describe(ip) /\ e = [ip |-> ip, commit |-> c]
      OBVIOUS
  <2>2. Collect(c) /\ NextIp /\ CleanIp("tag")
      BY <1>6, <2>1 DEF KeepTag
  <2>3. /\ TypeOK /\ pc = "tag" /\ pc' = "tag" /\ cmd' = cmd /\ touched' = touched
        /\ i \in DoneIps' /\ Present(i) /\ ~Changed(i)
      BY <1>5, <2>1, <2>2
  <2>4. c \in Tags /\ tags[i][c] = dir[i].head
      BY <1>6, <2>1 DEF KeepTag, NeedsTag, Reached
  <2>5. warned' = warned /\ \A j : Kept(j)
      BY <1>6 DEF KeepTag, git, Kept
  <2>6. e.ip = i /\ e.commit = c
      BY <2>1
  <2>7. Reproduces(e)
      BY <2>3, <2>4, <2>6 DEF Reproduces, Resolves
  <2>8. Reproduces(e)'
      BY <2>1, <2>5, <2>6, <2>7, KeptCopy
  <2>9. GoodEntry(e)'
      BY <2>3, <2>4, <2>6, <2>8 DEF GoodEntry
  <2> QED
      BY <2>1, <2>2, <2>3, <2>5, <2>9, GoodListGrows
<1>7. CASE CreateTag
  <2>1. PICK i, c, e : i = ip /\ c = cmd.tag /\ e = [ip |-> ip, commit |-> c]
      OBVIOUS
  <2>2. Collect(c) /\ NextIp /\ CleanIp("tag")
      BY <1>7, <2>1 DEF CreateTag
  <2>3. /\ TypeOK /\ pc = "tag" /\ pc' = "tag" /\ cmd' = cmd /\ touched' = touched
        /\ i \in Ips /\ i \in DoneIps' /\ i \notin DoneIps /\ DoneIps \subseteq Ips
        /\ Present(i) /\ ~Changed(i) /\ dir[i].head \in Commits
      BY <1>5, <2>1, <2>2
  <2>4. c \in Tags
      BY <2>1, <2>2, TurnTypes DEF CleanIp
  <2>5. dir' = dir
      BY <1>7 DEF CreateTag
  <2>6. e.ip = i /\ e.commit = c
      BY <2>1
  <2>7. CASE tags[i][c] # 0
    <3>1. warned' = warned \cup {i} /\ tags' = tags
        BY <1>7, <2>1, <2>7 DEF CreateTag
    <3>2. \A j : Kept(j)
        BY <2>5, <3>1 DEF Kept
    <3>3. GoodEntry(e)'
        BY <2>3, <2>4, <2>6, <3>1 DEF GoodEntry
    <3> QED
        BY <2>1, <2>2, <2>3, <3>1, <3>2, <3>3, GoodListGrows
  <2>8. CASE tags[i][c] = 0
    <3>1. warned' = warned /\ tags' = [tags EXCEPT ![i][c] = dir[i].head]
        BY <1>7, <2>1, <2>8 DEF CreateTag
    <3>2. tags'[i][c] = dir[i].head /\ \A j \in Ips : j # i => tags'[j] = tags[j]
      <4>1. tags \in [Ips -> [Tags -> 0..MaxCommit]] /\ dir[i].head \in 0..MaxCommit
          BY <2>3, ConstantsAssumption DEF TypeOK, Commits
      <4> QED
          BY <2>3, <2>4, <3>1, <4>1, SetTag
    <3>3. \A j \in DoneIps : Kept(j)
        BY <2>3, <2>5, <3>2 DEF Kept
    <3>4. Reproduces(e)'
        BY <2>3, <2>4, <2>5, <2>6, <3>2 DEF Reproduces, Resolves, Present, Changed
    <3>5. GoodEntry(e)'
        BY <2>3, <2>4, <2>6, <3>4 DEF GoodEntry
    <3> QED
        BY <2>1, <2>2, <2>3, <3>1, <3>3, <3>5, GoodListGrows
  <2> QED
      BY <2>7, <2>8
<1>8. CASE LatestIp
  <2>1. PICK i, c, e : i = ip /\ c = dir[ip].head /\ e = [ip |-> ip, commit |-> c]
      OBVIOUS
  <2>2. Collect(c) /\ NextIp /\ CleanIp("latest")
      BY <1>8, <2>1 DEF LatestIp
  <2>3. /\ TypeOK /\ pc = "latest" /\ pc' = "latest" /\ i \in DoneIps'
        /\ Present(i) /\ ~Changed(i) /\ c \in Commits
      BY <1>5, <2>1, <2>2
  <2>4. c \notin Tags
      BY <2>3, ConstantsAssumption DEF Commits
  <2>5. warned' = warned /\ \A j : Kept(j)
      BY <1>8 DEF LatestIp, git, Kept
  <2>6. e.ip = i /\ e.commit = c
      BY <2>1
  <2>7. Reproduces(e)
      BY <2>1, <2>3, <2>4, <2>6 DEF Reproduces, Resolves
  <2>8. Reproduces(e)'
      BY <2>5, <2>6, <2>7, KeptCopy
  <2>9. GoodEntry(e)'
      BY <2>3, <2>6, <2>8 DEF GoodEntry
  <2> QED
      BY <2>1, <2>2, <2>3, <2>5, <2>9, GoodListGrows
<1> QED
    BY <1>2, <1>3, <1>4, <1>6, <1>7, <1>8 DEF ToolStep

\* A command starts with an empty list.
LEMMA NextListing == TypeInv /\ Listing /\ [Next]_vars => Listing'
<1> SUFFICES ASSUME TypeInv, Listing, [Next]_vars PROVE Listing'
    OBVIOUS
<1>1. CASE Start
  <2>1. new_ips' = <<>>
      BY <1>1 DEF Start, TypeInv, Phases
  <2>2. DOMAIN new_ips' = {}
      BY <2>1
  <2> QED
      BY <2>2 DEF Listing
<1>2. CASE UNCHANGED vars
  <2>1. \A i : Kept(i)
      BY <1>2 DEF vars, git, Kept
  <2> QED
      BY <1>2, <2>1, ListStaysGood DEF vars, history, DoneIps
<1> QED
    BY <1>1, <1>2, UserListing, ToolListing DEF Next

\* A list that tag_ips or get_latest_ips stores reproduces the working copies.
THEOREM StoredListAlwaysReproduces == Spec => StoredListReproduces
<1>1. Init => Listing
    BY DEF Init, Listing
<1>2. Spec => [](TypeInv /\ Listing)
    BY <1>1, InitTypes, NextTypes, NextListing, PTL DEF Spec
<1> DEFINE Step == StoresList /\ user' = user =>
                      \A n \in DOMAIN stored' :
                         stored'[n].ip \in touched \cup warned \/ Reproduces(stored'[n])
<1>3. TypeInv /\ Listing /\ [Next]_vars => [Step]_vars
  <2> SUFFICES ASSUME TypeInv, Listing, Next, StoresList, user' = user PROVE Step
      OBVIOUS
  <2>1. /\ pc \in {"tag", "latest"} /\ ~(k <= Len(IpList))
        /\ pc = "tag" => cmd.store
    BY ListPositions DEF StoresList, LoopDone, TypeInv, TypeOK
  <2>2. stored' = new_ips
    <3>1. ~UserStep
      <4>1. ~\E i \in Ips : UserActs(i)
          BY DEF UserActs, TypeInv, TypeOK
      <4> QED
          BY <4>1, UserKeeps
    <3>2. TagDone \/ LatestDone
      <4>1. ~Start /\ ~SplitRaises /\ ~ChdirRaises /\ ~DiffIp /\ ~DiffDone /\ ~RemoveIp
          BY <2>1 DEF Start, SplitRaises, ChdirRaises, DiffIp, DiffDone, RemoveIp, AtIp, LoopDone
      <4>2. ~RemoveDone /\ ~SkipOrDie /\ ~KeepTag /\ ~CreateTag /\ ~PushTag /\ ~DeleteTag
          BY <2>1 DEF RemoveDone, SkipOrDie, KeepTag, CreateTag, PushTag, DeleteTag, CleanIp, AtIp,
                      LoopDone
      <4>3. ~LatestIp /\ ~PushDone
          BY <2>1 DEF LatestIp, PushDone, CleanIp, AtIp, LoopDone
      <4> QED
          BY <3>1, <4>1, <4>2, <4>3 DEF Next, ToolStep
    <3> QED
        BY <2>1, <3>2 DEF TagDone, LatestDone, LoopDone
  <2> QED
      BY <2>1, <2>2 DEF Listing, GoodEntry
<1>4. Spec => [][Step]_vars
    BY <1>2, <1>3, PTL DEF Spec
<1> QED
    BY <1>4 DEF StoredListReproduces

(***************************************************************************)
(* push_tag_ips                                                            *)
(***************************************************************************)

\* The stored list names the IP by tags of its HEAD.
ListsHead(i) ==
    /\ stored \in Seq(NewEntry)
    /\ \E n \in DOMAIN stored : stored[n].ip = i
    /\ \A n \in DOMAIN stored : stored[n].ip = i => stored[n].commit \in HeadTags(i)
    /\ Present(i)
Agreement == \A i \in agreed : ListsHead(i)

\* The list and the working copy agree while both are kept.
LEMMA AgreementKept ==
    ASSUME Agreement, stored' = stored, agreed' \subseteq agreed, \A i \in agreed' : Kept(i)
    PROVE  Agreement'
<1> SUFFICES ASSUME NEW i \in agreed' PROVE ListsHead(i)'
    BY DEF Agreement
<1>1. ListsHead(i) /\ Kept(i)
    BY DEF Agreement
<1>2. HeadTags(i)' = HeadTags(i) /\ Present(i)' = Present(i)
    BY <1>1 DEF Kept, HeadTags, Present
<1> QED
    BY <1>1, <1>2 DEF ListsHead

\* A list that tag_ips stores agrees, but for excused IPs.
LEMMA TagDoneAgrees ==
    ASSUME TypeInv, Listing, TagDone, cmd.store
    PROVE  Agreement'
<1>1. /\ pc = "tag" /\ stored' = new_ips /\ new_ips \in Seq(NewEntry)
      /\ agreed' = Collected \ (touched \cup warned) /\ dir' = dir /\ tags' = tags
    BY DEF TagDone, LoopDone, TypeInv, TypeOK, git
<1> SUFFICES ASSUME NEW i \in agreed' PROVE ListsHead(i)'
    BY DEF Agreement
<1>2. i \notin touched \cup warned /\ \E n \in DOMAIN new_ips : new_ips[n].ip = i
    BY <1>1 DEF Collected
<1>3. ASSUME NEW n \in DOMAIN new_ips, new_ips[n].ip = i
      PROVE  new_ips[n].commit \in HeadTags(i) /\ Present(i)
  <2>1. GoodEntry(new_ips[n])
      BY <1>1 DEF Listing
  <2> QED
      BY <1>1, <1>2, <1>3, <2>1 DEF GoodEntry, Reproduces, Resolves, HeadTags
<1>4. HeadTags(i)' = HeadTags(i) /\ Present(i)' = Present(i)
    BY <1>1 DEF HeadTags, Present
<1> QED
    BY <1>1, <1>2, <1>3, <1>4 DEF ListsHead

\* The commands keep the agreement: a tag or a directory that changes takes
\* its IP out of agreed.
LEMMA ToolAgrees == TypeInv /\ Listing /\ Agreement /\ ToolStep => Agreement'
<1> SUFFICES ASSUME TypeInv, Listing, Agreement, ToolStep PROVE Agreement'
    OBVIOUS
<1> USE DEF TypeInv
<1>1. CASE dir' = dir /\ tags' = tags /\ stored' = stored /\ agreed' = agreed
    BY <1>1, AgreementKept DEF Kept
<1>2. CASE SplitRaises \/ ChdirRaises \/ DiffIp \/ DiffDone \/ RemoveDone \/ PushDone
    BY <1>1, <1>2 DEF SplitRaises, ChdirRaises, DiffIp, DiffDone, RemoveDone, PushDone, NextIp,
                      git, files, history
<1>3. CASE SkipOrDie \/ KeepTag \/ LatestIp \/ PushTag
    BY <1>1, <1>3 DEF SkipOrDie, KeepTag, LatestIp, PushTag, NextIp, git, files
<1>4. CASE RemoveIp
  <2>1. \A i \in agreed' : Kept(i)
      BY <1>4 DEF RemoveIp, Kept, TypeOK
  <2> QED
      BY <1>4, <2>1, AgreementKept DEF RemoveIp, NextIp, files
<1>5. CASE CreateTag
  <2>1. CASE tags[ip][cmd.tag] # 0
      BY <1>1, <1>5, <2>1 DEF CreateTag, NextIp, files
  <2>2. CASE tags[ip][cmd.tag] = 0
    <3>1. agreed' = agreed \ {ip} /\ stored' = stored /\ dir' = dir
          /\ tags' = [tags EXCEPT ![ip][cmd.tag] = dir[ip].head]
        BY <1>5, <2>2 DEF CreateTag, NextIp, files
    <3>2. \A i \in agreed' : Kept(i)
        BY <3>1 DEF Kept, TypeOK
    <3> QED
        BY <3>1, <3>2, AgreementKept
  <2> QED
      BY <2>1, <2>2
<1>6. CASE DeleteTag
  <2>1. \A i \in agreed' : Kept(i)
      BY <1>6 DEF DeleteTag, Kept, TypeOK
  <2> QED
      BY <1>6, <2>1, AgreementKept DEF DeleteTag, NextIp, files
<1>7. CASE TagDone
  <2>1. CASE cmd.store
      BY <1>7, <2>1, TagDoneAgrees
  <2>2. CASE ~cmd.store
      BY <1>1, <1>7, <2>2 DEF TagDone, git
  <2> QED
      BY <2>1, <2>2
<1>8. CASE LatestDone
    BY <1>8 DEF LatestDone, Agreement
<1> QED
    BY <1>2, <1>3, <1>4, <1>5, <1>6, <1>7, <1>8 DEF ToolStep

\* So do all steps.
LEMMA NextAgrees == TypeInv /\ Listing /\ Agreement /\ [Next]_vars => Agreement'
<1> SUFFICES ASSUME TypeInv, Listing, Agreement, [Next]_vars PROVE Agreement'
    OBVIOUS
<1>1. CASE Start \/ UNCHANGED vars
    BY <1>1, AgreementKept DEF Start, vars, git, files, history, Kept
<1>2. CASE UserStep
  <2>1. PICK i \in Ips : UserActs(i) /\ \A j \in Ips \ {i} : Kept(j)
      BY <1>2, UserKeeps
  <2>2. stored' = stored /\ agreed' = agreed \ {i} /\ agreed \subseteq Ips
      BY <2>1 DEF UserActs, TypeInv, TypeOK
  <2> QED
      BY <2>1, <2>2, AgreementKept
<1> QED
    BY <1>1, <1>2, ToolAgrees DEF Next

\* Only push_tag_ips changes tags of a remote.
LEMMA OnlyPushTag ==
    ASSUME Next, remote_tags' # remote_tags
    PROVE  PushTag
<1>1. ~Start /\ ~UserStep
    BY DEF Start, UserStep, UserAdopts, UserWorks, UserPushes, UserDownloads, UserActs, git
<1>2. ~SplitRaises /\ ~ChdirRaises /\ ~DiffIp /\ ~DiffDone /\ ~RemoveIp /\ ~RemoveDone
    BY DEF SplitRaises, ChdirRaises, DiffIp, DiffDone, RemoveIp, RemoveDone, git
<1>3. ~SkipOrDie /\ ~KeepTag /\ ~CreateTag /\ ~TagDone /\ ~DeleteTag /\ ~LatestIp
      /\ ~LatestDone /\ ~PushDone
    BY DEF SkipOrDie, KeepTag, CreateTag, TagDone, DeleteTag, LatestIp, LatestDone, PushDone, git
<1> QED
    BY <1>1, <1>2, <1>3 DEF Next, ToolStep

\* When HEAD has a tag, git describe gives a tag of HEAD.
LEMMA DescribesHead ==
    ASSUME TypeOK, NEW i \in Ips, Present(i), HeadTags(i) # {}
    PROVE  Describe(i) \in HeadTags(i)
<1>1. /\ dir[i].head \in Nat /\ dir[i].head >= 1
      /\ \A u \in Tags : tags[i][u] \in Nat
    BY ConstantsAssumption DEF TypeOK, Present, WorkingCopy, Commits
<1>2. PICK t \in Tags : tags[i][t] = dir[i].head
    BY DEF HeadTags
<1>3. t \in Reached(i) /\ \A u \in Reached(i) : u \in Tags /\ tags[i][u] <= dir[i].head
    BY <1>1, <1>2 DEF Reached
<1>4. \A u \in Reached(i) : tags[i][u] <= tags[i][t]
    BY <1>2, <1>3
<1>5. Describe(i) \in Reached(i) /\ \A u \in Reached(i) : tags[i][u] <= tags[i][Describe(i)]
    BY <1>3, <1>4 DEF Describe
<1>6. tags[i][Describe(i)] = dir[i].head
    BY <1>1, <1>2, <1>3, <1>5
<1> QED
    BY <1>3, <1>5, <1>6 DEF HeadTags

\* push_tag_ips without a name publishes a tag of the commit that tag_ips has
\* listed, for any number of tags and with tag_always.
THEOREM AlwaysPushesListedCommit == Spec => PushesListedCommit
<1>1. Init => Listing /\ Agreement
    BY DEF Init, Listing, Agreement
<1>2. Spec => [](TypeInv /\ Listing /\ Agreement)
    BY <1>1, InitTypes, NextTypes, NextListing, NextAgrees, PTL DEF Spec
<1> DEFINE Pushed(i) == /\ Listed(i) \in HeadTags(i)
                        /\ \E t \in HeadTags(i) :
                              remote_tags'[i] = [remote_tags[i] EXCEPT ![t] = dir[i].head]
           Step == \A i \in agreed :
                      pc = "push" /\ cmd.tag = None /\ remote_tags'[i] # remote_tags[i] => Pushed(i)
<1>3. TypeInv /\ Listing /\ Agreement /\ [Next]_vars => [Step]_vars
  <2> SUFFICES ASSUME TypeInv, Agreement, Next, NEW i \in agreed, pc = "push", cmd.tag = None,
                      remote_tags'[i] # remote_tags[i]
               PROVE  Pushed(i)
      OBVIOUS
  <2>1. PushTag
      BY OnlyPushTag
  <2>2. ListsHead(i) /\ i \in Ips /\ TypeOK
      BY DEF Agreement, TypeInv, TypeOK
  <2>3. PICK t : t = PushedTag(ip) /\ t \in Tags
                 /\ remote_tags' = [remote_tags EXCEPT ![ip][t] = tags[ip][t]]
      BY <2>1 DEF PushTag, CanPush
  <2>4. i = ip
      BY <2>2, <2>3 DEF TypeOK
  <2>5. t = Describe(i)
      BY <2>3, <2>4, ConstantsAssumption DEF PushedTag
  <2>6. Listed(i) \in HeadTags(i)
    <3>1. PICK n \in DOMAIN stored : stored[n].ip = i
        BY <2>2 DEF ListsHead
    <3>2. stored[n] \in NewEntry
        BY <2>2, <3>1 DEF ListsHead
    <3>3. stored[n] = [ip |-> i, commit |-> stored[n].commit] /\ stored[n].commit \in Tags \cup Commits
        BY <3>1, <3>2 DEF NewEntry
    <3>4. \E m \in DOMAIN stored : stored[m] = [ip |-> i, commit |-> Listed(i)]
        BY <3>3 DEF Listed
    <3> QED
        BY <2>2, <3>4 DEF ListsHead
  <2>7. t \in HeadTags(i)
      BY <2>2, <2>5, <2>6, DescribesHead DEF ListsHead
  <2>8. remote_tags'[i] = [remote_tags[i] EXCEPT ![t] = dir[i].head]
      BY <2>2, <2>3, <2>4, <2>7 DEF TypeOK, HeadTags
  <2> QED
      BY <2>6, <2>7, <2>8
<1>4. Spec => [][Step]_vars
    BY <1>2, <1>3, PTL DEF Spec
<1> QED
    BY <1>4 DEF PushesListedCommit
=============================================================================
