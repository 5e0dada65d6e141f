-------------------------- MODULE IpsUpdate_proofs --------------------------
(***************************************************************************)
(* update-ips and generate-scripts, for any number of IPs, lists, pushes,  *)
(* user actions and killed runs.                                           *)
(***************************************************************************)
EXTENDS IpsUpdate, TLAPS

(***************************************************************************)
(* What the Git operations do to a working copy                            *)
(***************************************************************************)

\* Versions are numbers from 1 to the bound.
LEMMA Bounds == MaxCommit \in Nat \ {0} /\ Versions = 1..MaxCommit
BY ConstantsAssumption DEF Versions

\* The states the tools and the user put a directory in are working copies.
LEMMA InitialCopies ==
    /\ Absent \in WorkingCopy /\ Plain \in WorkingCopy
    /\ Absent.kind = "absent" /\ Plain.kind = "plain"
    /\ ~Absent.dirty /\ ~Absent.ahead /\ ~Plain.dirty /\ ~Plain.ahead
    /\ Absent.branch = 0 /\ Plain.branch = 0
    /\ Absent.origin = None /\ Plain.origin = None
<1>1. /\ Absent \in WorkingCopy /\ Absent.kind = "absent" /\ ~Absent.dirty /\ ~Absent.ahead
      /\ Absent.branch = 0 /\ Absent.origin = None
    BY Bounds DEF Absent, WorkingCopy
<1>2. /\ Plain \in WorkingCopy /\ Plain.kind = "plain" /\ ~Plain.dirty /\ ~Plain.ahead
      /\ Plain.branch = 0 /\ Plain.origin = None
    BY <1>1 DEF Plain, WorkingCopy
<1> QED
    BY <1>1, <1>2

\* What a killed clone leaves.
LEMMA UnbornCopy ==
    ASSUME NEW repo \in Remotes
    PROVE  /\ Unborn(repo) \in WorkingCopy
           /\ Unborn(repo).kind = "git" /\ Unborn(repo).origin = repo
<1> DEFINE m == [Absent EXCEPT !.kind = "git"]
<1>1. m \in WorkingCopy /\ m.kind = "git"
    BY InitialCopies DEF WorkingCopy
<1>2. Unborn(repo) = [m EXCEPT !.origin = repo]
    BY DEF Unborn
<1> HIDE DEF m
<1> QED
    BY <1>1, <1>2 DEF WorkingCopy

\* fetch: only what is known of the remote changes.
LEMMA FetchEffect ==
    ASSUME NEW d \in WorkingCopy, NEW tip \in Versions
    PROVE  /\ Fetched(d, tip) \in WorkingCopy
           /\ Fetched(d, tip).kind = d.kind
           /\ Fetched(d, tip).head = d.head
           /\ Fetched(d, tip).branch = d.branch /\ Fetched(d, tip).origin = d.origin
           /\ Fetched(d, tip).dirty = d.dirty /\ Fetched(d, tip).ahead = d.ahead
BY Bounds DEF Fetched, WorkingCopy

\* pull --ff-only: the branch is at the remote's tip.
LEMMA PullEffect ==
    ASSUME NEW d \in WorkingCopy, NEW tip \in Versions
    PROVE  /\ Pulled(d, tip) \in WorkingCopy
           /\ Pulled(d, tip).kind = d.kind
           /\ Pulled(d, tip).head = d.head
           /\ Pulled(d, tip).branch = tip /\ Pulled(d, tip).origin = d.origin
           /\ Pulled(d, tip).dirty = d.dirty /\ Pulled(d, tip).ahead = d.ahead
<1> DEFINE m == [d EXCEPT !.branch = tip]
<1>1. /\ m \in WorkingCopy
      /\ m.kind = d.kind /\ m.head = d.head /\ m.branch = tip
      /\ m.dirty = d.dirty /\ m.ahead = d.ahead /\ m.origin = d.origin
    BY Bounds DEF WorkingCopy
<1> HIDE DEF m
<1>2. Pulled(d, tip) = Fetched(m, tip)
    BY DEF Pulled, m
<1> QED
    BY <1>1, <1>2, FetchEffect

\* clone: a Git directory on the branch, at the remote's tip.
LEMMA CloneEffect ==
    ASSUME NEW repo \in Remotes, NEW tip \in Versions
    PROVE  /\ Cloned(repo, tip) \in WorkingCopy
           /\ Cloned(repo, tip).kind = "git" /\ Cloned(repo, tip).origin = repo
           /\ Cloned(repo, tip).branch = tip
BY UnbornCopy, PullEffect DEF Cloned

\* checkout: HEAD is at the version asked for, nothing of the user's is lost,
\* and a branch that exists keeps its commits.
LEMMA CheckoutEffect ==
    ASSUME NEW d \in WorkingCopy, NEW v \in Versions \cup {Branch}
    PROVE  /\ CheckedOut(d, v) \in WorkingCopy
           /\ CheckedOut(d, v).kind = d.kind /\ CheckedOut(d, v).origin = d.origin
           /\ CheckedOut(d, v).head = v
           /\ d.branch # 0 => CheckedOut(d, v).branch = d.branch
           /\ CheckedOut(d, v).dirty = d.dirty /\ CheckedOut(d, v).ahead = d.ahead
<1>1. CASE v = Branch /\ d.branch = 0
  <2> DEFINE m == [d EXCEPT !.head = Branch]
  <2>1. /\ m \in WorkingCopy
        /\ m.kind = d.kind /\ m.origin = d.origin
        /\ m.head = Branch /\ m.dirty = d.dirty /\ m.ahead = d.ahead
      BY DEF WorkingCopy
  <2>2. CheckedOut(d, v) = [m EXCEPT !.branch = d.known]
      BY <1>1 DEF CheckedOut
  <2>3. d.known \in 0..MaxCommit
      BY DEF WorkingCopy
  <2> HIDE DEF m
  <2> QED
      BY <1>1, <2>1, <2>2, <2>3 DEF WorkingCopy
<1>2. CASE ~(v = Branch /\ d.branch = 0)
    BY <1>2 DEF CheckedOut, WorkingCopy
<1> QED
    BY <1>1, <1>2

(***************************************************************************)
(* The inductive invariant                                                 *)
(***************************************************************************)

\* A Git command is issued for an entry of the list whose directory is a Git
\* directory with the origin it had, or of the entry when it was cloned now;
\* a fresh clone has the branch as it was when the run began, and pull is
\* reached only on the branch the entry asks for.
Position ==
    /\ pc \in {"checkout", "checkout_new", "pull"} =>
          /\ k <= Len(ip_list)
          /\ dir[ip_list[k].ip].kind = "git"
          /\ dir[ip_list[k].ip].origin = Origin(ip_list[k])
    /\ pc = "checkout_new" => dir[ip_list[k].ip].branch >= base[dir[ip_list[k].ip].origin]
    /\ pc = "pull" => dir[ip_list[k].ip].head = Branch /\ ip_list[k].commit = Branch
    /\ \A repo \in Remotes : base[repo] <= remote[repo]

\* The loop has not touched the directories of the entries to come.
Ahead(j) == j > k \/ (pc = "loop" /\ j = k)
Untouched ==
    pc \in UpdatePcs =>
        \A j \in 1..Len(ip_list) :
            Ahead(j) => before[ip_list[j].ip] = dir[ip_list[j].ip].origin

\* What generate-scripts finds when update-ips launches it.
Downloaded ==
    /\ pc # "idle" => exit = "none"
    /\ pc \in {"clean", "load"} /\ launched =>
          cache \in Lists /\ \A i \in DOMAIN cache : dir[cache[i].ip].kind = "git"
    /\ pc = "import" /\ launched =>
          \A i \in DOMAIN ip_list : dir[ip_list[i].ip].kind = "git"

\* The .mk files are written before the files that refer to them.
Exported ==
    /\ pc = "import" => dic \subseteq {ip_list[i].ip : i \in 1..(k - 1)}
    /\ pc = "export" =>
          /\ dic \subseteq {ip_list[i].ip : i \in 1..Len(ip_list)}
          /\ \A i \in 1..(k - 1) : ip_list[i].ip \in dic => ip_list[i].ip \in mk
    /\ pc = "makefile" => dic \subseteq mk

\* Only a Git directory has an origin, a branch, and work that a Git command
\* could discard.
NoWork(d) == ~d.dirty /\ ~d.ahead /\ d.branch = 0 /\ d.origin = None
WorkIsInGit ==
    \A i \in Ips : IF dir[i].kind = "git" THEN dir[i].origin # None ELSE NoWork(dir[i])

IInv == /\ TypeOK
        /\ Position
        /\ Untouched
        /\ NoErrorMeansCurrent
        /\ Downloaded
        /\ LaunchedFindsPaths
        /\ Exported
        /\ ReferencedScriptsExist
        /\ WorkIsInGit

(***************************************************************************)
(* Steps of the tools and of the rest of the world                         *)
(***************************************************************************)

\* A list is a sequence of entries.
LEMMA ListsAreSequences ==
    ASSUME NEW l \in Lists
    PROVE  l \in Seq(Entry) /\ Len(l) \in Nat /\ DOMAIN l = 1..Len(l)
<1>1. l \in Seq(Entry)
  <2>1. CASE l \in IpLists
      BY <2>1, ConstantsAssumption
  <2>2. CASE l = <<>>
      BY <2>2
  <2> QED
      BY <2>1, <2>2 DEF Lists
<1> QED
    BY <1>1

\* The entry at hand is an entry of the list, and the only one of its IP.
LEMMA AtIndex ==
    ASSUME TypeOK, NEW i \in 1..Len(ip_list)
    PROVE  /\ ip_list[i].ip \in Ips /\ ip_list[i].commit \in Versions \cup {Branch}
           /\ ip_list[i].remote \in Remotes
           /\ \A j \in 1..Len(ip_list) : ip_list[i].ip = ip_list[j].ip => i = j
<1>1. ip_list \in Seq(Entry) /\ DOMAIN ip_list = 1..Len(ip_list) /\ ip_list \in Lists
    BY ListsAreSequences DEF TypeOK
<1>2. ip_list[i] \in Entry
    BY <1>1
<1>3. ip_list # <<>>
    BY <1>1
<1>4. ip_list \in IpLists
    BY <1>1, <1>3 DEF Lists
<1>5. \A m, j \in DOMAIN ip_list : ip_list[m].ip = ip_list[j].ip => m = j
    BY <1>4, ConstantsAssumption
<1> QED
    BY <1>1, <1>2, <1>5 DEF Entry

\* The tools change the directory of the entry at hand and no other.
GitStep(d) == k <= Len(ip_list) /\ dir' = [dir EXCEPT ![ip_list[k].ip] = d]

\* The tip that a Git command in the directory at hand sees.
Seen == remote[dir[ip_list[k].ip].origin]
NewCopy == Cloned(ip_list[k].remote, remote[ip_list[k].remote])

\* What each Git command of update_ips does to the directory of the entry.
LEMMA GitSteps ==
    ASSUME IInv
    PROVE  /\ Fetch => GitStep(Fetched(dir[ip_list[k].ip], Seen))
           /\ Clone => GitStep(NewCopy)
           /\ Checkout => GitStep(CheckedOut(dir[ip_list[k].ip], ip_list[k].commit))
           /\ Pull => GitStep(Pulled(dir[ip_list[k].ip], Seen))
BY DEF IInv, Position, GitStep, Fetch, Clone, Checkout, Pull, AtEntry, ip, commit, Tip, Seen, NewCopy

\* The directory of the entry at hand after each Git command, and the others.
LEMMA GitEffects ==
    ASSUME IInv, NEW d, GitStep(d)
    PROVE  /\ ip_list[k].ip \in Ips
           /\ dir'[ip_list[k].ip] = d
           /\ \A i \in Ips : i # ip_list[k].ip => dir'[i] = dir[i]
           /\ \A i \in 1..(k - 1) : ip_list[i].ip \in Ips /\ ip_list[i].ip # ip_list[k].ip
           /\ dir[ip_list[k].ip] \in WorkingCopy
           /\ dir[ip_list[k].ip].kind = "git" =>
                 dir[ip_list[k].ip].origin \in Remotes /\ Seen \in Versions
           /\ ip_list[k].remote \in Remotes /\ remote[ip_list[k].remote] \in Versions
           /\ ip_list[k].commit \in Versions \cup {Branch}
<1>1. TypeOK /\ k \in 1..Len(ip_list) /\ Len(ip_list) \in Nat
    BY ListsAreSequences DEF IInv, TypeOK, GitStep
<1>2. /\ ip_list[k].ip \in Ips /\ ip_list[k].commit \in Versions \cup {Branch}
      /\ ip_list[k].remote \in Remotes
      /\ \A j \in 1..Len(ip_list) : ip_list[k].ip = ip_list[j].ip => k = j
    BY <1>1, AtIndex
<1>3. \A i \in 1..(k - 1) : ip_list[i].ip \in Ips /\ ip_list[i].ip # ip_list[k].ip
  <2> TAKE i \in 1..(k - 1)
  <2>1. i \in 1..Len(ip_list) /\ i # k
      BY <1>1
  <2> QED
      BY <1>1, <1>2, <2>1, AtIndex
<1>4. /\ dir[ip_list[k].ip] \in WorkingCopy /\ remote \in [Remotes -> Versions]
      /\ dir \in [Ips -> WorkingCopy]
    BY <1>1, <1>2 DEF TypeOK
<1>5. dir[ip_list[k].ip].kind = "git" =>
          dir[ip_list[k].ip].origin \in Remotes /\ Seen \in Versions
  <2> HAVE dir[ip_list[k].ip].kind = "git"
  <2>1. dir[ip_list[k].ip].origin # None
      BY <1>2 DEF IInv, WorkIsInGit
  <2>2. dir[ip_list[k].ip].origin \in Remotes
      BY <1>4, <2>1 DEF WorkingCopy
  <2> QED
      BY <1>4, <2>2 DEF Seen
<1> QED
    BY <1>1, <1>2, <1>3, <1>4, <1>5 DEF GitStep

\* Directories stay working copies.
LEMMA StepDir ==
    ASSUME IInv, [Next]_vars
    PROVE  dir' \in [Ips -> WorkingCopy]
<1> USE DEF IInv
<1>0. TypeOK /\ dir \in [Ips -> WorkingCopy] /\ remote \in [Remotes -> Versions] /\ k \in 1..(Len(ip_list) + 1)
    BY DEF TypeOK
<1>1. ASSUME NEW d \in WorkingCopy, GitStep(d) PROVE dir' \in [Ips -> WorkingCopy]
    BY <1>0, <1>1 DEF GitStep
<1>g. ASSUME pc \in {"checkout", "pull"} PROVE dir[ip_list[k].ip].kind = "git"
    BY <1>g DEF Position
<1>2. CASE Fetch
  <2>1. GitStep(Fetched(dir[ip_list[k].ip], Seen))
      BY <1>2, GitSteps
  <2>2. Fetched(dir[ip_list[k].ip], Seen) \in WorkingCopy
      BY <1>2, <2>1, GitEffects, FetchEffect DEF Fetch, ip
  <2> QED
      BY <1>1, <2>1, <2>2
<1>3. CASE Clone
  <2>1. GitStep(NewCopy)
      BY <1>3, GitSteps
  <2>2. NewCopy \in WorkingCopy
      BY <2>1, GitEffects, CloneEffect DEF NewCopy
  <2> QED
      BY <1>1, <2>1, <2>2
<1>4. CASE Checkout
  <2>1. GitStep(CheckedOut(dir[ip_list[k].ip], ip_list[k].commit))
      BY <1>4, GitSteps
  <2>2. CheckedOut(dir[ip_list[k].ip], ip_list[k].commit) \in WorkingCopy
      BY <2>1, GitEffects, CheckoutEffect
  <2> QED
      BY <1>1, <2>1, <2>2
<1>5. CASE Pull
  <2>1. GitStep(Pulled(dir[ip_list[k].ip], Seen))
      BY <1>5, GitSteps
  <2>2. Pulled(dir[ip_list[k].ip], Seen) \in WorkingCopy
      BY <1>5, <1>g, <2>1, GitEffects, PullEffect DEF Pull
  <2> QED
      BY <1>1, <2>1, <2>2
<1>6. CASE Crash
  <2>1. CASE AtEntry /\ dir' = [dir EXCEPT ![ip] = Unborn(ip_list[k].remote)]
    <3>1. GitStep(Unborn(ip_list[k].remote))
        BY <2>1 DEF AtEntry, ip, GitStep
    <3> QED
        BY <1>1, <3>1, GitEffects, UnbornCopy
  <2> QED
      BY <1>0, <1>6, <2>1 DEF Crash
<1>7. CASE UserWorks
  <2>1. PICK i \in Ips : \E d \in {Absent, Plain, [dir[i] EXCEPT !.dirty = TRUE],
                    [dir[i] EXCEPT !.dirty = FALSE, !.ahead = TRUE]} : dir' = [dir EXCEPT ![i] = d]
      BY <1>7 DEF UserWorks
  <2>2. [dir[i] EXCEPT !.dirty = TRUE] \in WorkingCopy
      BY <1>0 DEF WorkingCopy
  <2>3. [dir[i] EXCEPT !.dirty = FALSE, !.ahead = TRUE] \in WorkingCopy
    <3> DEFINE m == [dir[i] EXCEPT !.dirty = FALSE]
    <3>1. m \in WorkingCopy
        BY <1>0 DEF WorkingCopy
    <3>2. [dir[i] EXCEPT !.dirty = FALSE, !.ahead = TRUE] = [m EXCEPT !.ahead = TRUE]
        OBVIOUS
    <3> HIDE DEF m
    <3> QED
        BY <3>1, <3>2 DEF WorkingCopy
  <2> QED
      BY <1>0, <2>1, <2>2, <2>3, InitialCopies
<1>8. CASE UNCHANGED dir
    BY <1>0, <1>8
<1>9. CASE UNCHANGED vars
    BY <1>0, <1>9 DEF vars
<1> QED
    BY <1>2, <1>3, <1>4, <1>5, <1>6, <1>7, <1>8, <1>9
    DEF Next, ToolStep, UpdateStep, GenerateStep, StartUpdate, StartGenerate, ServerPush,
        NotAGitDirectory, FetchFails, CloneFails, CheckoutFails, PullFails, Summary, SaveOpen,
        SaveWrite, CleanScripts, LoadDatabase, ImportYaml, ImportDone, ExportMake,
        GenerateVsimTcl, GenerateMakefile, workspace

\* The rest of the type: what is not a directory.
Others ==
    /\ remote \in [Remotes -> Versions] /\ base \in [Remotes -> Versions]
    /\ before \in [Ips -> Remotes \cup {None}]
    /\ ip_list \in Lists /\ cache \in Lists \cup {None, Torn}
    /\ pc \in {"idle"} \cup UpdatePcs \cup GeneratePcs
    /\ k \in 1..(Len(ip_list) + 1)
    /\ errors \subseteq Ips /\ dic \subseteq Ips
    /\ mk \subseteq Ips /\ libs \subseteq Ips /\ ipsmk \subseteq Ips
    /\ launched \in BOOLEAN
    /\ exit \in {"none", "ok", "errors", "missing_path", "exception", "killed"}
    /\ user \in 0..MaxUser /\ crashes \in 0..MaxCrash

\* Every step keeps types.
LEMMA StepTypeOK ==
    ASSUME IInv, [Next]_vars
    PROVE  TypeOK'
<1> USE DEF IInv
<1>0. TypeOK /\ Others /\ Len(ip_list) \in Nat
    BY ListsAreSequences DEF TypeOK, Others
<1>i. k <= Len(ip_list) => ip_list[k].ip \in Ips
    BY <1>0, AtIndex DEF Others
<1>1. ASSUME AtEntry \/ pc \in {"checkout", "checkout_new", "pull"}
      PROVE  k <= Len(ip_list) /\ ip_list[k].ip \in Ips
    BY <1>0, <1>1, <1>i DEF AtEntry, Position
<1> SUFFICES Others'
    BY StepDir DEF Others, TypeOK
<1> HIDE DEF IInv
<1>2. ASSUME k <= Len(ip_list), ip_list[k].ip \in Ips, Fails PROVE Others'
    BY <1>0, <1>2 DEF Fails, Others, scripts, bounds, history, UpdatePcs, GeneratePcs, ip
<1>3. ASSUME k <= Len(ip_list), NEW next \in UpdatePcs, Continue(next) PROVE Others'
    BY <1>0, <1>3 DEF Continue, Others, scripts, bounds, history, UpdatePcs, GeneratePcs
<1>4. ASSUME NEW reason \in {"ok", "errors", "missing_path", "exception", "killed"},
             Exit(reason), UNCHANGED <<remote, cache, launched, mk, libs, user>>,
             ipsmk' \subseteq Ips, crashes' \in 0..MaxCrash
      PROVE  Others'
  <2>1. <<>> \in Lists /\ 1 \in 1..(Len(<<>>) + 1)
      BY DEF Lists
  <2>2. FirstCommits \in [Remotes -> Versions] /\ NoOrigins \in [Ips -> Remotes \cup {None}]
      BY Bounds DEF FirstCommits, NoOrigins
  <2> QED
      BY <1>0, <1>4, <2>1, <2>2 DEF Exit, Others
<1>5. CASE StartUpdate
  <2>1. ip_list' \in Lists /\ Len(ip_list') \in Nat
      BY <1>5, ListsAreSequences DEF StartUpdate, Lists
  <2>2. \A i \in Ips : dir[i].origin \in Remotes \cup {None}
      BY <1>0 DEF TypeOK, WorkingCopy
  <2>3. before' \in [Ips -> Remotes \cup {None}]
      BY <1>5, <2>2 DEF StartUpdate
  <2> QED
      BY <1>0, <1>5, <2>1, <2>3 DEF StartUpdate, Others, scripts, bounds, history, UpdatePcs, GeneratePcs
<1>6. CASE StartGenerate
    BY <1>0, <1>6 DEF StartGenerate, Others, workspace, bounds, history, UpdatePcs, GeneratePcs
<1>7. CASE NotAGitDirectory \/ FetchFails \/ CloneFails \/ CheckoutFails \/ PullFails
    BY <1>1, <1>2, <1>7
    DEF NotAGitDirectory, FetchFails, CloneFails, CheckoutFails, PullFails
<1>8. CASE Fetch \/ Clone \/ Checkout \/ Pull
    BY <1>1, <1>3, <1>8 DEF Fetch, Clone, Checkout, Pull, UpdatePcs
<1>9. CASE Summary
    BY <1>0, <1>4, <1>9 DEF Summary, Others, workspace, bounds, history, UpdatePcs, GeneratePcs
<1>10. CASE SaveOpen
    BY <1>0, <1>10 DEF SaveOpen, Others, workspace, bounds, history, UpdatePcs, GeneratePcs
<1>11. CASE SaveWrite
    BY <1>0, <1>11 DEF SaveWrite, Others, workspace, bounds, history, UpdatePcs, GeneratePcs
<1>12. CASE CleanScripts
    BY <1>0, <1>12 DEF CleanScripts, Removed, Others, workspace, bounds, history, UpdatePcs, GeneratePcs
<1>13. CASE LoadDatabase
  <2>1. CASE cache \in {None, Torn}
      BY <1>0, <1>4, <1>13, <2>1 DEF LoadDatabase, Others, workspace, bounds, history
  <2>2. CASE cache \notin {None, Torn}
    <3>1. cache \in Lists /\ Len(cache) \in Nat
        BY <1>0, <2>2, ListsAreSequences DEF Others
    <3> QED
        BY <1>0, <1>13, <2>2, <3>1 DEF LoadDatabase, Others, workspace, bounds, history, UpdatePcs, GeneratePcs
  <2> QED
      BY <2>1, <2>2
<1>14. CASE ImportYaml
  <2>1. k <= Len(ip_list) /\ ip_list[k].ip \in Ips
      BY <1>14, <1>i DEF ImportYaml
  <2>2. CASE dir[ip].kind = "absent"
      BY <1>0, <1>4, <1>14, <2>2 DEF ImportYaml, Others, workspace, bounds, history
  <2>3. CASE dir[ip].kind # "absent"
    <3>1. dic' \subseteq Ips
        BY <1>0, <1>14, <2>1, <2>3 DEF ImportYaml, Others, ip
    <3>2. k' = k + 1 /\ UNCHANGED <<pc, ip_list, errors, exit, base, before>>
        BY <1>14, <2>3 DEF ImportYaml, history
    <3> QED
        BY <1>0, <1>14, <2>1, <3>1, <3>2 DEF ImportYaml, Others, workspace, bounds, history
  <2> QED
      BY <2>2, <2>3
<1>15. CASE ImportDone
    BY <1>0, <1>15 DEF ImportDone, Others, workspace, history, scripts, bounds, UpdatePcs, GeneratePcs
<1>16. CASE ExportMake
    BY <1>0, <1>i, <1>16 DEF ExportMake, Others, workspace, bounds, history, ip
<1>17. CASE GenerateVsimTcl
    BY <1>0, <1>17 DEF GenerateVsimTcl, Others, workspace, bounds, history, UpdatePcs, GeneratePcs
<1>18. CASE GenerateMakefile
    BY <1>0, <1>4, <1>18 DEF GenerateMakefile, Others, workspace, bounds, history
<1>19. CASE Crash
  <2>1. crashes' \in 0..MaxCrash
      BY <1>0, <1>19, ConstantsAssumption DEF Crash, Others
  <2> QED
      BY <1>0, <1>4, <1>19, <2>1 DEF Crash, Others
<1>20. CASE ServerPush
  <2>1. remote' \in [Remotes -> Versions]
      BY <1>0, <1>20, Bounds DEF ServerPush, Others
  <2> QED
      BY <1>0, <1>20, <2>1 DEF ServerPush, Others, scripts, bounds, history
<1>21. CASE UserWorks
  <2>1. user' \in 0..MaxUser
      BY <1>0, <1>21, ConstantsAssumption DEF UserWorks, Others
  <2> QED
      BY <1>0, <1>21, <2>1 DEF UserWorks, Others, scripts, history
<1>22. CASE UNCHANGED vars
    BY <1>0, <1>22 DEF Others, vars
<1> QED
    BY <1>5, <1>6, <1>7, <1>8, <1>9, <1>10, <1>11, <1>12, <1>13, <1>14, <1>15, <1>16,
       <1>17, <1>18, <1>19, <1>20, <1>21, <1>22
    DEF Next, ToolStep, UpdateStep, GenerateStep

\* Where the run stands: pushes do not move it, and Git commands move it to
\* the command that follows.
LEMMA StepPosition ==
    ASSUME IInv, [Next]_vars
    PROVE  Position'
<1> USE DEF IInv
<1>0. /\ TypeOK /\ Position /\ Untouched
      /\ remote \in [Remotes -> Versions] /\ base \in [Remotes -> Versions]
      /\ \A repo \in Remotes : base[repo] <= remote[repo]
      /\ Versions = 1..MaxCommit /\ MaxCommit \in Nat
    BY Bounds DEF TypeOK, Position
\* The origin of the directory of the entry that the loop is about to handle.
<1>o. ASSUME AtEntry PROVE before[ip_list[k].ip] = dir[ip_list[k].ip].origin
  <2>1. k \in 1..Len(ip_list) /\ pc \in UpdatePcs /\ Ahead(k)
      BY <1>o, ListsAreSequences DEF AtEntry, TypeOK, UpdatePcs, Ahead
  <2> QED
      BY <1>0, <2>1 DEF Untouched
<1>1. CASE Fetch
  <2>1. GitStep(Fetched(dir[ip_list[k].ip], Seen)) /\ dir[ip_list[k].ip].kind = "git"
      BY <1>1, GitSteps DEF Fetch, ip
  <2>2. /\ dir'[ip_list[k].ip].kind = "git"
        /\ dir'[ip_list[k].ip].origin = dir[ip_list[k].ip].origin
        /\ dir[ip_list[k].ip].origin # None
      BY <2>1, GitEffects, FetchEffect, ConstantsAssumption
  <2>3. pc' = "checkout" /\ UNCHANGED <<ip_list, k, remote, base, before>>
      BY <1>1 DEF Fetch, Continue, ip, history
  <2>4. dir'[ip_list[k].ip].origin = Origin(ip_list[k])
      BY <1>1, <1>o, <2>2 DEF Fetch, Origin
  <2> QED
      BY <1>0, <2>1, <2>2, <2>3, <2>4 DEF Position, GitStep, Origin
<1>2. CASE Clone
  <2>1. GitStep(NewCopy) /\ dir[ip_list[k].ip].kind = "absent"
      BY <1>2, GitSteps DEF Clone, ip
  <2>2. /\ dir'[ip_list[k].ip].kind = "git"
        /\ dir'[ip_list[k].ip].branch = remote[ip_list[k].remote]
        /\ dir'[ip_list[k].ip].origin = ip_list[k].remote
      BY <2>1, GitEffects, CloneEffect DEF NewCopy
  <2>3. pc' = "checkout_new" /\ UNCHANGED <<ip_list, k, remote, base, before>>
      BY <1>2 DEF Clone, Continue, history
  <2>4. base[ip_list[k].remote] <= remote[ip_list[k].remote]
      BY <1>0, <2>1, GitEffects
  <2>5. ip_list[k].ip \in Ips /\ remote[ip_list[k].remote] \in 1..MaxCommit
        /\ base[ip_list[k].remote] \in 1..MaxCommit
      BY <1>0, <2>1, GitEffects
  <2>6. dir[ip_list[k].ip].origin = None
      BY <2>1, <2>5 DEF WorkIsInGit, NoWork
  <2>7. dir'[ip_list[k].ip].origin = Origin(ip_list[k])
      BY <1>2, <1>o, <2>2, <2>6 DEF Clone, Origin
  <2> QED
      BY <1>0, <2>1, <2>2, <2>3, <2>4, <2>5, <2>7 DEF Position, GitStep, Origin
<1>3. CASE Checkout
  <2>1. GitStep(CheckedOut(dir[ip_list[k].ip], ip_list[k].commit))
      BY <1>3, GitSteps
  <2>2. /\ dir'[ip_list[k].ip].kind = dir[ip_list[k].ip].kind
        /\ dir'[ip_list[k].ip].origin = dir[ip_list[k].ip].origin
        /\ dir'[ip_list[k].ip].head = ip_list[k].commit
      BY <2>1, GitEffects, CheckoutEffect
  <2>3. /\ UNCHANGED <<ip_list, remote, base, before>>
        /\ pc' = "loop" \/ (pc' = "pull" /\ k' = k /\ ~Detached(dir'[ip_list[k].ip]))
      BY <1>3 DEF Checkout, Continue, ip, history
  <2>4. dir[ip_list[k].ip].kind = "git" /\ dir[ip_list[k].ip].origin = Origin(ip_list[k])
      BY <1>0, <1>3 DEF Checkout, Position
  <2> QED
      BY <1>0, <2>1, <2>2, <2>3, <2>4 DEF Position, GitStep, Detached, Origin
<1>4. CASE Pull
    BY <1>0, <1>4 DEF Pull, Continue, Position, history
<1>5. CASE NotAGitDirectory \/ FetchFails \/ CloneFails \/ CheckoutFails \/ PullFails
    BY <1>0, <1>5 DEF NotAGitDirectory, FetchFails, CloneFails, CheckoutFails, PullFails,
                      Fails, Position, history
<1>6. CASE StartUpdate
    BY <1>0, <1>6 DEF StartUpdate, Position
<1>7. CASE ServerPush
  <2>1. \A repo \in Remotes : remote'[repo] >= remote[repo] /\ remote'[repo] \in Nat
      BY <1>0, <1>7 DEF ServerPush
  <2>2. UNCHANGED <<pc, k, ip_list, dir, base, before>>
      BY <1>7 DEF ServerPush, history
  <2>3. \A repo \in Remotes : base'[repo] <= remote'[repo]
      BY <1>0, <2>1, <2>2
  <2> QED
      BY <1>0, <2>2, <2>3 DEF Position, Origin
<1>8. ASSUME NEW reason, Exit(reason), UNCHANGED remote PROVE Position'
    BY <1>0, <1>8 DEF Exit, FirstCommits, Position
<1>9. ASSUME pc' \notin {"checkout", "checkout_new", "pull"}, UNCHANGED <<remote, base>>
      PROVE  Position'
    BY <1>0, <1>9 DEF Position
<1>10. CASE Summary \/ LoadDatabase \/ ImportYaml \/ GenerateMakefile \/ Crash
    BY <1>8, <1>9, <1>10
    DEF Summary, LoadDatabase, ImportYaml, GenerateMakefile, Crash, history
<1>11. CASE \/ StartGenerate \/ SaveOpen \/ SaveWrite \/ CleanScripts \/ ImportDone
            \/ ExportMake \/ GenerateVsimTcl
    BY <1>9, <1>11
    DEF StartGenerate, SaveOpen, SaveWrite, CleanScripts, ImportDone, ExportMake,
        GenerateVsimTcl, workspace, history
<1>12. CASE UserWorks
    BY <1>9, <1>12 DEF UserWorks, history
<1>13. CASE UNCHANGED vars
    BY <1>0, <1>13 DEF vars, Position, Origin
<1> QED
    BY <1>1, <1>2, <1>3, <1>4, <1>5, <1>6, <1>7, <1>10, <1>11, <1>12, <1>13
    DEF Next, ToolStep, UpdateStep, GenerateStep

\* A Git command changes the directory of the entry at hand, the loop goes on
\* with the next entry: the directories ahead stay as the run found them.
LEMMA StepUntouched ==
    ASSUME IInv, [Next]_vars
    PROVE  Untouched'
<1> USE DEF IInv
<1>0. /\ TypeOK /\ Untouched /\ Position
      /\ k \in 1..(Len(ip_list) + 1) /\ Len(ip_list) \in Nat
    BY ListsAreSequences DEF TypeOK
<1>1. ASSUME NEW d, GitStep(d), pc \in UpdatePcs, UNCHANGED <<ip_list, before>>,
             (k' = k /\ pc' # "loop") \/ k' = k + 1
      PROVE  Untouched'
  <2>1. ASSUME NEW j \in 1..Len(ip_list), Ahead(j)'
        PROVE  before[ip_list[j].ip] = dir'[ip_list[j].ip].origin
    <3>1. Ahead(j) /\ j # k /\ k \in 1..Len(ip_list)
        BY <1>0, <1>1, <2>1 DEF Ahead, GitStep
    <3>2. ip_list[j].ip \in Ips /\ ip_list[j].ip # ip_list[k].ip
        BY <1>0, <3>1, AtIndex
    <3>3. dir'[ip_list[j].ip] = dir[ip_list[j].ip]
        BY <1>1, <3>2, GitEffects
    <3> QED
        BY <1>0, <1>1, <3>1, <3>3 DEF Untouched
  <2> QED
      BY <1>1, <2>1 DEF Untouched
<1>2. ASSUME pc \in UpdatePcs, UNCHANGED <<dir, ip_list, before>>,
             (k' = k /\ pc' = pc) \/ k' = k + 1 \/ (pc' \in {"save", "write"} /\ k' = k)
      PROVE  Untouched'
  <2>1. \A j \in 1..Len(ip_list) : Ahead(j)' => Ahead(j)
      BY <1>0, <1>2 DEF Ahead
  <2> QED
      BY <1>0, <1>2, <2>1 DEF Untouched
<1>3. ASSUME pc' \notin UpdatePcs PROVE Untouched'
    BY <1>3 DEF Untouched
<1>4. CASE Fetch
  <2>1. GitStep(Fetched(dir[ip_list[k].ip], Seen))
      BY <1>4, GitSteps
  <2> QED
      BY <1>1, <1>4, <2>1 DEF Fetch, Continue, AtEntry, UpdatePcs, history
<1>5. CASE Clone
  <2>1. GitStep(NewCopy)
      BY <1>5, GitSteps
  <2> QED
      BY <1>1, <1>5, <2>1 DEF Clone, Continue, AtEntry, UpdatePcs, history
<1>6. CASE Checkout
  <2>1. GitStep(CheckedOut(dir[ip_list[k].ip], ip_list[k].commit))
      BY <1>6, GitSteps
  <2> QED
      BY <1>1, <1>6, <2>1 DEF Checkout, Continue, UpdatePcs, history
<1>7. CASE Pull
  <2>1. GitStep(Pulled(dir[ip_list[k].ip], Seen))
      BY <1>7, GitSteps
  <2> QED
      BY <1>1, <1>7, <2>1 DEF Pull, Continue, UpdatePcs, history
<1>8. CASE NotAGitDirectory \/ FetchFails \/ CloneFails \/ CheckoutFails \/ PullFails
  <2>1. Fails /\ UNCHANGED dir /\ pc \in UpdatePcs
      BY <1>8 DEF NotAGitDirectory, FetchFails, CloneFails, CheckoutFails, PullFails, AtEntry,
                  UpdatePcs
  <2>2. k' = k + 1 /\ UNCHANGED <<dir, ip_list, before>>
      BY <2>1 DEF Fails, history
  <2>3. \A j \in 1..Len(ip_list) : Ahead(j)' => Ahead(j)
      BY <1>0, <2>2 DEF Ahead
  <2> QED
      BY <1>0, <2>1, <2>2, <2>3 DEF Untouched
<1>9. CASE StartUpdate
  <2>1. ip_list' \in Lists /\ TypeOK'
      BY <1>9, StepTypeOK DEF StartUpdate, Lists
  <2>2. \A j \in 1..Len(ip_list') : ip_list'[j].ip \in Ips
    <3>1. ip_list' \in Seq(Entry) /\ DOMAIN ip_list' = 1..Len(ip_list')
        BY <2>1, ListsAreSequences
    <3>2. \A j \in 1..Len(ip_list') : ip_list'[j] \in Entry
        BY <3>1
    <3> QED
        BY <3>2 DEF Entry
  <2> QED
      BY <1>9, <2>2 DEF StartUpdate, Untouched
<1>10. CASE Summary
  <2>1. CASE errors = {}
      BY <1>2, <1>10, <2>1 DEF Summary, UpdatePcs, history
  <2>2. CASE errors # {}
      BY <1>3, <1>10, <2>2 DEF Summary, Exit, UpdatePcs
  <2> QED
      BY <2>1, <2>2
<1>11. CASE SaveOpen
    BY <1>2, <1>11 DEF SaveOpen, workspace, history, UpdatePcs
<1>12. CASE StartGenerate \/ SaveWrite \/ GenerateStep \/ Crash \/ UserWorks
    BY <1>3, <1>12
    DEF StartGenerate, SaveWrite, GenerateStep, CleanScripts, LoadDatabase, ImportYaml,
        ImportDone, ExportMake, GenerateVsimTcl, GenerateMakefile, Exit, Crash, UserWorks, UpdatePcs
<1>13. CASE ServerPush \/ UNCHANGED vars
  <2>1. UNCHANGED <<dir, ip_list, before, pc, k>>
      BY <1>13 DEF ServerPush, vars, history
  <2> QED
      BY <1>0, <2>1 DEF Untouched, Ahead
<1> QED
    BY <1>4, <1>5, <1>6, <1>7, <1>8, <1>9, <1>10, <1>11, <1>12, <1>13
    DEF Next, ToolStep, UpdateStep

\* The entries that the loop has passed, and are not listed as errors.
Passed(i) == i \in 1..(k - 1) /\ ip_list[i].ip \notin errors

\* The first part of NoErrorMeansCurrent.
PassedCurrent == pc \in UpdatePcs => \A i \in 1..(k - 1) : Passed(i) => Current(ip_list[i])

\* The entries passed stay current, and the one that is passed now becomes so:
\* by a checkout of its version, or by a checkout of the branch and a pull.
LEMMA StepCurrent ==
    ASSUME IInv, [Next]_vars
    PROVE  NoErrorMeansCurrent'
<1> USE DEF IInv
<1>0. /\ TypeOK /\ Position /\ NoErrorMeansCurrent
      /\ k \in 1..(Len(ip_list) + 1) /\ Len(ip_list) \in Nat
      /\ remote \in [Remotes -> Versions] /\ base \in [Remotes -> Versions]
      /\ Versions = 1..MaxCommit /\ MaxCommit \in Nat
    BY Bounds, ListsAreSequences DEF TypeOK
<1>p. PassedCurrent
    BY <1>0 DEF NoErrorMeansCurrent, PassedCurrent, Passed
<1>q. SUFFICES /\ PassedCurrent'
               /\ pc' \in {"save", "write"} => errors' = {} /\ k' = Len(ip_list') + 1
    BY DEF NoErrorMeansCurrent, PassedCurrent, Passed
\* A step that leaves directories, list and history alone.
<1>1. ASSUME UNCHANGED <<dir, ip_list, base, before>>, pc \in UpdatePcs,
             \/ k' = k /\ errors' = errors
             \/ k' = k + 1 /\ errors' = errors \cup {ip_list[k].ip}
      PROVE  PassedCurrent'
  <2>1. ASSUME NEW i \in 1..(k' - 1), Passed(i)' PROVE Passed(i)
      BY <1>0, <1>1, <2>1 DEF Passed
  <2> QED
      BY <1>p, <1>1, <2>1 DEF PassedCurrent, Passed, Current, Origin
\* A Git command on the entry at hand.
<1>2. ASSUME NEW d, GitStep(d), pc \in UpdatePcs, UNCHANGED <<ip_list, base, before, errors>>,
             \/ k' = k
             \/ k' = k + 1 /\ \A e : e = ip_list[k] => Current(e)'
      PROVE  PassedCurrent'
  <2>1. ASSUME NEW i \in 1..(k - 1), Passed(i) PROVE Current(ip_list[i])'
    <3>1. dir'[ip_list[i].ip] = dir[ip_list[i].ip]
        BY <1>2, GitEffects
    <3> QED
        BY <1>p, <1>2, <2>1, <3>1 DEF PassedCurrent, Current, Origin
  <2> QED
      BY <1>0, <1>2, <2>1 DEF PassedCurrent, Passed
<1>3. CASE Fetch
  <2>1. GitStep(Fetched(dir[ip_list[k].ip], Seen))
      BY <1>3, GitSteps
  <2> QED
      BY <1>2, <1>3, <2>1 DEF Fetch, Continue, AtEntry, UpdatePcs, history
<1>4. CASE Clone
  <2>1. GitStep(NewCopy)
      BY <1>4, GitSteps
  <2> QED
      BY <1>2, <1>4, <2>1 DEF Clone, Continue, AtEntry, UpdatePcs, history
<1>5. CASE Checkout
  <2>1. GitStep(CheckedOut(dir[ip_list[k].ip], ip_list[k].commit))
      BY <1>5, GitSteps
  <2>2. /\ dir'[ip_list[k].ip].kind = dir[ip_list[k].ip].kind
        /\ dir'[ip_list[k].ip].origin = dir[ip_list[k].ip].origin
        /\ dir'[ip_list[k].ip].head = ip_list[k].commit
        /\ dir[ip_list[k].ip].branch # 0 => dir'[ip_list[k].ip].branch = dir[ip_list[k].ip].branch
      BY <2>1, GitEffects, CheckoutEffect
  <2>3. /\ UNCHANGED <<ip_list, base, before, errors>> /\ pc' \in {"loop", "pull"}
        /\ \/ k' = k
           \/ k' = k + 1 /\ ~(pc = "checkout" /\ ~Detached(dir'[ip_list[k].ip]))
      BY <1>5 DEF Checkout, Continue, ip, history
  <2>4. /\ pc \in {"checkout", "checkout_new"}
        /\ dir[ip_list[k].ip].kind = "git"
        /\ dir[ip_list[k].ip].origin = Origin(ip_list[k])
        /\ pc = "checkout_new" => dir[ip_list[k].ip].branch >= base[dir[ip_list[k].ip].origin]
      BY <1>0, <1>5 DEF Checkout, Position
  <2>5. base[dir[ip_list[k].ip].origin] \in 1..MaxCommit
      BY <1>0, <2>1, <2>4, GitEffects
  <2>6. k' = k + 1 => \A e : e = ip_list[k] => Current(e)'
      BY <1>0, <2>2, <2>3, <2>4, <2>5 DEF Current, Detached, Origin
  <2> QED
      BY <1>2, <2>1, <2>3, <2>4, <2>6 DEF UpdatePcs
<1>6. CASE Pull
  <2>1. GitStep(Pulled(dir[ip_list[k].ip], Seen))
      BY <1>6, GitSteps
  <2>3. /\ UNCHANGED <<ip_list, base, before, errors>> /\ pc' = "loop" /\ k' = k + 1 /\ pc = "pull"
      BY <1>6 DEF Pull, Continue, history
  <2>4. /\ dir[ip_list[k].ip].kind = "git"
        /\ dir[ip_list[k].ip].origin = Origin(ip_list[k])
        /\ dir[ip_list[k].ip].head = Branch /\ ip_list[k].commit = Branch
      BY <1>0, <2>3 DEF Position
  <2>2. /\ dir'[ip_list[k].ip].kind = dir[ip_list[k].ip].kind
        /\ dir'[ip_list[k].ip].origin = dir[ip_list[k].ip].origin
        /\ dir'[ip_list[k].ip].head = dir[ip_list[k].ip].head
        /\ dir'[ip_list[k].ip].branch = Seen
      BY <2>1, <2>4, GitEffects, PullEffect
  <2>5. /\ base[dir[ip_list[k].ip].origin] <= Seen
        /\ base[dir[ip_list[k].ip].origin] \in 1..MaxCommit /\ Seen \in 1..MaxCommit
      BY <1>0, <2>1, <2>4, GitEffects DEF Position, Seen
  <2>6. \A e : e = ip_list[k] => Current(e)'
      BY <1>0, <2>2, <2>3, <2>4, <2>5 DEF Current, Origin
  <2> QED
      BY <1>2, <2>1, <2>3, <2>6 DEF UpdatePcs
<1>7. CASE NotAGitDirectory \/ FetchFails \/ CloneFails \/ CheckoutFails \/ PullFails
  <2>1. /\ Fails /\ UNCHANGED dir /\ pc \in UpdatePcs
      BY <1>7 DEF NotAGitDirectory, FetchFails, CloneFails, CheckoutFails, PullFails, AtEntry,
                  UpdatePcs
  <2> QED
      BY <1>1, <2>1 DEF Fails, ip, history
<1>8. CASE StartUpdate
    BY <1>8 DEF StartUpdate, PassedCurrent
<1>9. CASE Summary
  <2>1. CASE errors = {}
      BY <1>0, <1>1, <1>9, <2>1 DEF Summary, history, UpdatePcs
  <2>2. CASE errors # {}
      BY <1>9, <2>2 DEF Summary, Exit, PassedCurrent, UpdatePcs
  <2> QED
      BY <2>1, <2>2
<1>10. CASE SaveOpen
    BY <1>0, <1>1, <1>10 DEF SaveOpen, workspace, history, UpdatePcs, NoErrorMeansCurrent
<1>11. CASE StartGenerate \/ SaveWrite \/ GenerateStep
    BY <1>0, <1>11
    DEF StartGenerate, SaveWrite, GenerateStep, CleanScripts, LoadDatabase,
        ImportYaml, ImportDone, ExportMake, GenerateVsimTcl, GenerateMakefile, Exit,
        PassedCurrent, UpdatePcs
<1>12. CASE Crash
    BY <1>12 DEF Crash, Exit, PassedCurrent, UpdatePcs
<1>13. CASE UserWorks
    BY <1>13 DEF UserWorks, PassedCurrent, UpdatePcs
<1>14. CASE ServerPush \/ UNCHANGED vars
  <2>1. UNCHANGED <<dir, ip_list, base, before, pc, k, errors>>
      BY <1>14 DEF ServerPush, vars, history
  <2>2. PassedCurrent'
      BY <1>p, <2>1 DEF PassedCurrent, Passed, Current, Origin
  <2> QED
      BY <1>0, <2>1, <2>2 DEF NoErrorMeansCurrent
<1> QED
    BY <1>3, <1>4, <1>5, <1>6, <1>7, <1>8, <1>9, <1>10, <1>11, <1>12, <1>13, <1>14
    DEF Next, ToolStep, UpdateStep

\* The cache that update-ips has just saved names downloaded IPs only, and
\* generate-scripts, launched by it, finds them.
LEMMA StepDownloaded ==
    ASSUME IInv, [Next]_vars
    PROVE  Downloaded' /\ LaunchedFindsPaths'
<1> USE DEF IInv
<1>0. /\ TypeOK /\ Downloaded /\ LaunchedFindsPaths /\ NoErrorMeansCurrent
      /\ ip_list \in Lists /\ cache \in Lists \cup {None, Torn}
      /\ k \in 1..(Len(ip_list) + 1)
      /\ DOMAIN ip_list = 1..Len(ip_list) /\ Len(ip_list) \in Nat
      /\ launched \in BOOLEAN
    BY ListsAreSequences DEF TypeOK
\* update_ips is not the script.
<1>1. ASSUME pc' \in UpdatePcs, exit' = "none"
      PROVE  Downloaded' /\ LaunchedFindsPaths'
    BY <1>1 DEF Downloaded, LaunchedFindsPaths, UpdatePcs
\* A process that ends for another reason than a missing path.
<1>2. ASSUME NEW reason \in {"ok", "errors", "exception", "killed"}, Exit(reason)
      PROVE  Downloaded' /\ LaunchedFindsPaths'
    BY <1>2 DEF Exit, Downloaded, LaunchedFindsPaths
<1>3. pc \in UpdatePcs => exit = "none"
    BY <1>0 DEF Downloaded, UpdatePcs
<1>4. CASE StartUpdate
    BY <1>1, <1>4 DEF StartUpdate, UpdatePcs
<1>5. CASE NotAGitDirectory \/ FetchFails \/ CloneFails \/ CheckoutFails \/ PullFails
    BY <1>1, <1>3, <1>5
    DEF NotAGitDirectory, FetchFails, CloneFails, CheckoutFails, PullFails, Fails, AtEntry, UpdatePcs
<1>6. CASE Fetch \/ Clone \/ Checkout \/ Pull
    BY <1>1, <1>3, <1>6 DEF Fetch, Clone, Checkout, Pull, Continue, AtEntry, UpdatePcs
<1>7. CASE Summary
    BY <1>1, <1>2, <1>3, <1>7 DEF Summary, UpdatePcs
<1>8. CASE SaveOpen
    BY <1>1, <1>3, <1>8 DEF SaveOpen, UpdatePcs
<1>9. CASE SaveWrite
  <2>1. \A i \in DOMAIN ip_list : dir[ip_list[i].ip].kind = "git"
      BY <1>0, <1>9 DEF SaveWrite, NoErrorMeansCurrent, Current, UpdatePcs
  <2>2. pc' = "clean" /\ cache' = ip_list /\ dir' = dir /\ exit' = "none"
      BY <1>3, <1>9 DEF SaveWrite, workspace, UpdatePcs
  <2> QED
      BY <1>0, <2>1, <2>2 DEF Downloaded, LaunchedFindsPaths
<1>10. CASE StartGenerate
    BY <1>10 DEF StartGenerate, Downloaded, LaunchedFindsPaths
<1>11. CASE CleanScripts
    BY <1>0, <1>11 DEF CleanScripts, workspace, Downloaded, LaunchedFindsPaths
<1>12. CASE LoadDatabase
  <2>1. CASE cache \in {None, Torn}
      BY <1>2, <1>12, <2>1 DEF LoadDatabase
  <2>2. CASE cache \notin {None, Torn}
    <3>1. /\ pc = "load" /\ pc' = "import" /\ ip_list' = cache
          /\ UNCHANGED <<dir, launched, cache, exit>>
        BY <1>12, <2>2 DEF LoadDatabase, workspace
    <3> QED
        BY <1>0, <3>1 DEF Downloaded, LaunchedFindsPaths
  <2> QED
      BY <2>1, <2>2
<1>13. CASE ImportYaml
  <2>1. pc = "import" /\ k \in DOMAIN ip_list /\ UNCHANGED <<launched, dir, cache>>
      BY <1>0, <1>13 DEF ImportYaml, workspace
  <2>2. CASE dir[ip].kind = "absent"
    <3>1. ~launched
        BY <1>0, <2>1, <2>2 DEF Downloaded, ip
    <3> QED
        BY <1>13, <2>1, <2>2, <3>1 DEF ImportYaml, Exit, Downloaded, LaunchedFindsPaths
  <2>3. CASE dir[ip].kind # "absent"
      BY <1>0, <1>13, <2>1, <2>3 DEF ImportYaml, Downloaded, LaunchedFindsPaths
  <2> QED
      BY <2>2, <2>3
<1>14. CASE ImportDone \/ ExportMake \/ GenerateVsimTcl
    BY <1>0, <1>14
    DEF ImportDone, ExportMake, GenerateVsimTcl, scripts, Downloaded, LaunchedFindsPaths
<1>15. CASE GenerateMakefile
    BY <1>2, <1>15 DEF GenerateMakefile
<1>16. CASE Crash
    BY <1>2, <1>16 DEF Crash
<1>17. CASE UserWorks
    BY <1>0, <1>17 DEF UserWorks, scripts, Downloaded, LaunchedFindsPaths
<1>18. CASE ServerPush \/ UNCHANGED vars
    BY <1>0, <1>18 DEF ServerPush, scripts, vars, Downloaded, LaunchedFindsPaths
<1> QED
    BY <1>4, <1>5, <1>6, <1>7, <1>8, <1>9, <1>10, <1>11, <1>12, <1>13, <1>14, <1>15, <1>16,
       <1>17, <1>18
    DEF Next, ToolStep, UpdateStep, GenerateStep

\* A .mk file, once written, stays; ips.mk and vsim_ips.tcl are written after
\* the .mk files of all the IPs they name.
LEMMA StepExported ==
    ASSUME IInv, [Next]_vars
    PROVE  Exported' /\ ReferencedScriptsExist'
<1> USE DEF IInv
<1>0. /\ TypeOK /\ Exported /\ ReferencedScriptsExist
      /\ k \in 1..(Len(ip_list) + 1) /\ Len(ip_list) \in Nat
    BY ListsAreSequences DEF TypeOK
<1>1. ASSUME pc' \notin {"import", "export", "makefile"}, mk' = mk, ipsmk' = ipsmk, libs' = libs
      PROVE  Exported' /\ ReferencedScriptsExist'
    BY <1>0, <1>1 DEF Exported, ReferencedScriptsExist
<1>2. CASE StartUpdate \/ StartGenerate \/ UserWorks
    BY <1>1, <1>2 DEF StartUpdate, StartGenerate, UserWorks, scripts
<1>3. CASE NotAGitDirectory \/ FetchFails \/ CloneFails \/ CheckoutFails \/ PullFails
    BY <1>1, <1>3
    DEF NotAGitDirectory, FetchFails, CloneFails, CheckoutFails, PullFails, Fails, scripts
<1>4. CASE Fetch \/ Clone \/ Checkout \/ Pull
    BY <1>1, <1>4 DEF Fetch, Clone, Checkout, Pull, Continue, scripts
<1>5. CASE Summary \/ SaveOpen \/ SaveWrite \/ Crash
    BY <1>1, <1>5 DEF Summary, SaveOpen, SaveWrite, Crash, Exit
<1>6. CASE CleanScripts
    BY <1>1, <1>6 DEF CleanScripts, Removed
<1>7. CASE LoadDatabase
    BY <1>0, <1>7 DEF LoadDatabase, Exit, Exported, ReferencedScriptsExist
<1>8. CASE ImportYaml
  <2>1. CASE dir[ip].kind = "absent"
      BY <1>1, <1>8, <2>1 DEF ImportYaml, Exit
  <2>2. CASE dir[ip].kind # "absent"
    <3>1. /\ pc = "import" /\ k <= Len(ip_list) /\ k' = k + 1
          /\ UNCHANGED <<pc, ip_list, mk, ipsmk, libs>>
          /\ dic' \subseteq dic \cup {ip_list[k].ip}
        BY <1>8, <2>2 DEF ImportYaml, ip
    <3>2. dic' \subseteq {ip_list'[i].ip : i \in 1..(k' - 1)}
        BY <1>0, <3>1 DEF Exported
    <3> QED
        BY <1>0, <3>1, <3>2 DEF Exported, ReferencedScriptsExist
  <2> QED
      BY <2>1, <2>2
<1>9. CASE ImportDone
  <2>1. /\ pc = "import" /\ pc' = "export" /\ k = Len(ip_list) + 1 /\ k' = 1
        /\ UNCHANGED <<ip_list, dic, mk, ipsmk, libs>>
      BY <1>0, <1>9 DEF ImportDone, scripts
  <2>2. dic' \subseteq {ip_list'[i].ip : i \in 1..Len(ip_list')}
      BY <1>0, <2>1 DEF Exported
  <2> QED
      BY <1>0, <2>1, <2>2 DEF Exported, ReferencedScriptsExist
<1>10. CASE ExportMake
  <2>1. /\ pc = "export" /\ k <= Len(ip_list) /\ k' = k + 1
        /\ UNCHANGED <<pc, ip_list, dic, ipsmk, libs>>
        /\ mk' = IF ip_list[k].ip \in dic THEN mk \cup {ip_list[k].ip} ELSE mk
      BY <1>10 DEF ExportMake, ip
  <2>2. \A i \in 1..(k' - 1) : ip_list'[i].ip \in dic' => ip_list'[i].ip \in mk'
      BY <1>0, <2>1 DEF Exported
  <2> QED
      BY <1>0, <2>1, <2>2 DEF Exported, ReferencedScriptsExist
<1>11. CASE GenerateVsimTcl
  <2>1. /\ pc = "export" /\ pc' = "makefile" /\ k = Len(ip_list) + 1
        /\ UNCHANGED <<ip_list, k, dic, mk, ipsmk>> /\ libs' = dic
      BY <1>0, <1>11 DEF GenerateVsimTcl
  <2>2. dic \subseteq mk
      BY <1>0, <2>1 DEF Exported
  <2> QED
      BY <1>0, <2>1, <2>2 DEF Exported, ReferencedScriptsExist
<1>12. CASE GenerateMakefile
    BY <1>0, <1>12 DEF GenerateMakefile, Exit, Exported, ReferencedScriptsExist
<1>13. CASE ServerPush \/ UNCHANGED vars
    BY <1>0, <1>13 DEF ServerPush, scripts, vars, Exported, ReferencedScriptsExist
<1> QED
    BY <1>2, <1>3, <1>4, <1>5, <1>6, <1>7, <1>8, <1>9, <1>10, <1>11, <1>12, <1>13
    DEF Next, ToolStep, UpdateStep, GenerateStep

\* A Git command keeps the work in a directory, and a directory that is not
\* a Git directory holds none.
LEMMA StepWork ==
    ASSUME IInv, [Next]_vars
    PROVE  WorkIsInGit' /\ (user' = user => \A i \in Ips : KeepsWork(i))
<1> USE DEF IInv
<1>0. /\ TypeOK /\ Position /\ WorkIsInGit
      /\ dir \in [Ips -> WorkingCopy]
    BY DEF TypeOK
<1>1. ASSUME NEW d, GitStep(d), d.kind = "git", d.origin # None, dir[ip_list[k].ip].kind # "plain",
             dir[ip_list[k].ip].kind = "git" =>
                d.dirty = dir[ip_list[k].ip].dirty /\ d.ahead = dir[ip_list[k].ip].ahead
      PROVE  WorkIsInGit' /\ \A i \in Ips : KeepsWork(i)
  <2>1. dir'[ip_list[k].ip] = d /\ \A i \in Ips : i # ip_list[k].ip => dir'[i] = dir[i]
      BY <1>1, GitEffects
  <2>2. ip_list[k].ip \in Ips
      BY <1>1, GitEffects
  <2>3. WorkIsInGit'
      BY <1>0, <1>1, <2>1, <2>2 DEF WorkIsInGit
  <2>4. \A i \in Ips : KeepsWork(i)
    <3> TAKE i \in Ips
    <3>1. CASE i = ip_list[k].ip
      <4>1. dir[i].kind # "git" => ~dir[i].dirty /\ ~dir[i].ahead
          BY <1>0 DEF WorkIsInGit, NoWork
      <4> QED
          BY <1>1, <2>1, <3>1, <4>1 DEF KeepsWork
    <3>2. CASE i # ip_list[k].ip
        BY <2>1, <3>2 DEF KeepsWork
    <3> QED
        BY <3>1, <3>2
  <2> QED
      BY <2>3, <2>4
<1>2. CASE Fetch
  <2>1. GitStep(Fetched(dir[ip_list[k].ip], Seen)) /\ dir[ip_list[k].ip].kind = "git"
      BY <1>2, GitSteps DEF Fetch, ip
  <2> QED
      BY <1>1, <2>1, GitEffects, FetchEffect, ConstantsAssumption
<1>3. CASE Clone
  <2>1. GitStep(NewCopy) /\ dir[ip_list[k].ip].kind = "absent"
      BY <1>3, GitSteps DEF Clone, ip
  <2>2. NewCopy.kind = "git" /\ NewCopy.origin \in Remotes
      BY <2>1, GitEffects, CloneEffect DEF NewCopy
  <2> QED
      BY <1>1, <2>1, <2>2, ConstantsAssumption
<1>4. CASE Checkout
  <2>1. GitStep(CheckedOut(dir[ip_list[k].ip], ip_list[k].commit)) /\ dir[ip_list[k].ip].kind = "git"
      BY <1>0, <1>4, GitSteps DEF Checkout, Position
  <2> QED
      BY <1>1, <2>1, GitEffects, CheckoutEffect, ConstantsAssumption
<1>5. CASE Pull
  <2>1. GitStep(Pulled(dir[ip_list[k].ip], Seen)) /\ dir[ip_list[k].ip].kind = "git"
      BY <1>0, <1>5, GitSteps DEF Pull, Position
  <2> QED
      BY <1>1, <2>1, GitEffects, PullEffect, ConstantsAssumption
<1>6. CASE UNCHANGED dir
    BY <1>0, <1>6 DEF WorkIsInGit, KeepsWork
<1>7. CASE Crash
  <2>1. CASE AtEntry /\ dir[ip].kind = "absent" /\ dir' = [dir EXCEPT ![ip] = Unborn(ip_list[k].remote)]
    <3>1. GitStep(Unborn(ip_list[k].remote)) /\ dir[ip_list[k].ip].kind = "absent"
        BY <2>1 DEF AtEntry, ip, GitStep
    <3> QED
        BY <1>1, <3>1, GitEffects, UnbornCopy, ConstantsAssumption
  <2> QED
      BY <1>6, <1>7, <2>1 DEF Crash
<1>8. CASE UserWorks
  <2>1. user' # user
      BY <1>0, <1>8, ConstantsAssumption DEF UserWorks, TypeOK
  <2> DEFINE Edits(i) == {Absent, Plain, [dir[i] EXCEPT !.dirty = TRUE],
                          [dir[i] EXCEPT !.dirty = FALSE, !.ahead = TRUE]}
             Edit(i, d) == /\ d.dirty => dir[i].kind = "git"
                           /\ d.ahead /\ ~dir[i].ahead => dir[i].branch > 0
                           /\ dir' = [dir EXCEPT ![i] = d]
  <2>i. PICK i \in Ips : \E d \in Edits(i) : Edit(i, d)
      BY <1>8 DEF UserWorks
  <2>2. PICK d \in Edits(i) :
           /\ d.dirty => dir[i].kind = "git"
           /\ d.ahead /\ ~dir[i].ahead => dir[i].branch > 0
           /\ dir' = [dir EXCEPT ![i] = d]
      BY <2>i
  <2>3. dir[i] \in WorkingCopy
      BY <1>0
  <2>4. IF d.kind = "git" THEN d.origin # None ELSE NoWork(d)
    <3>0. IF dir[i].kind = "git" THEN dir[i].origin # None ELSE NoWork(dir[i])
        BY <1>0 DEF WorkIsInGit
    <3>1. CASE d \in {Absent, Plain}
        BY <3>1, InitialCopies DEF NoWork
    <3>2. CASE d = [dir[i] EXCEPT !.dirty = TRUE]
      <4>1. d.kind = dir[i].kind /\ d.origin = dir[i].origin /\ d.dirty
          BY <2>3, <3>2 DEF WorkingCopy
      <4> QED
          BY <2>2, <3>0, <4>1
    <3>3. CASE d = [dir[i] EXCEPT !.dirty = FALSE, !.ahead = TRUE]
      <4> DEFINE m == [dir[i] EXCEPT !.dirty = FALSE]
      <4>1. m \in WorkingCopy /\ m.kind = dir[i].kind /\ m.origin = dir[i].origin
          BY <2>3 DEF WorkingCopy
      <4>2. d = [m EXCEPT !.ahead = TRUE]
          BY <3>3
      <4> HIDE DEF m
      <4>3. d.kind = dir[i].kind /\ d.origin = dir[i].origin /\ d.ahead
          BY <4>1, <4>2 DEF WorkingCopy
      <4>4. dir[i].ahead \/ dir[i].branch > 0
          BY <2>2, <4>3
      <4>5. dir[i].kind = "git"
          BY <3>0, <4>4 DEF NoWork
      <4> QED
          BY <3>0, <4>3, <4>5
    <3> QED
        BY <2>2, <3>1, <3>2, <3>3
  <2>5. \A j \in Ips : dir'[j] = IF j = i THEN d ELSE dir[j]
      BY <1>0, <2>2
  <2> QED
      BY <1>0, <2>1, <2>4, <2>5 DEF WorkIsInGit
<1>9. CASE UNCHANGED vars
    BY <1>6, <1>9 DEF vars
<1> QED
    BY <1>2, <1>3, <1>4, <1>5, <1>6, <1>7, <1>8, <1>9
    DEF Next, ToolStep, UpdateStep, GenerateStep, StartUpdate, StartGenerate, ServerPush,
        NotAGitDirectory, FetchFails, CloneFails, CheckoutFails, PullFails, Summary, SaveOpen,
        SaveWrite, CleanScripts, LoadDatabase, ImportYaml, ImportDone, ExportMake,
        GenerateVsimTcl, GenerateMakefile, workspace

(***************************************************************************)
(* Theorems                                                                *)
(***************************************************************************)

\* An empty workspace satisfies the invariant.
LEMMA InitIInv == Init => IInv
<1> SUFFICES ASSUME Init PROVE IInv
    OBVIOUS
<1>1. TypeOK
  <2>1. 1 \in Versions /\ Absent \in WorkingCopy /\ <<>> \in Lists /\ Len(<<>>) = 0
      BY Bounds, InitialCopies DEF Lists
  <2>2. remote \in [Remotes -> Versions] /\ base \in [Remotes -> Versions] /\ dir \in [Ips -> WorkingCopy]
        /\ before \in [Ips -> Remotes \cup {None}]
      BY <2>1 DEF Init, FirstCommits, NoOrigins
  <2>3. user \in 0..MaxUser /\ crashes \in 0..MaxCrash
      BY ConstantsAssumption DEF Init
  <2>4. ip_list \in Lists /\ k \in 1..(Len(ip_list) + 1)
      BY <2>1 DEF Init
  <2>5. /\ pc \in {"idle"} \cup UpdatePcs \cup GeneratePcs
        /\ cache \in Lists \cup {None, Torn} /\ launched \in BOOLEAN
        /\ exit \in {"none", "ok", "errors", "missing_path", "exception", "killed"}
      BY DEF Init
  <2>6. /\ errors \subseteq Ips /\ dic \subseteq Ips /\ mk \subseteq Ips
        /\ libs \subseteq Ips /\ ipsmk \subseteq Ips
      BY DEF Init
  <2> QED
      BY <2>2, <2>3, <2>4, <2>5, <2>6 DEF TypeOK
<1>2. Position /\ Untouched
    BY Bounds DEF Init, Position, Untouched, FirstCommits, UpdatePcs
<1>3. NoErrorMeansCurrent
    BY DEF Init, NoErrorMeansCurrent, UpdatePcs
<1>4. Downloaded /\ LaunchedFindsPaths
    BY DEF Init, Downloaded, LaunchedFindsPaths
<1>5. Exported /\ ReferencedScriptsExist
    BY DEF Init, Exported, ReferencedScriptsExist
<1>6. WorkIsInGit
    BY InitialCopies DEF Init, WorkIsInGit, NoWork
<1> QED
    BY <1>1, <1>2, <1>3, <1>4, <1>5, <1>6 DEF IInv

\* The inductive invariant holds in every run.
LEMMA Invariance == Spec => []IInv
<1>1. IInv /\ [Next]_vars => IInv'
    BY StepTypeOK, StepPosition, StepUntouched, StepCurrent, StepDownloaded, StepExported, StepWork DEF IInv
<1> QED
    BY <1>1, InitIInv, PTL DEF Spec

\* Types are kept.
THEOREM TypeCorrect == Spec => []TypeOK
<1>1. IInv => TypeOK
    BY DEF IInv
<1> QED
    BY <1>1, Invariance, PTL

\* Whatever update_ips passes without an error is current with its origin,
\* the repository of the list when it was cloned now and the one it had
\* otherwise: for any list, any state of the directories and any pushes
\* during the run.
THEOREM SuccessIsTrue == Spec => []NoErrorMeansCurrent
<1>1. IInv => NoErrorMeansCurrent
    BY DEF IInv
<1> QED
    BY <1>1, Invariance, PTL

\* generate-scripts, launched by update-ips, never misses the path of an IP.
THEOREM LaunchedAlwaysFindsPaths == Spec => []LaunchedFindsPaths
<1>1. IInv => LaunchedFindsPaths
    BY DEF IInv
<1> QED
    BY <1>1, Invariance, PTL

\* The generated scripts never refer to an IP without a .mk file.
THEOREM ScriptsAlwaysExist == Spec => []ReferencedScriptsExist
<1>1. IInv => ReferencedScriptsExist
    BY DEF IInv
<1> QED
    BY <1>1, Invariance, PTL

\* No step of the tools discards the user's work.
THEOREM WorkIsNeverLost == Spec => NoWorkLost
<1>1. IInv /\ [Next]_vars => [user' = user => \A i \in Ips : KeepsWork(i)]_vars
    BY StepWork
<1> QED
    BY <1>1, Invariance, PTL DEF Spec, NoWorkLost
=============================================================================
