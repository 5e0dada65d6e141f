----------------------------- MODULE IpsUpdate -----------------------------
(***************************************************************************)
(* From the resolved list of IPs to the compilation scripts: update_ips of *)
(* ipstools/IPDatabase.py over the Git working copies under ips/, the      *)
(* cache file that update-ips saves, and generate-scripts, which reads the *)
(* cache and writes one .mk per IP and the ips.mk that calls them.         *)
(*                                                                         *)
(* One action per Git command or per file written, so that a push to a     *)
(* remote, a killed process and the next run of either script fall between *)
(* any two of them.  Git itself is external: a branch is the number of     *)
(* commits of the remote it contains, a pinned version the number of one.  *)
(* The server, group and name of an entry are one repository.              *)
(***************************************************************************)
EXTENDS Naturals, Sequences, FiniteSets

CONSTANTS
    Ips,          \* directories under ips/, one per IP
    Remotes,      \* repositories: server, group (or the defaults) and name
    Branch,       \* the commit of an entry that names a branch
    None,         \* no file, no origin
    Torn,         \* a file truncated by open(..., "w") and not written yet
    IpLists,      \* the resolved lists the runs may work on
    NoSrcFiles,   \* the IPs without a src_files.yml
    MaxCommit,    \* bound: commits pushed to a remote
    MaxUser,      \* bound: actions of the user between runs
    MaxCrash      \* bound: killed runs

Versions == 1..MaxCommit
Entry == [ip : Ips, remote : Remotes, commit : Versions \cup {Branch}]

ASSUME ConstantsAssumption ==
    /\ Branch \notin Nat
    /\ MaxCommit \in Nat \ {0}
    /\ MaxUser \in Nat
    /\ MaxCrash \in Nat
    /\ IpLists \subseteq Seq(Entry)
    /\ \A l \in IpLists : \A i, j \in DOMAIN l : l[i].ip = l[j].ip => i = j
    /\ None \notin IpLists
    /\ Torn \notin IpLists
    /\ None # Torn
    /\ None \notin Remotes

VARIABLES
    remote,     \* tip of the branch of each repository
    dir,        \* the working copy of each IP
    ip_list,    \* IPDatabase.ip_list of the run in progress
    pc, k,      \* where the run is, and at which entry of ip_list
    errors,     \* the IPs update_ips appended to its list of errors
    base,       \* remote when update_ips began (history)
    before,     \* the origins of the working copies when update_ips began (history)
    cache,      \* .cached_ipdb.json
    launched,   \* generate-scripts was executed by update-ips
    dic,        \* keys of IPDatabase.ip_dic
    mk,         \* the IPs that have a file in sim/vcompile/ips
    libs,       \* the libraries of sim/tcl_files/config/vsim_ips.tcl
    ipsmk,      \* the IPs that sim/vcompile/ips.mk calls make for
    exit,       \* how the last process ended
    user, crashes   \* counters of the bounds

history == <<base, before>>
workspace == <<remote, dir, history>>
scripts == <<cache, launched, dic, mk, libs, ipsmk>>
bounds == <<user, crashes>>
vars == <<remote, dir, ip_list, pc, k, errors, base, before, cache, launched, dic,
          mk, libs, ipsmk, exit, user, crashes>>

(***************************************************************************)
(* Git, as update_ips uses it                                              *)
(***************************************************************************)
Absent == [kind |-> "absent", origin |-> None, head |-> Branch, branch |-> 0,
           ahead |-> FALSE, known |-> 0, dirty |-> FALSE]
Plain == [Absent EXCEPT !.kind = "plain"]
Unborn(repo) == [Absent EXCEPT !.kind = "git", !.origin = repo]

\* fetch updates what is known of the remote, pull --ff-only the branch too;
\* a clone is a directory with the remote's branch.  Both use the origin the
\* directory was cloned from, whatever the list says.
Fetched(d, tip) == [d EXCEPT !.known = tip]
Pulled(d, tip) == Fetched([d EXCEPT !.branch = tip], tip)
Cloned(repo, tip) == Pulled(Unborn(repo), tip)

\* checkout moves HEAD; the first checkout of a branch creates it from the
\* fetched one.  It never overwrites local changes: it may refuse instead.
CanCheckout(d, v) == IF v = Branch THEN d.branch > 0 \/ d.known > 0 ELSE v <= d.known
MayRefuse(d) == d.dirty
CheckedOut(d, v) ==
    IF v = Branch /\ d.branch = 0
    THEN [d EXCEPT !.head = Branch, !.branch = d.known]
    ELSE [d EXCEPT !.head = v]

\* --ff-only: refused when the branch has diverged.
CanPull(d, tip) == ~d.ahead \/ d.branch = tip

Detached(d) == d.head # Branch

\* What the working copy of a Git directory holds is known; a directory of
\* the user's may or may not hold a src_files.yml.
MayHaveSrcFiles(i) ==
    CASE dir[i].kind = "plain" -> BOOLEAN
      [] dir[i].kind = "git"   -> {i \notin NoSrcFiles /\ (Detached(dir[i]) \/ dir[i].branch > 0)}

(***************************************************************************)
(* update_ips                                                              *)
(***************************************************************************)
ip == ip_list[k].ip
commit == ip_list[k].commit
Tip == remote[dir[ip].origin]

FirstCommits == [repo \in Remotes |-> 1]
NoOrigins == [i \in Ips |-> None]

\* The process ends and its memory is gone.
Exit(reason) ==
    /\ pc' = "idle"
    /\ exit' = reason
    /\ ip_list' = <<>>
    /\ k' = 1
    /\ errors' = {}
    /\ dic' = {}
    /\ base' = FirstCommits
    /\ before' = NoOrigins

StartUpdate ==
    /\ pc = "idle"
    /\ ip_list' \in IpLists
    /\ pc' = "loop"
    /\ k' = 1
    /\ errors' = {}
    /\ base' = remote
    /\ before' = [i \in Ips |-> dir[i].origin]
    /\ exit' = "none"
    /\ UNCHANGED <<remote, dir, scripts, bounds>>

AtEntry == pc = "loop" /\ k <= Len(ip_list)

\* Mutant: the entry is tried again.
FailsAndRetries ==
    /\ errors' = errors \cup {ip}
    /\ pc' = "loop"
    /\ UNCHANGED <<remote, ip_list, k, history, exit, scripts, bounds>>

\* errors.append(...); continue
Fails ==
    /\ errors' = errors \cup {ip}
    /\ pc' = "loop"
    /\ k' = k + 1
    /\ UNCHANGED <<remote, ip_list, history, exit, scripts, bounds>>

Continue(next) ==
    /\ pc' = next
    /\ k' = IF next = "loop" THEN k + 1 ELSE k
    /\ UNCHANGED <<remote, ip_list, history, errors, exit, scripts, bounds>>

NotAGitDirectory ==
    /\ AtEntry
    /\ dir[ip].kind = "plain"
    /\ Fails
    /\ UNCHANGED dir

Fetch ==
    /\ AtEntry
    /\ dir[ip].kind = "git"
    /\ dir' = [dir EXCEPT ![ip] = Fetched(@, Tip)]
    /\ Continue("checkout")

FetchFails ==
    /\ AtEntry
    /\ dir[ip].kind = "git"
    /\ Fails
    /\ UNCHANGED dir

Clone ==
    /\ AtEntry
    /\ dir[ip].kind = "absent"
    /\ dir' = [dir EXCEPT ![ip] = Cloned(ip_list[k].remote, remote[ip_list[k].remote])]
    /\ Continue("checkout_new")

CloneFails ==
    /\ AtEntry
    /\ dir[ip].kind = "absent"
    /\ Fails
    /\ UNCHANGED dir

\* Mutant: the test for a detached HEAD is inverted.
CheckoutThenPullPinned ==
    /\ pc \in {"checkout", "checkout_new"}
    /\ CanCheckout(dir[ip], commit)
    /\ dir' = [dir EXCEPT ![ip] = CheckedOut(@, commit)]
    /\ Continue(IF pc = "checkout" /\ Detached(dir'[ip]) THEN "pull" ELSE "loop")

Checkout ==
    /\ pc \in {"checkout", "checkout_new"}
    /\ CanCheckout(dir[ip], commit)
    /\ dir' = [dir EXCEPT ![ip] = CheckedOut(@, commit)]
    /\ Continue(IF pc = "checkout" /\ ~Detached(dir'[ip]) THEN "pull" ELSE "loop")

CheckoutFails ==
    /\ pc \in {"checkout", "checkout_new"}
    /\ ~CanCheckout(dir[ip], commit) \/ MayRefuse(dir[ip])
    /\ Fails
    /\ UNCHANGED dir

\* Mutant: reset --hard instead of pull --ff-only.
PullHard ==
    /\ pc = "pull"
    /\ dir' = [dir EXCEPT ![ip] = Cloned(dir[ip].origin, Tip)]
    /\ Continue("loop")

Pull ==
    /\ pc = "pull"
    /\ CanPull(dir[ip], Tip)
    /\ dir' = [dir EXCEPT ![ip] = Pulled(@, Tip)]
    /\ Continue("loop")

\* The branch diverged, local changes are in the way, or the network is down.
PullFails ==
    /\ pc = "pull"
    /\ Fails
    /\ UNCHANGED dir

\* sys.exit(1) when there are errors: neither the cache nor the scripts change.
Summary ==
    /\ pc = "loop"
    /\ k > Len(ip_list)
    /\ IF errors = {}
       THEN pc' = "save" /\ UNCHANGED <<ip_list, k, errors, dic, exit, history>>
       ELSE Exit("errors")
    /\ UNCHANGED <<remote, dir, cache, launched, mk, libs, ipsmk, bounds>>

(***************************************************************************)
(* save_database and generate-scripts                                      *)
(***************************************************************************)
\* Mutant: a cache that exists is kept.
SaveOpenKeeps ==
    /\ pc = "save"
    /\ IF cache \in {None, Torn}
       THEN cache' = Torn /\ pc' = "write" /\ UNCHANGED launched
       ELSE launched' = TRUE /\ pc' = "clean" /\ UNCHANGED cache
    /\ UNCHANGED <<workspace, ip_list, k, errors, dic, mk, libs, ipsmk, exit, bounds>>

SaveOpen ==
    /\ pc = "save"
    /\ cache' = Torn
    /\ pc' = "write"
    /\ UNCHANGED <<workspace, ip_list, k, errors, launched, dic, mk, libs, ipsmk, exit, bounds>>

\* Mutant: the last IP is left out of what is dumped.
SaveWriteButLast ==
    /\ pc = "write"
    /\ cache' = SubSeq(ip_list, 1, Len(ip_list) - 1)
    /\ launched' = TRUE
    /\ pc' = "clean"
    /\ UNCHANGED <<workspace, ip_list, k, errors, dic, mk, libs, ipsmk, exit, bounds>>

SaveWrite ==
    /\ pc = "write"
    /\ cache' = ip_list
    /\ launched' = TRUE
    /\ pc' = "clean"
    /\ UNCHANGED <<workspace, ip_list, k, errors, dic, mk, libs, ipsmk, exit, bounds>>

\* The user runs generate-scripts alone.
StartGenerate ==
    /\ pc = "idle"
    /\ launched' = FALSE
    /\ pc' = "clean"
    /\ exit' = "none"
    /\ UNCHANGED <<workspace, ip_list, k, errors, cache, dic, mk, libs, ipsmk, bounds>>

\* Mutant: the shell's reading of rm -rf sim/vcompile/ips/*
RemovedAll(files) == {}

\* rm -rf gets the pattern itself as a file name, there is no shell between.
Removed(files) == files

CleanScripts ==
    /\ pc = "clean"
    /\ mk' = Removed(mk)
    /\ pc' = "load"
    /\ UNCHANGED <<workspace, ip_list, k, errors, cache, launched, dic, libs, ipsmk, exit, bounds>>

LoadDatabase ==
    /\ pc = "load"
    /\ IF cache \in {None, Torn}
       THEN Exit("exception")
       ELSE /\ pc' = "import"
            /\ ip_list' = cache
            /\ k' = 1
            /\ dic' = {}
            /\ UNCHANGED <<errors, exit, history>>
    /\ UNCHANGED <<remote, dir, cache, launched, mk, libs, ipsmk, bounds>>

\* import_yaml of one IP: no directory ends the program, no src_files.yml
\* skips the IP.
ImportYaml ==
    /\ pc = "import"
    /\ k <= Len(ip_list)
    /\ IF dir[ip].kind = "absent"
       THEN Exit("missing_path")
       ELSE /\ \E has \in MayHaveSrcFiles(ip) : dic' = IF has THEN dic \cup {ip} ELSE dic
            /\ k' = k + 1
            /\ UNCHANGED <<pc, ip_list, errors, exit, history>>
    /\ UNCHANGED <<remote, dir, cache, launched, mk, libs, ipsmk, bounds>>

ImportDone ==
    /\ pc = "import"
    /\ k > Len(ip_list)
    /\ pc' = "export"
    /\ k' = 1
    /\ UNCHANGED <<workspace, ip_list, errors, scripts, exit, bounds>>

ExportMake ==
    /\ pc = "export"
    /\ k <= Len(ip_list)
    /\ mk' = IF ip \in dic THEN mk \cup {ip} ELSE mk
    /\ k' = k + 1
    /\ UNCHANGED <<workspace, ip_list, pc, errors, cache, launched, dic, libs, ipsmk, exit, bounds>>

GenerateVsimTcl ==
    /\ pc = "export"
    /\ k > Len(ip_list)
    /\ libs' = dic
    /\ pc' = "makefile"
    /\ UNCHANGED <<workspace, ip_list, k, errors, cache, launched, dic, mk, ipsmk, exit, bounds>>

GenerateMakefile ==
    /\ pc = "makefile"
    /\ ipsmk' = dic
    /\ Exit("ok")
    /\ UNCHANGED <<remote, dir, cache, launched, mk, libs, bounds>>

(***************************************************************************)
(* The rest of the world                                                   *)
(***************************************************************************)
\* The process is killed.  A clone may have left its half-made directory.
Crash ==
    /\ pc # "idle"
    /\ crashes < MaxCrash
    /\ \/ UNCHANGED dir
       \/ AtEntry /\ dir[ip].kind = "absent" /\ dir' = [dir EXCEPT ![ip] = Unborn(ip_list[k].remote)]
    /\ Exit("killed")
    /\ crashes' = crashes + 1
    /\ UNCHANGED <<remote, cache, launched, mk, libs, ipsmk, user>>

\* Somebody pushes to the branch, at any time.
ServerPush ==
    /\ \E repo \in Remotes : remote[repo] < MaxCommit /\ remote' = [remote EXCEPT ![repo] = @ + 1]
    /\ UNCHANGED <<dir, ip_list, pc, k, errors, history, scripts, exit, bounds>>

\* Between runs the user edits files, commits all changes on a branch, makes
\* or deletes a directory.
UserWorks ==
    /\ pc = "idle"
    /\ user < MaxUser
    /\ \E i \in Ips :
          \E d \in {Absent, Plain, [dir[i] EXCEPT !.dirty = TRUE],
                    [dir[i] EXCEPT !.dirty = FALSE, !.ahead = TRUE]} :
             /\ d.dirty => dir[i].kind = "git"
             /\ d.ahead /\ ~dir[i].ahead => dir[i].head = Branch /\ dir[i].branch > 0
             /\ d = Plain => dir[i].kind = "absent"
             /\ dir' = [dir EXCEPT ![i] = d]
    /\ user' = user + 1
    /\ UNCHANGED <<remote, ip_list, pc, k, errors, history, scripts, exit, crashes>>

Init ==
    /\ remote = FirstCommits
    /\ dir = [i \in Ips |-> Absent]
    /\ ip_list = <<>>
    /\ pc = "idle"
    /\ k = 1
    /\ errors = {}
    /\ base = FirstCommits
    /\ before = NoOrigins
    /\ cache = None
    /\ launched = FALSE
    /\ dic = {}
    /\ mk = {}
    /\ libs = {}
    /\ ipsmk = {}
    /\ exit = "none"
    /\ user = 0
    /\ crashes = 0

UpdateStep == \/ NotAGitDirectory \/ Fetch \/ FetchFails \/ Clone \/ CloneFails
              \/ Checkout \/ CheckoutFails \/ Pull \/ PullFails \/ Summary
              \/ SaveOpen \/ SaveWrite
GenerateStep == \/ CleanScripts \/ LoadDatabase \/ ImportYaml \/ ImportDone
                \/ ExportMake \/ GenerateVsimTcl \/ GenerateMakefile
ToolStep == UpdateStep \/ GenerateStep

Next == StartUpdate \/ StartGenerate \/ ToolStep \/ Crash \/ ServerPush \/ UserWorks

Spec == Init /\ [][Next]_vars
\* A started program keeps executing; nobody has to start it.
FairSpec == Spec /\ WF_vars(ToolStep)

(***************************************************************************)
(* Properties                                                              *)
(***************************************************************************)
UpdatePcs == {"loop", "checkout", "checkout_new", "pull", "save", "write"}
GeneratePcs == {"clean", "load", "import", "export", "makefile"}
Lists == IpLists \cup {<<>>}

WorkingCopy ==
    [kind : {"absent", "plain", "git"}, origin : Remotes \cup {None},
     head : Versions \cup {Branch}, branch : 0..MaxCommit, ahead : BOOLEAN,
     known : 0..MaxCommit, dirty : BOOLEAN]

\* Working copies, files and the position in the list keep their types; the
\* cache is absent, truncated or a list some run resolved.
TypeOK ==
    /\ remote \in [Remotes -> Versions]
    /\ dir \in [Ips -> WorkingCopy]
    /\ ip_list \in Lists
    /\ pc \in {"idle"} \cup UpdatePcs \cup GeneratePcs
    /\ k \in 1..(Len(ip_list) + 1)
    /\ errors \subseteq Ips
    /\ base \in [Remotes -> Versions]
    /\ before \in [Ips -> Remotes \cup {None}]
    /\ cache \in Lists \cup {None, Torn}
    /\ launched \in BOOLEAN
    /\ dic \subseteq Ips
    /\ mk \subseteq Ips
    /\ libs \subseteq Ips
    /\ ipsmk \subseteq Ips
    /\ exit \in {"none", "ok", "errors", "missing_path", "exception", "killed"}
    /\ user \in 0..MaxUser
    /\ crashes \in 0..MaxCrash

\* A directory that this run cloned comes from the repository the list names;
\* one that was there keeps the origin it had.
Origin(entry) == IF before[entry.ip] = None THEN entry.remote ELSE before[entry.ip]

\* The working copy is what the entry asks for: HEAD at the pinned version,
\* or on the branch with everything that was pushed before the run began.
Current(entry) ==
    LET d == dir[entry.ip]
    IN  /\ d.kind = "git"
        /\ d.origin = Origin(entry)
        /\ d.head = entry.commit
        /\ entry.commit = Branch => d.branch >= base[d.origin]

\* An IP that update_ips has passed without listing an error is current with
\* its origin, whatever the state of its directory was (left by an older list,
\* by a killed run, by the user) and whatever is pushed meanwhile.  So
\* "IPs updated successfully!" says that the directories cloned by this run
\* come from the repositories of the list, and that the others are up to date
\* with the repository they were once cloned from: a list that moves an IP
\* to another server or group leaves it on the old one, without an error.
NoErrorMeansCurrent ==
    /\ pc \in UpdatePcs =>
          \A i \in 1..(k - 1) : ip_list[i].ip \notin errors => Current(ip_list[i])
    /\ pc \in {"save", "write"} => errors = {} /\ k = Len(ip_list) + 1

\* generate-scripts, when update-ips launches it, never stops at an IP path
\* that does not exist: what is in the cache has been downloaded.
LaunchedFindsPaths == exit = "missing_path" => ~launched

\* Neither ips.mk nor vsim_ips.tcl ever refers to an IP without a .mk file,
\* even when a run with another list is killed between two files.
ReferencedScriptsExist == ipsmk \subseteq mk /\ libs \subseteq mk

\* No step of the tools discards uncommitted changes, commits of the user's
\* on a branch, or a directory that is not a Git directory.
KeepsWork(i) ==
    /\ dir[i].dirty => dir'[i].dirty
    /\ dir[i].ahead => dir'[i].ahead
    /\ dir[i].kind = "plain" => dir'[i] = dir[i]
NoWorkLost == [][user' = user => \A i \in Ips : KeepsWork(i)]_vars

\* A started script ends: no error path repeats an entry.
RunTerminates == (pc # "idle") ~> (pc = "idle")
=============================================================================
