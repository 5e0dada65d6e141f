---------------------------- MODULE IpsMaintain ----------------------------
(***************************************************************************)
(* The maintenance commands of ipstools/IPDatabase.py over the downloaded  *)
(* IPs: diff_ips, remove_ips, tag_ips, push_tag_ips, delete_tag_ips and    *)
(* get_latest_ips, with the lists that load_ips_list reads and             *)
(* store_ips_list writes.                                                  *)
(*                                                                         *)
(* A command is a loop over ip_list; one step is one IP, and the user may  *)
(* work in any IP between two steps.  Git is external: commits of an IP    *)
(* are numbered along its branch, a tag is the number of a commit, 0 when  *)
(* the tag does not exist.                                                 *)
(***************************************************************************)
EXTENDS Naturals, Sequences

CONSTANTS
    IpList,       \* the IPs of ips_list.yml in their order
    Tags,
    None,
    Pythons,      \* major versions of the interpreters in use
    UnknownIps,   \* ips/ also holds directories that no list names
    MaxCommit,    \* bound: commits of an IP
    MaxUser,      \* bound: actions of the user
    MaxRuns       \* bound: commands

Ips == {IpList[n] : n \in DOMAIN IpList}

ASSUME ConstantsAssumption ==
    /\ IpList \in Seq(Ips)
    /\ \A m, n \in DOMAIN IpList : IpList[m] = IpList[n] => m = n
    /\ None \notin Tags
    /\ Tags \cap Nat = {}
    /\ Pythons \subseteq {2, 3}
    /\ UnknownIps \in BOOLEAN
    /\ MaxCommit \in Nat \ {0}
    /\ MaxUser \in Nat
    /\ MaxRuns \in Nat

VARIABLES
    dir,          \* the working copy of each IP, None when there is none
    tags,         \* the tags of each working copy
    remote,       \* tip of the branch of each remote
    remote_tags,  \* the tags of each remote
    ips_dir,      \* the directory of all IPs exists
    python,       \* the interpreter that runs the command
    cmd, pc, k,   \* the command, its phase, and its position in ip_list
    changed,      \* unstaged_ips and staged_ips of diff_ips
    new_ips,      \* entries collected for the new list
    stored,       \* new_ips_list.yml, or None
    adopted,      \* the user has replaced ips_list.yml by the stored list
    exit,         \* how the last command ended
    touched,      \* history: the IPs the user worked in since the command began
    warned,       \* history: the IPs for which the command reported "could not tag"
    agreed,       \* history: the IPs unchanged since tag_ips listed their tag
    user, runs    \* counters of the bounds

git == <<dir, tags, remote, remote_tags, ips_dir>>
files == <<stored, adopted>>
history == <<touched, warned, agreed>>
bounds == <<user, runs>>
vars == <<git, python, cmd, pc, k, changed, new_ips, files, exit, history, bounds>>

Commits == 1..MaxCommit
WorkingCopy == [head : Commits, staged : BOOLEAN, unstaged : BOOLEAN]
Clean(commit) == [head |-> commit, staged |-> FALSE, unstaged |-> FALSE]

Severities == {"warning", "error"}
Commands ==
    [op : {"diff"}] \cup [op : {"remove"}, skip_check : BOOLEAN]
    \cup [op : {"tag"}, tag : Tags, severity : Severities, always : BOOLEAN, store : BOOLEAN]
    \cup [op : {"push"}, tag : Tags \cup {None}] \cup [op : {"delete"}, tag : Tags]
    \cup [op : {"latest"}, severity : Severities]

Present(i) == dir[i] # None
Changed(i) == dir[i].staged \/ dir[i].unstaged
ip == IpList[k]

(***************************************************************************)
(* Git, as the commands use it                                             *)
(***************************************************************************)
\* git describe --tags --abbrev=0: the newest tag that HEAD reaches.  Among
\* tags of one commit Git has a fixed preference.
Reached(i) == {t \in Tags : tags[i][t] \in 1..dir[i].head}
Describe(i) ==
    IF Reached(i) = {} THEN None
    ELSE CHOOSE t \in Reached(i) : \A u \in Reached(i) : tags[i][u] <= tags[i][t]

\* git push origin tags/t: refused when the remote has the tag elsewhere.
CanPush(i, t) == /\ t \in Tags
                 /\ tags[i][t] # 0
                 /\ remote_tags[i][t] \in {0, tags[i][t]}

(***************************************************************************)
(* The commands                                                            *)
(***************************************************************************)
\* The process ends and its memory is gone.
Exit(reason) ==
    /\ pc' = "idle"
    /\ exit' = reason
    /\ k' = 1
    /\ changed' = {}
    /\ new_ips' = <<>>

\* A dump of an OrderedDict carries a Python tag, which SafeLoader refuses.
LoadIpsList == IF adopted THEN "yaml_error" ELSE "none"

Start ==
    /\ pc = "idle"
    /\ runs < MaxRuns
    /\ python' \in Pythons
    /\ cmd' \in Commands
    /\ exit' = LoadIpsList
    /\ pc' = IF exit' # "none" THEN "idle" ELSE IF cmd'.op = "remove" THEN "diff" ELSE cmd'.op
    /\ touched' = {}
    /\ warned' = {}
    /\ runs' = runs + 1
    /\ UNCHANGED <<git, k, changed, new_ips, files, agreed, user>>

AtIp(phase) == pc = phase /\ k <= Len(IpList)
LoopDone(phase) == pc = phase /\ k > Len(IpList)
NextIp == k' = k + 1 /\ UNCHANGED <<python, cmd, pc, exit, files, touched, bounds>>

\* Popen gives bytes in Python 3, and bytes.split("\n") raises TypeError.
SplitRaises ==
    /\ \E phase \in {"diff", "tag", "latest"} : AtIp(phase)
    /\ Present(ip)
    /\ python = 3
    /\ Exit("type_error")
    /\ UNCHANGED <<git, python, cmd, files, history, bounds>>

\* os.chdir to a directory that does not exist, outside of any handler.
ChdirRaises ==
    /\ \E phase \in {"tag", "push", "delete", "latest"} : AtIp(phase)
    /\ ~Present(ip)
    /\ Exit("os_error")
    /\ UNCHANGED <<git, python, cmd, files, history, bounds>>

\* Mutant: the output of git diff --cached is not looked at.
DiffIpUnstagedOnly ==
    /\ AtIp("diff")
    /\ Present(ip) => python = 2
    /\ changed' = IF Present(ip) /\ dir[ip].unstaged THEN changed \cup {ip} ELSE changed
    /\ NextIp
    /\ UNCHANGED <<git, new_ips, warned, agreed>>

DiffIp ==
    /\ AtIp("diff")
    /\ Present(ip) => python = 2
    /\ changed' = IF Present(ip) /\ Changed(ip) THEN changed \cup {ip} ELSE changed
    /\ NextIp
    /\ UNCHANGED <<git, new_ips, warned, agreed>>

DiffDone ==
    /\ LoopDone("diff")
    /\ \/ cmd.op = "diff" /\ Exit("ok")
       \/ cmd.op = "remove" /\ ~ips_dir /\ Exit("os_error")
       \/ cmd.op = "remove" /\ ips_dir /\ ~cmd.skip_check /\ changed # {} /\ Exit("refused")
       \/ /\ cmd.op = "remove" /\ ips_dir
          /\ cmd.skip_check \/ changed = {}
          /\ pc' = "remove"
          /\ k' = 1
          /\ UNCHANGED <<changed, new_ips, exit>>
    /\ UNCHANGED <<git, python, cmd, files, history, bounds>>

RemoveIp ==
    /\ AtIp("remove")
    /\ dir' = [dir EXCEPT ![ip] = None]
    /\ tags' = [tags EXCEPT ![ip] = [t \in Tags |-> 0]]
    /\ agreed' = agreed \ {ip}
    /\ NextIp
    /\ UNCHANGED <<remote, remote_tags, ips_dir, changed, new_ips, warned>>

RemoveDone ==
    /\ LoopDone("remove")
    /\ ips_dir' = (UnknownIps \/ \E i \in Ips : Present(i))
    /\ Exit("ok")
    /\ UNCHANGED <<dir, tags, remote, remote_tags, python, cmd, files, history, bounds>>

\* Staged or unstaged changes: the IP is left out, or the program ends.
SkipOrDie ==
    /\ AtIp("tag") \/ AtIp("latest")
    /\ Present(ip)
    /\ python = 2
    /\ Changed(ip)
    /\ \/ cmd.severity = "warning" /\ NextIp /\ UNCHANGED <<changed, new_ips>>
       \/ cmd.severity = "error" /\ Exit("changes") /\ UNCHANGED <<python, cmd, files, touched, bounds>>
    /\ UNCHANGED <<git, warned, agreed>>

\* Mutant: the output of git diff --cached is not looked at.
CleanIpUnstagedOnly(phase) == AtIp(phase) /\ Present(ip) /\ python = 2 /\ ~dir[ip].unstaged

CleanIp(phase) == AtIp(phase) /\ Present(ip) /\ python = 2 /\ ~Changed(ip)
Collect(commit) == new_ips' = Append(new_ips, [ip |-> ip, commit |-> commit])

\* Mutant: an IP without any tag is not noticed.
NeedsTagWhenDiffers ==
    cmd.always \/ \E t \in Reached(ip) : t = Describe(ip) /\ tags[ip][t] # dir[ip].head

\* HEAD differs from the newest tag, or there is none, or tag_always.
NeedsTag == \/ cmd.always
            \/ ~\E t \in Reached(ip) : t = Describe(ip) /\ tags[ip][t] = dir[ip].head

\* The newest tag is HEAD already, and is listed as it is.
KeepTag ==
    /\ CleanIp("tag")
    /\ ~NeedsTag
    /\ Collect(Describe(ip))
    /\ NextIp
    /\ UNCHANGED <<git, changed, warned, agreed>>

\* git tag fails when the tag exists; the entry names the tag all the same.
CreateTag ==
    /\ CleanIp("tag")
    /\ NeedsTag
    /\ IF tags[ip][cmd.tag] = 0
       THEN /\ tags' = [tags EXCEPT ![ip][cmd.tag] = dir[ip].head]
            /\ agreed' = agreed \ {ip}
            /\ UNCHANGED warned
       ELSE warned' = warned \cup {ip} /\ UNCHANGED <<tags, agreed>>
    /\ Collect(cmd.tag)
    /\ NextIp
    /\ UNCHANGED <<dir, remote, remote_tags, ips_dir, changed>>

Collected == {new_ips[n].ip : n \in DOMAIN new_ips}

TagDone ==
    /\ LoopDone("tag")
    /\ IF cmd.store
       THEN /\ stored' = new_ips
            /\ agreed' = Collected \ (touched \cup warned)
       ELSE UNCHANGED <<stored, agreed>>
    /\ Exit("ok")
    /\ UNCHANGED <<git, python, cmd, adopted, touched, warned, bounds>>

\* Mutant: the last tag of all, not the newest one that HEAD reaches.
PushedTagLast(i) ==
    IF cmd.tag # None THEN cmd.tag
    ELSE IF Reached(i) = {} THEN None
    ELSE CHOOSE t \in Tags : \A u \in Tags : tags[i][u] <= tags[i][t]

\* Python 3 puts the quotes of the bytes into the name: no such tag.
PushedTag(i) == IF cmd.tag # None THEN cmd.tag
                ELSE IF python = 3 THEN None ELSE Describe(i)

\* The status of git push is ignored, whether it succeeds or not.
PushTag ==
    /\ AtIp("push")
    /\ Present(ip)
    /\ \/ /\ CanPush(ip, PushedTag(ip))
          /\ LET t == PushedTag(ip)
             IN  remote_tags' = [remote_tags EXCEPT ![ip][t] = tags[ip][t]]
       \/ UNCHANGED remote_tags
    /\ NextIp
    /\ UNCHANGED <<dir, tags, remote, ips_dir, changed, new_ips, warned, agreed>>

DeleteTag ==
    /\ AtIp("delete")
    /\ Present(ip)
    /\ tags' = [tags EXCEPT ![ip][cmd.tag] = 0]
    /\ agreed' = agreed \ {ip}
    /\ NextIp
    /\ UNCHANGED <<dir, remote, remote_tags, ips_dir, changed, new_ips, warned>>

LatestIp ==
    /\ CleanIp("latest")
    /\ Collect(dir[ip].head)
    /\ NextIp
    /\ UNCHANGED <<git, changed, warned, agreed>>

LatestDone ==
    /\ LoopDone("latest")
    /\ stored' = new_ips
    /\ agreed' = {}
    /\ Exit("ok")
    /\ UNCHANGED <<git, python, cmd, adopted, touched, warned, bounds>>

PushDone ==
    /\ LoopDone("push") \/ LoopDone("delete")
    /\ Exit("ok")
    /\ UNCHANGED <<git, python, cmd, files, history, bounds>>

(***************************************************************************)
(* The user, at any time                                                   *)
(***************************************************************************)
\* Edit, stage, commit everything, go back to an older commit, or delete a directory.
Worked(i) ==
    LET d == dir[i]
    IN  {[d EXCEPT !.unstaged = TRUE], None}
        \cup (IF d.unstaged THEN {[d EXCEPT !.staged = TRUE, !.unstaged = FALSE]} ELSE {})
        \cup (IF Changed(i) /\ d.head < MaxCommit THEN {Clean(d.head + 1)} ELSE {})
        \cup (IF ~Changed(i) /\ d.head > 1 THEN {[d EXCEPT !.head = @ - 1]} ELSE {})

UserActs(i) ==
    /\ user < MaxUser
    /\ user' = user + 1
    /\ touched' = touched \cup {i}
    /\ agreed' = agreed \ {i}
    /\ UNCHANGED <<remote_tags, python, cmd, pc, k, changed, new_ips, stored, exit, warned, runs>>

UserWorks(i) ==
    /\ Present(i)
    /\ dir' \in {[dir EXCEPT ![i] = d] : d \in Worked(i)}
    /\ tags' = IF dir'[i] = None THEN [tags EXCEPT ![i] = [t \in Tags |-> 0]] ELSE tags
    /\ UserActs(i)
    /\ UNCHANGED <<remote, ips_dir, adopted>>

UserPushes(i) ==
    /\ Present(i)
    /\ dir[i].head > remote[i]
    /\ remote' = [remote EXCEPT ![i] = dir[i].head]
    /\ UserActs(i)
    /\ UNCHANGED <<dir, tags, ips_dir, adopted>>

\* A clone brings the tags of the remote.
UserDownloads(i) ==
    /\ ~Present(i)
    /\ dir' = [dir EXCEPT ![i] = Clean(remote[i])]
    /\ tags' = [tags EXCEPT ![i] = remote_tags[i]]
    /\ ips_dir' = TRUE
    /\ UserActs(i)
    /\ UNCHANGED <<remote, adopted>>

\* ips_list.yml becomes the stored list.
UserAdopts ==
    /\ pc = "idle"
    /\ stored # None
    /\ adopted' = TRUE
    /\ \E i \in Ips : UserActs(i)
    /\ UNCHANGED <<dir, tags, remote, ips_dir>>

Init ==
    /\ dir = [i \in Ips |-> Clean(1)]
    /\ tags = [i \in Ips |-> [t \in Tags |-> 0]]
    /\ remote = [i \in Ips |-> 1]
    /\ remote_tags = tags
    /\ ips_dir = TRUE
    /\ python \in Pythons
    /\ cmd = [op |-> "diff"]
    /\ pc = "idle"
    /\ k = 1
    /\ changed = {}
    /\ new_ips = <<>>
    /\ stored = None
    /\ adopted = FALSE
    /\ exit = "none"
    /\ touched = {}
    /\ warned = {}
    /\ agreed = {}
    /\ user = 0
    /\ runs = 0

ToolStep == \/ SplitRaises \/ ChdirRaises \/ DiffIp \/ DiffDone \/ RemoveIp \/ RemoveDone
            \/ SkipOrDie \/ KeepTag \/ CreateTag \/ TagDone \/ PushTag \/ DeleteTag
            \/ LatestIp \/ LatestDone \/ PushDone
UserStep == \/ UserAdopts
            \/ \E i \in Ips : UserWorks(i) \/ UserPushes(i) \/ UserDownloads(i)

Next == Start \/ ToolStep \/ UserStep

Spec == Init /\ [][Next]_vars

(***************************************************************************)
(* Properties                                                              *)
(***************************************************************************)
Exits == {"none", "ok", "refused", "changes", "os_error", "type_error", "yaml_error"}
NewEntry == [ip : Ips, commit : Tags \cup Commits]

\* Working copies, tags, lists and the position in the loop keep their types.
TypeOK ==
    /\ dir \in [Ips -> WorkingCopy \cup {None}]
    /\ tags \in [Ips -> [Tags -> 0..MaxCommit]]
    /\ remote \in [Ips -> Commits]
    /\ remote_tags \in [Ips -> [Tags -> 0..MaxCommit]]
    /\ ips_dir \in BOOLEAN
    /\ python \in Pythons
    /\ cmd \in Commands
    /\ pc \in {"idle", "diff", "remove", "tag", "push", "delete", "latest"}
    /\ k \in 1..(Len(IpList) + 1)
    /\ changed \subseteq Ips
    /\ new_ips \in Seq(NewEntry)
    /\ stored \in Seq(NewEntry) \cup {None}
    /\ adopted \in BOOLEAN
    /\ exit \in Exits
    /\ touched \subseteq Ips
    /\ warned \subseteq Ips
    /\ agreed \subseteq Ips
    /\ user \in 0..MaxUser
    /\ runs \in 0..MaxRuns

\* remove_ips without --skip-check is all or nothing: no directory is removed
\* while any IP has staged or unstaged changes, unless they were made after
\* the command began.
RemovesOnlyClean ==
    [][ \A i \in Ips :
          pc = "remove" /\ ~cmd.skip_check /\ Present(i) /\ dir'[i] = None /\ user' = user
          => \A j \in Ips \ touched : Present(j) => ~Changed(j) ]_vars

\* The commit an entry of a stored list means in the local repository.
Resolves(entry) ==
    IF entry.commit \in Tags THEN tags[entry.ip][entry.commit] ELSE entry.commit
StoresList == LoopDone("latest") \/ (LoopDone("tag") /\ cmd.store)
Reproduces(entry) ==
    /\ Present(entry.ip)
    /\ ~Changed(entry.ip)
    /\ Resolves(entry) = dir[entry.ip].head

\* A list that tag_ips or get_latest_ips stores reproduces the working copies:
\* every entry means HEAD of a copy without changes, except for IPs the user
\* worked in meanwhile and those for which a failed tag was reported.
StoredListReproduces ==
    [][ StoresList /\ user' = user =>
          \A n \in DOMAIN stored' :
             stored'[n].ip \in touched \cup warned \/ Reproduces(stored'[n]) ]_vars

Listed(i) == CHOOSE c \in Tags \cup Commits :
                \E n \in DOMAIN stored : stored[n] = [ip |-> i, commit |-> c]

HeadTags(i) == {t \in Tags : tags[i][t] = dir[i].head}

\* push_tag_ips without a name publishes, for each IP, a tag of the very commit
\* that tag_ips put into the stored list, whatever other tags the IP has.  It
\* is the listed tag itself when HEAD carries no other.  When tag_always has
\* put a second tag on a HEAD that had one, git describe chooses between the
\* two: the list may name one of them and the remote receive the other.
PushesListedCommit ==
    [][ \A i \in agreed :
          pc = "push" /\ cmd.tag = None /\ remote_tags'[i] # remote_tags[i]
          => /\ Listed(i) \in HeadTags(i)
             /\ \E t \in HeadTags(i) : remote_tags'[i] = [remote_tags[i] EXCEPT ![t] = dir[i].head]
      ]_vars
=============================================================================
