------------------------------ MODULE IpsTree ------------------------------
(***************************************************************************)
(* The hierarchical IP flow of update-ips up to the download: the          *)
(* constructor IPDatabase(build_deps_tree, resolve_deps_conflicts) of      *)
(* ipstools/IPDatabase.py, with IPTreeNode.py and the ips_list.yml         *)
(* fetchers of IPApproX_common.py.                                         *)
(*                                                                         *)
(* The recursion of the IPTreeNode constructor is an explicit stack.  A    *)
(* node of the tree is complete when its frame is popped, so the order of  *)
(* completion is the post-order that flattenize_children returns: flat is  *)
(* that list.  An entry of an ips_list.yml is a record [name, group,       *)
(* commit]; the group stands for the pair of server and group, None where  *)
(* the file gives neither and the defaults of the database apply.          *)
(***************************************************************************)
EXTENDS Naturals, Sequences, FiniteSets

CONSTANTS
    Names,          \* IP names
    Groups,         \* server and group of a Git remote
    Commits,        \* branches, tags and hashes
    None,           \* Python's None
    DefaultGroup,   \* default_server and default_group
    Github,         \* the groups whose server is github.com
    RootList,       \* the ips_list.yml of the root repository
    Served,         \* every dependency list a server may hold for an IP during the run
    RecursionLimit  \* nested constructors before Python raises RecursionError

Entry == [name : Names, group : Groups \cup {None}, commit : Commits]
Resolved == [name : Names, group : Groups, commit : Commits]

ASSUME ConstantsAssumption ==
    /\ None \notin Groups
    /\ DefaultGroup \in Groups
    /\ Github \subseteq Groups
    /\ RootList \in Seq(Entry)
    /\ Served \in [Resolved -> SUBSET Seq(Entry)]
    /\ RecursionLimit \in Nat \ {0}

VARIABLES
    pc,         \* "tree", "resolve", "prompt", "resolved", "updating", "exception"
    stack,      \* the constructors in progress, innermost last
    flat,       \* completed nodes in the order of flattenize_children
    cursor,     \* position in flat of the key of the conflict dictionary handled last
    asked,      \* the names the user was asked about
    selected,   \* positions in flat of the nodes selected so far
    ip_list,    \* IPDatabase.ip_list
    escaped     \* the user pressed CTRL+C at a prompt

vars == <<pc, stack, flat, cursor, asked, selected, ip_list, escaped>>

(***************************************************************************)
(* Building the tree                                                       *)
(***************************************************************************)
Itself(node) ==
    [node EXCEPT !.group = IF node.group = None THEN DefaultGroup ELSE node.group]

Top == stack[Len(stack)]
Callers == SubSeq(stack, 1, Len(stack) - 1)

\* The loop of generate_deps_tree is the bottom frame; it is no node.
RootFrame == [node |-> None, deps |-> RootList, todo |-> RootList]

NewFrame(node, ips) == [node |-> node, deps |-> ips, todo |-> ips]

\* The caller goes on with the rest of its list once the child is complete.
CallConstructor(node, ips) ==
    Append([stack EXCEPT ![Len(stack)].todo = Tail(@)], NewFrame(node, ips))

CanDescend ==
    /\ pc = "tree"
    /\ Top.todo # <<>>

\* The list arrives and parses.
FetchList ==
    /\ CanDescend
    /\ Len(stack) <= RecursionLimit
    /\ LET node == Head(Top.todo)
       IN  \E ips \in Served[Itself(node)] : stack' = CallConstructor(node, ips)
    /\ UNCHANGED <<pc, flat, cursor, asked, selected, ip_list, escaped>>

\* github.com: curl prints nothing (network failure) or a 404 page.  Both end
\* in an empty document, None.keys() and the AttributeError handler.
FetchEmpty ==
    /\ CanDescend
    /\ Len(stack) <= RecursionLimit
    /\ LET node == Head(Top.todo)
       IN  /\ Itself(node).group \in Github
           /\ stack' = CallConstructor(node, <<>>)
    /\ UNCHANGED <<pc, flat, cursor, asked, selected, ip_list, escaped>>

\* Another server: git archive fails, "No ips_list.yml gathered" is printed.
FetchArchiveFails ==
    /\ CanDescend
    /\ Len(stack) <= RecursionLimit
    /\ LET node == Head(Top.todo)
       IN  /\ Itself(node).group \notin Github
           /\ stack' = CallConstructor(node, <<>>)
    /\ UNCHANGED <<pc, flat, cursor, asked, selected, ip_list, escaped>>

\* An error page other than 404 parses as a mapping of strings: TypeError.
FetchErrorPage ==
    /\ CanDescend
    /\ Len(stack) <= RecursionLimit
    /\ Itself(Head(Top.todo)).group \in Github
    /\ pc' = "exception"
    /\ UNCHANGED <<stack, flat, cursor, asked, selected, ip_list, escaped>>

RecursionError ==
    /\ CanDescend
    /\ Len(stack) > RecursionLimit
    /\ pc' = "exception"
    /\ UNCHANGED <<stack, flat, cursor, asked, selected, ip_list, escaped>>

NodeComplete ==
    /\ pc = "tree"
    /\ Len(stack) > 1
    /\ Top.todo = <<>>
    /\ flat' = Append(flat, [node |-> Top.node, deps |-> Top.deps])
    /\ stack' = Callers
    /\ UNCHANGED <<pc, cursor, asked, selected, ip_list, escaped>>

TreeGenerated ==
    /\ pc = "tree"
    /\ Len(stack) = 1
    /\ Top.todo = <<>>
    /\ pc' = "resolve"
    /\ UNCHANGED <<stack, flat, cursor, asked, selected, ip_list, escaped>>

(***************************************************************************)
(* get_conflicts: the keys of the ordered dictionary are the names in the  *)
(* order of their first node in flat; a list of one key holds its nodes in *)
(* the order of flat, without those whose commit an earlier node has.      *)
(***************************************************************************)
NameAt(i) == flat[i].node.name

Occurrences(name) == {i \in DOMAIN flat : NameAt(i) = name}

\* Mutant: an entry with a single node is evicted as well.
SmallEntry(name) == Cardinality(Occurrences(name)) < 2

EmptyEntry(name) == Cardinality(Occurrences(name)) < 1

\* Mutant: a key moves to the end when it is assigned again.
KeyPositionsLast ==
    {i \in DOMAIN flat : \A j \in (i + 1)..Len(flat) : NameAt(j) # NameAt(i)}

\* Where the keys of the conflict dictionary first occur.
KeyPositions ==
    {i \in DOMAIN flat : /\ \A j \in 1..(i - 1) : NameAt(j) # NameAt(i)
                         /\ ~EmptyEntry(NameAt(i))}

\* Mutant: nothing is collapsed.
AlternativesAll(name) == Occurrences(name)

Alternatives(name) ==
    {i \in Occurrences(name) :
        \A j \in Occurrences(name) :
            j < i => flat[j].node.commit # flat[i].node.commit}

(***************************************************************************)
(* resolve_deps_conflicts                                                  *)
(***************************************************************************)
KeysLeft == {i \in KeyPositions : i > cursor}

NextKey == CHOOSE i \in KeysLeft : \A j \in KeysLeft : i <= j

SelectOnly ==
    /\ pc = "resolve"
    /\ KeysLeft # {}
    /\ Cardinality(Alternatives(NameAt(NextKey))) = 1
    /\ \E i \in Alternatives(NameAt(NextKey)) : selected' = Append(selected, i)
    /\ cursor' = NextKey
    /\ UNCHANGED <<pc, stack, flat, asked, ip_list, escaped>>

ReportConflict ==
    /\ pc = "resolve"
    /\ KeysLeft # {}
    /\ Cardinality(Alternatives(NameAt(NextKey))) # 1
    /\ asked' = asked \cup {NameAt(NextKey)}
    /\ pc' = "prompt"
    /\ UNCHANGED <<stack, flat, cursor, selected, ip_list, escaped>>

\* The user types the number of one of the alternatives.
ValidAnswer ==
    /\ pc = "prompt"
    /\ \E i \in Alternatives(NameAt(NextKey)) : selected' = Append(selected, i)
    /\ cursor' = NextKey
    /\ pc' = "resolve"
    /\ UNCHANGED <<stack, flat, asked, ip_list, escaped>>

\* No number, or a number out of range: the prompt is repeated.
InvalidAnswer ==
    /\ pc = "prompt"
    /\ UNCHANGED vars

\* The bare return hands None to the caller.
KeyboardInterrupt ==
    /\ pc = "prompt"
    /\ escaped' = TRUE
    /\ ip_list' = None
    /\ pc' = "resolved"
    /\ UNCHANGED <<stack, flat, cursor, asked, selected>>

\* Mutant: the list of tree nodes instead of the list of their entries.
ResolveToTreeNodes ==
    /\ pc = "resolve"
    /\ KeysLeft = {}
    /\ ip_list' = [k \in DOMAIN selected |-> flat[selected[k]]]
    /\ pc' = "resolved"
    /\ UNCHANGED <<stack, flat, cursor, asked, selected, escaped>>

Resolve ==
    /\ pc = "resolve"
    /\ KeysLeft = {}
    /\ ip_list' = [k \in DOMAIN selected |-> flat[selected[k]].node]
    /\ pc' = "resolved"
    /\ UNCHANGED <<stack, flat, cursor, asked, selected, escaped>>

\* update_ips begins with "for ip in self.ip_list": TypeError on None.
UpdateIps ==
    /\ pc = "resolved"
    /\ pc' = IF ip_list = None THEN "exception" ELSE "updating"
    /\ UNCHANGED <<stack, flat, cursor, asked, selected, ip_list, escaped>>

Init ==
    /\ pc = "tree"
    /\ stack = <<RootFrame>>
    /\ flat = <<>>
    /\ cursor = 0
    /\ asked = {}
    /\ selected = <<>>
    /\ ip_list = RootList
    /\ escaped = FALSE

Fetch == FetchList \/ FetchEmpty \/ FetchArchiveFails \/ FetchErrorPage \/ RecursionError

\* What the tool does by itself, and what waits for the user.
ToolStep == Fetch \/ NodeComplete \/ TreeGenerated
                  \/ SelectOnly \/ ReportConflict \/ Resolve \/ UpdateIps
UserStep == ValidAnswer \/ InvalidAnswer \/ KeyboardInterrupt

Next == ToolStep \/ UserStep
Spec == Init /\ [][Next]_vars

(***************************************************************************)
(* Properties                                                              *)
(***************************************************************************)
Frame == [node : Entry \cup {None}, deps : Seq(Entry), todo : Seq(Entry)]
TreeNode == [node : Entry, deps : Seq(Entry)]

\* The state of the constructor keeps its shape: a pile of constructor
\* frames, a list of nodes, selections that point into that list.
TypeOK ==
    /\ pc \in {"tree", "resolve", "prompt", "resolved", "updating", "exception"}
    /\ stack \in Seq(Frame) \ {<<>>}
    /\ flat \in Seq(TreeNode)
    /\ cursor \in 0..Len(flat)
    /\ asked \subseteq Names
    /\ selected \in Seq(Nat)
    /\ \A k \in DOMAIN selected : selected[k] \in DOMAIN flat
    /\ ip_list \in Seq(Entry) \cup {None}
    /\ escaped \in BOOLEAN

Finished == pc \in {"resolved", "updating"} /\ ~escaped

NamesIn(list) == {list[k].name : k \in DOMAIN list}

\* The list that update_ips downloads is closed under dependencies: whatever
\* the user selects and whatever the servers answered at each fetch, every
\* IP that the root names and every dependency that the list of a selected
\* node named is downloaded, in exactly one version.
DepsClosed ==
    Finished =>
        /\ NamesIn(RootList) \subseteq NamesIn(ip_list)
        /\ \A k \in DOMAIN selected :
              NamesIn(flat[selected[k]].deps) \subseteq NamesIn(ip_list)
        /\ \A k, m \in DOMAIN ip_list : k # m => ip_list[k].name # ip_list[m].name

\* Unless the user had to choose, an IP comes after all the IPs it depends on,
\* in whichever version its list was answered first: the order of the list,
\* and of the scripts generated from it, is bottom-up.
BottomUp ==
    Finished /\ asked = {} =>
        \A k \in DOMAIN selected :
            \A d \in NamesIn(flat[selected[k]].deps) :
                \E m \in 1..(k - 1) : ip_list[m].name = d

Version(i) == Itself(flat[i].node)

\* The user is asked about every IP that the tree references at two commits,
\* however often and through whichever IPs, and about none that it references
\* in one version only.  Nothing is said of references to the same commit name
\* in two repositories: get_conflicts takes them for one version, although
\* the docstring of IPDatabase promises a question.
AskedOnConflict ==
    Finished =>
        \A n \in Names :
            /\ (\E i, j \in Occurrences(n) : flat[i].node.commit # flat[j].node.commit) => n \in asked
            /\ n \in asked => \E i, j \in Occurrences(n) : Version(i) # Version(j)
=============================================================================
