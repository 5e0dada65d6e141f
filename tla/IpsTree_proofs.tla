--------------------------- MODULE IpsTree_proofs ---------------------------
(***************************************************************************)
(* The dependency tree and its resolution, for any names, groups, commits, *)
(* root list, answers of the servers and limit of the recursion.           *)
(***************************************************************************)
EXTENDS IpsTree, FiniteSetTheorems, SequenceTheorems, WellFoundedInduction, TLAPS

(***************************************************************************)
(* The stack of constructors                                               *)
(***************************************************************************)

\* A reference without a group gets the group of the database.
LEMMA ItselfResolved == ASSUME NEW node \in Entry PROVE Itself(node) \in Resolved
BY ConstantsAssumption DEF Itself, Entry, Resolved

\* The head of a list of entries is an entry, and the names of the list are its
\* name and those of the tail.
LEMMA HeadAndTail ==
    ASSUME NEW list \in Seq(Entry), list # <<>>
    PROVE  /\ Head(list) \in Entry /\ Tail(list) \in Seq(Entry)
           /\ \A n \in NamesIn(list) : n = Head(list).name \/ n \in NamesIn(Tail(list))
<1>1. /\ Head(list) \in Entry /\ Tail(list) \in Seq(Entry)
      /\ Len(Tail(list)) = Len(list) - 1
      /\ \A i \in 1..Len(Tail(list)) : Tail(list)[i] = list[i + 1]
      /\ Len(list) \in Nat
    BY HeadTailProperties
<1>2. ASSUME NEW k \in DOMAIN list, k # 1 PROVE list[k].name \in NamesIn(Tail(list))
  <2>1. k - 1 \in 1..Len(Tail(list)) /\ (k - 1) + 1 = k
      BY <1>1, <1>2
  <2>2. Tail(list)[k - 1] = list[k] /\ k - 1 \in DOMAIN Tail(list)
      BY <1>1, <2>1
  <2> QED
      BY <2>2 DEF NamesIn
<1>3. Head(list) = list[1]
    OBVIOUS
<1> QED
    BY <1>1, <1>2, <1>3 DEF NamesIn

\* Calling the constructor of the next child: the caller drops it from its
\* list, and a frame for the child is put on top.
LEMMA CallShape ==
    ASSUME stack \in Seq(Frame), stack # <<>>, Top.todo # <<>>,
           NEW node \in Entry, NEW ips \in Seq(Entry)
    PROVE  /\ CallConstructor(node, ips) \in Seq(Frame)
           /\ Len(CallConstructor(node, ips)) = Len(stack) + 1
           /\ \A k \in 1..(Len(stack) - 1) : CallConstructor(node, ips)[k] = stack[k]
           /\ CallConstructor(node, ips)[Len(stack)] = [Top EXCEPT !.todo = Tail(@)]
           /\ CallConstructor(node, ips)[Len(stack) + 1] = NewFrame(node, ips)
<1> DEFINE caller == [stack EXCEPT ![Len(stack)].todo = Tail(@)]
           rest == [Top EXCEPT !.todo = Tail(@)]
<1>1. Len(stack) \in Nat /\ Len(stack) \in 1..Len(stack) /\ Top \in Frame
    BY DEF Top
<1>2. Tail(Top.todo) \in Seq(Entry)
    BY <1>1 DEF Frame
<1>3. rest \in Frame
    BY <1>1, <1>2 DEF Frame
<1>4. caller = [stack EXCEPT ![Len(stack)] = rest]
    BY DEF Top
<1>6. NewFrame(node, ips) \in Frame
    BY DEF NewFrame, Frame
<1> HIDE DEF caller, rest
<1>5. /\ caller \in Seq(Frame) /\ Len(caller) = Len(stack)
      /\ \A k \in 1..Len(stack) : caller[k] = IF k = Len(stack) THEN rest ELSE stack[k]
    BY <1>1, <1>3, <1>4, ExceptSeq
<1>7. /\ Append(caller, NewFrame(node, ips)) \in Seq(Frame)
      /\ Len(Append(caller, NewFrame(node, ips))) = Len(caller) + 1
      /\ \A k \in 1..Len(caller) : Append(caller, NewFrame(node, ips))[k] = caller[k]
      /\ Append(caller, NewFrame(node, ips))[Len(caller) + 1] = NewFrame(node, ips)
    BY <1>5, <1>6, AppendProperties
<1>8. CallConstructor(node, ips) = Append(caller, NewFrame(node, ips))
    BY DEF CallConstructor, caller
<1>9. \A k \in 1..(Len(stack) - 1) : k \in 1..Len(stack) /\ k # Len(stack)
    BY <1>1
<1>10. /\ \A k \in 1..(Len(stack) - 1) : CallConstructor(node, ips)[k] = stack[k]
       /\ CallConstructor(node, ips)[Len(stack)] = rest
    BY <1>1, <1>5, <1>7, <1>8, <1>9
<1> QED
    BY <1>1, <1>5, <1>7, <1>8, <1>10 DEF rest

\* Returning from a constructor.
LEMMA CallersShape ==
    ASSUME stack \in Seq(Frame), Len(stack) > 1
    PROVE  /\ Callers \in Seq(Frame) \ {<<>>}
           /\ Len(Callers) = Len(stack) - 1
           /\ \A k \in 1..Len(Callers) : Callers[k] = stack[k]
<1>1. Len(stack) \in Nat /\ \A k \in 1..(Len(stack) - 1) : stack[k] \in Frame
    OBVIOUS
<1>2. /\ Callers \in Seq(Frame) /\ Len(Callers) = Len(stack) - 1
      /\ \A k \in 1..(Len(stack) - 1) : Callers[k] = stack[1 + k - 1]
    BY <1>1, SubSeqProperties DEF Callers
<1> QED
    BY <1>1, <1>2

(***************************************************************************)
(* Completed nodes                                                         *)
(***************************************************************************)

\* The names of the completed nodes.
Done == {NameAt(i) : i \in DOMAIN flat}

\* What a constructor of the tree still has to do: the children that it has
\* begun are complete, up to the one whose constructor it waits for.
Frames ==
    /\ stack[1].deps = RootList
    /\ \A k \in 2..Len(stack) : stack[k].node \in Entry
    /\ \A k \in 1..Len(stack) : \A n \in NamesIn(stack[k].deps) :
           \/ n \in NamesIn(stack[k].todo)
           \/ n \in Done
           \/ k < Len(stack) /\ stack[k + 1].node.name = n

\* The dependencies of a node are complete before it is.
PostOrder ==
    \A i \in DOMAIN flat : \A n \in NamesIn(flat[i].deps) :
        \E j \in 1..(i - 1) : NameAt(j) = n

\* The state that the construction of the tree leaves alone, and what it has
\* achieved when it ends.
Phases ==
    /\ pc = "tree" => cursor = 0 /\ selected = <<>> /\ asked = {}
    /\ pc \notin {"tree", "exception"} => NamesIn(RootList) \subseteq Done
    /\ pc = "prompt" => KeysLeft # {}

TreeInv == TypeOK /\ Frames /\ PostOrder /\ Phases

\* The tool starts with the root list on the stack.
LEMMA InitTreeInv == Init => TreeInv
<1> SUFFICES ASSUME Init PROVE TreeInv
    OBVIOUS
<1>1. RootFrame \in Frame /\ RootFrame.deps = RootList /\ RootFrame.todo = RootList
    BY ConstantsAssumption DEF RootFrame, Frame
<1>2. stack = <<RootFrame>> /\ Len(stack) = 1 /\ stack[1] = RootFrame
    BY DEF Init
<1>3. TypeOK
  <2>1. stack \in Seq(Frame) \ {<<>>}
      BY <1>1, <1>2
  <2>2. flat \in Seq(TreeNode) /\ cursor \in 0..Len(flat) /\ selected \in Seq(Nat)
      BY DEF Init
  <2>3. \A k \in DOMAIN selected : selected[k] \in DOMAIN flat
      BY DEF Init
  <2>4. /\ pc \in {"tree", "resolve", "prompt", "resolved", "updating", "exception"}
        /\ asked \subseteq Names /\ ip_list \in Seq(Entry) \cup {None} /\ escaped \in BOOLEAN
      BY ConstantsAssumption DEF Init
  <2> QED
      BY <2>1, <2>2, <2>3, <2>4 DEF TypeOK
<1>4. Frames
    BY <1>1, <1>2 DEF Frames
<1> QED
    BY <1>3, <1>4 DEF TreeInv, Init, PostOrder, Phases

\* The constructor of a child is called, with whatever list was fetched.
LEMMA CallTreeInv ==
    ASSUME TreeInv, CanDescend, NEW ips \in Seq(Entry),
           stack' = CallConstructor(Head(Top.todo), ips),
           UNCHANGED <<pc, flat, cursor, asked, selected, ip_list, escaped>>
    PROVE  TreeInv'
<1> DEFINE n1 == Len(stack)
           child == Head(Top.todo)
<1>1. /\ stack \in Seq(Frame) /\ stack # <<>> /\ Top.todo # <<>>
      /\ n1 \in Nat /\ n1 > 0 /\ Top \in Frame
    BY DEF TreeInv, TypeOK, CanDescend, Top
<1>2. /\ child \in Entry /\ Tail(Top.todo) \in Seq(Entry)
      /\ \A n \in NamesIn(Top.todo) : n = child.name \/ n \in NamesIn(Tail(Top.todo))
  <2>1. Top.todo \in Seq(Entry)
      BY <1>1 DEF Frame
  <2> QED
      BY <1>1, <2>1, HeadAndTail
<1>3. /\ stack' \in Seq(Frame) /\ Len(stack') = n1 + 1
      /\ \A k \in 1..(n1 - 1) : stack'[k] = stack[k]
      /\ stack'[n1] = [Top EXCEPT !.todo = Tail(@)]
      /\ stack'[n1 + 1] = NewFrame(child, ips)
    BY <1>1, <1>2, CallShape
<1>size. n1 \in Nat /\ n1 > 0 /\ Len(stack') = n1 + 1
    BY <1>1, <1>3
<1>4. /\ stack'[n1].deps = Top.deps /\ stack'[n1].todo = Tail(Top.todo)
      /\ stack'[n1].node = Top.node /\ Top = stack[n1]
      /\ stack'[n1 + 1].deps = ips /\ stack'[n1 + 1].todo = ips /\ stack'[n1 + 1].node = child
  <2>1. Top = stack[n1]
      BY DEF Top
  <2>2. stack'[n1 + 1].deps = ips /\ stack'[n1 + 1].todo = ips /\ stack'[n1 + 1].node = child
      BY <1>3 DEF NewFrame
  <2> DEFINE top == Top
  <2>3. top \in Frame /\ stack'[n1] = [top EXCEPT !.todo = Tail(@)]
      BY <1>1, <1>3
  <2> HIDE DEF top
  <2>4. /\ stack'[n1].deps = top.deps /\ stack'[n1].todo = Tail(top.todo)
        /\ stack'[n1].node = top.node
      BY <2>3 DEF Frame
  <2> QED
      BY <2>1, <2>2, <2>4 DEF top
<1>5. Done' = Done /\ PostOrder' /\ Phases'
  <2>1. pc = "tree" /\ pc' = "tree"
      BY DEF CanDescend
  <2> QED
      BY <2>1 DEF TreeInv, Done, PostOrder, Phases, NameAt
<1>6. TypeOK'
  <2>1. stack' # <<>>
      BY <1>1, <1>3
  <2> QED
      BY <1>3, <2>1 DEF TreeInv, TypeOK
<1>7. stack'[1].deps = RootList
  <2>1. stack[1].deps = RootList
      BY DEF TreeInv, Frames
  <2> HIDE DEF n1
  <2>2. CASE n1 = 1
      BY <1>4, <2>1, <2>2
  <2>3. CASE n1 > 1
    <3>1. 1 \in 1..(n1 - 1)
        BY <1>size, <2>3
    <3> QED
        BY <1>3, <2>1, <3>1
  <2> QED
      BY <1>size, <2>2, <2>3
<1>8. \A k \in 2..Len(stack') : stack'[k].node \in Entry
  <2> SUFFICES ASSUME NEW k \in 2..Len(stack') PROVE stack'[k].node \in Entry
      OBVIOUS
  <2>1. \A i \in 2..n1 : stack[i].node \in Entry
      BY DEF TreeInv, Frames
  <2> HIDE DEF n1
  <2>2. k \in 2..(n1 + 1) /\ n1 \in Nat
      BY <1>size
  <2>3. CASE k = n1 + 1
      BY <1>2, <1>4, <2>3
  <2>4. CASE k = n1
    <3>1. k \in 2..n1
        BY <2>2, <2>4
    <3> QED
        BY <1>4, <2>1, <2>4, <3>1
  <2>5. CASE k < n1
    <3>1. k \in 1..(n1 - 1) /\ k \in 2..n1
        BY <2>2, <2>5
    <3> QED
        BY <1>3, <2>1, <3>1
  <2> QED
      BY <2>2, <2>3, <2>4, <2>5
<1>9. ASSUME NEW k \in 1..Len(stack'), NEW n \in NamesIn(stack'[k].deps)
      PROVE  \/ n \in NamesIn(stack'[k].todo)
             \/ n \in Done
             \/ k < Len(stack') /\ stack'[k + 1].node.name = n
  <2>1. CASE k = n1 + 1
      BY <1>4, <1>9, <2>1
  <2>2. CASE k = n1
    <3>1. n \in NamesIn(Top.todo) \/ n \in Done
        BY <1>1, <1>4, <1>9, <2>2 DEF TreeInv, Frames
    <3>2. n = child.name \/ n \in NamesIn(Tail(Top.todo)) \/ n \in Done
        BY <1>2, <3>1
    <3> HIDE DEF n1, child
    <3> QED
        BY <1>size, <1>4, <2>2, <3>2
  <2>3. CASE k < n1
    <3>1. k \in 1..(n1 - 1) /\ k \in 1..n1 /\ k + 1 \in 1..n1
        BY <1>size, <1>9, <2>3
    <3>2. stack'[k] = stack[k] /\ stack'[k + 1].node = stack[k + 1].node
      <4>1. stack'[k] = stack[k]
          BY <1>3, <3>1
      <4>2. CASE k + 1 = n1
          BY <1>4, <4>1, <4>2
      <4>3. CASE k + 1 # n1
        <5>1. k + 1 \in 1..(n1 - 1)
            BY <1>size, <3>1, <4>3
        <5> QED
            BY <1>3, <4>1, <5>1
      <4> QED
          BY <4>1, <4>2, <4>3
    <3>3. \/ n \in NamesIn(stack[k].todo)
          \/ n \in Done
          \/ k < n1 /\ stack[k + 1].node.name = n
        BY <1>9, <3>1, <3>2 DEF TreeInv, Frames
    <3> QED
        BY <1>size, <2>3, <3>2, <3>3
  <2> QED
      BY <1>size, <2>1, <2>2, <2>3
<1>10. Frames'
    BY <1>5, <1>7, <1>8, <1>9 DEF Frames
<1> QED
    BY <1>5, <1>6, <1>10 DEF TreeInv

\* A constructor returns: its node is complete, after all its children.
LEMMA CompleteTreeInv == TreeInv /\ NodeComplete => TreeInv'
<1> SUFFICES ASSUME TreeInv, NodeComplete PROVE TreeInv'
    OBVIOUS
<1> DEFINE n1 == Len(stack)
           new == [node |-> Top.node, deps |-> Top.deps]
<1>1. /\ pc = "tree" /\ n1 > 1 /\ Top.todo = <<>> /\ stack' = Callers
      /\ flat' = Append(flat, new)
      /\ UNCHANGED <<pc, cursor, asked, selected, ip_list, escaped>>
    BY DEF NodeComplete
<1>2. stack \in Seq(Frame) /\ n1 \in Nat /\ Top = stack[n1] /\ Top \in Frame
    BY DEF TreeInv, TypeOK, Top
<1>3. /\ stack' \in Seq(Frame) \ {<<>>} /\ Len(stack') = n1 - 1
      /\ \A k \in 1..(n1 - 1) : stack'[k] = stack[k]
    BY <1>1, <1>2, CallersShape
<1>4. new \in TreeNode /\ new.node = Top.node /\ new.deps = Top.deps
  <2>1. Top.node \in Entry
      BY <1>1, <1>2 DEF TreeInv, Frames
  <2> QED
      BY <1>2, <2>1 DEF TreeNode, Frame
<1> HIDE DEF new
<1>5. /\ flat \in Seq(TreeNode) /\ flat' \in Seq(TreeNode) /\ Len(flat) \in Nat
      /\ Len(flat') = Len(flat) + 1
      /\ \A i \in 1..Len(flat) : flat'[i] = flat[i]
      /\ flat'[Len(flat) + 1] = new
      /\ DOMAIN flat = 1..Len(flat) /\ DOMAIN flat' = 1..(Len(flat) + 1)
  <2>1. flat \in Seq(TreeNode)
      BY DEF TreeInv, TypeOK
  <2> QED
      BY <1>1, <1>4, <2>1, AppendProperties
<1>a. PICK last \in Nat : last = Len(flat) + 1
    BY <1>5
<1>6. /\ \A i \in 1..Len(flat) : NameAt(i)' = NameAt(i)
      /\ NameAt(last)' = Top.node.name
  <2>1. flat'[last].node = Top.node
      BY <1>4, <1>5, <1>a
  <2>2. \A i : NameAt(i)' = flat'[i].node.name
      BY DEF NameAt
  <2>3. flat'[last].node.name = Top.node.name
      BY <2>1
  <2>4. \A i \in 1..Len(flat) : flat'[i].node.name = NameAt(i)
      BY <1>5 DEF NameAt
  <2> QED
      BY <2>2, <2>3, <2>4
<1>7. TypeOK'
  <2>1. cursor' \in 0..Len(flat') /\ selected' \in Seq(Nat)
      BY <1>1, <1>5 DEF TreeInv, TypeOK
  <2>2. \A k \in DOMAIN selected' : selected'[k] \in DOMAIN flat'
      BY <1>1, <1>5 DEF TreeInv, TypeOK
  <2> QED
      BY <1>1, <1>3, <1>5, <2>1, <2>2 DEF TreeInv, TypeOK
<1>8. PostOrder'
  <2> SUFFICES ASSUME NEW i \in DOMAIN flat', NEW n \in NamesIn(flat'[i].deps)
               PROVE  \E j \in 1..(i - 1) : NameAt(j)' = n
      BY DEF PostOrder
  <2>1. CASE i = Len(flat) + 1
    <3>1. n \in NamesIn(Top.deps)
        BY <1>4, <1>5, <2>1
    <3>2. n \in NamesIn(Top.todo) \/ n \in Done
        BY <1>2, <1>1, <3>1 DEF TreeInv, Frames
    <3>3. NamesIn(Top.todo) = {}
        BY <1>1 DEF NamesIn
    <3>4. PICK j \in 1..Len(flat) : NameAt(j) = n
        BY <1>5, <3>2, <3>3 DEF Done
    <3>5. NameAt(j)' = n /\ j \in 1..(i - 1)
        BY <1>5, <1>6, <2>1, <3>4
    <3> QED
        BY <3>5
  <2>2. CASE i \in 1..Len(flat)
    <3>1. PICK j \in 1..(i - 1) : NameAt(j) = n
        BY <1>5, <2>2 DEF TreeInv, PostOrder
    <3>2. NameAt(j)' = n
        BY <1>5, <1>6, <2>2, <3>1
    <3> QED
        BY <3>2
  <2> QED
      BY <1>5, <2>1, <2>2
<1>9. Done \subseteq Done' /\ Top.node.name \in Done'
  <2>1. \A i \in 1..Len(flat) : i \in DOMAIN flat' /\ NameAt(i)' = NameAt(i)
      BY <1>5, <1>6
  <2>2. last \in DOMAIN flat'
      BY <1>5, <1>a
  <2>3. \A n : n \in Done' <=> \E i \in DOMAIN flat' : NameAt(i)' = n
      BY DEF Done
  <2>4. \A n \in Done : \E i \in 1..Len(flat) : NameAt(i) = n
      BY <1>5 DEF Done
  <2> QED
      BY <1>6, <2>1, <2>2, <2>3, <2>4
<1>10. Frames'
  <2>1. stack'[1].deps = RootList /\ \A k \in 2..Len(stack') : stack'[k].node \in Entry
      BY <1>1, <1>2, <1>3 DEF TreeInv, Frames
  <2>2. ASSUME NEW k \in 1..Len(stack'), NEW n \in NamesIn(stack'[k].deps)
        PROVE  \/ n \in NamesIn(stack'[k].todo)
               \/ n \in Done'
               \/ k < Len(stack') /\ stack'[k + 1].node.name = n
    <3>1. k \in 1..(n1 - 1) /\ k \in 1..n1
        BY <1>2, <1>3, <2>2
    <3>2. \/ n \in NamesIn(stack[k].todo)
          \/ n \in Done
          \/ k < n1 /\ stack[k + 1].node.name = n
        BY <1>3, <2>2, <3>1 DEF TreeInv, Frames
    <3>3. k + 1 \in 1..(n1 - 1) \/ k + 1 = n1
        BY <1>2, <3>1
    <3> QED
        BY <1>2, <1>3, <1>9, <3>1, <3>2, <3>3
  <2> QED
      BY <2>1, <2>2 DEF Frames
<1> QED
    BY <1>1, <1>7, <1>8, <1>10 DEF TreeInv, Phases

(***************************************************************************)
(* The conflict dictionary                                                 *)
(***************************************************************************)

\* A set of natural numbers has a least element.
LEMMA Least ==
    ASSUME NEW T, T \subseteq Nat, T # {}
    PROVE  \E x \in T : \A y \in T : x <= y
<1>1. PICK x \in T : \A y \in T : <<y, x>> \notin OpToRel(<, Nat)
    BY NatLessThanWellFounded, WFMin, Zenon
<1>2. \A y \in T : ~(y < x)
    BY <1>1, Zenon DEF OpToRel
<1>3. \A y \in T : x <= y
    BY <1>2
<1> QED
    BY <1>3

\* The nodes of a name are finitely many, and at least one for a name in flat:
\* no entry of the dictionary is dropped.
LEMMA EntryNotEmpty ==
    ASSUME TypeOK, NEW i \in DOMAIN flat
    PROVE  ~EmptyEntry(NameAt(i)) /\ IsFiniteSet(Occurrences(NameAt(i)))
<1>1. DOMAIN flat = 1..Len(flat) /\ Len(flat) \in Nat
    BY DEF TypeOK
<1>2. IsFiniteSet(1..Len(flat))
    BY <1>1, FS_Interval
<1>3. Occurrences(NameAt(i)) \in SUBSET (1..Len(flat)) /\ i \in Occurrences(NameAt(i))
    BY <1>1 DEF Occurrences
<1>4. IsFiniteSet(Occurrences(NameAt(i)))
    BY <1>2, <1>3, FS_Subset
<1>5. Cardinality(Occurrences(NameAt(i))) \in Nat /\ Cardinality(Occurrences(NameAt(i))) # 0
    BY <1>3, <1>4, FS_CardinalityType, FS_EmptySet
<1> QED
    BY <1>4, <1>5 DEF EmptyEntry

\* The key of the name of a node is at its first node.
LEMMA FirstOccurrence ==
    ASSUME TypeOK, NEW j \in DOMAIN flat
    PROVE  \E i \in KeyPositions : i <= j /\ NameAt(i) = NameAt(j)
<1>1. DOMAIN flat = 1..Len(flat) /\ Len(flat) \in Nat
    BY DEF TypeOK
<1>2. Occurrences(NameAt(j)) \subseteq Nat /\ j \in Occurrences(NameAt(j))
    BY <1>1 DEF Occurrences
<1>3. PICK i \in Occurrences(NameAt(j)) : \A k \in Occurrences(NameAt(j)) : i <= k
    BY <1>2, Least
<1>4. i \in DOMAIN flat /\ NameAt(i) = NameAt(j) /\ i <= j
    BY <1>2, <1>3 DEF Occurrences
<1>5. ASSUME NEW k \in 1..(i - 1) PROVE NameAt(k) # NameAt(i)
  <2>1. k \in DOMAIN flat /\ ~(i <= k)
      BY <1>1, <1>4, <1>5
  <2> QED
      BY <1>3, <1>4, <2>1 DEF Occurrences
<1>6. ~EmptyEntry(NameAt(i))
    BY <1>4, EntryNotEmpty
<1> QED
    BY <1>4, <1>5, <1>6 DEF KeyPositions

\* A name has one key.
LEMMA OneKey ==
    ASSUME TypeOK, NEW i \in KeyPositions, NEW j \in KeyPositions, NameAt(i) = NameAt(j)
    PROVE  i = j
<1>1. DOMAIN flat = 1..Len(flat) /\ Len(flat) \in Nat
    BY DEF TypeOK
<1> QED
    BY <1>1 DEF KeyPositions

\* The key that is handled next is the first that is left.
LEMMA NextKeyIs ==
    ASSUME TypeOK, KeysLeft # {}
    PROVE  /\ NextKey \in KeyPositions /\ NextKey \in DOMAIN flat /\ NextKey > cursor
           /\ NextKey \in Nat
           /\ \A j \in KeyPositions : j > cursor => NextKey <= j
<1>1. DOMAIN flat = 1..Len(flat) /\ Len(flat) \in Nat
    BY DEF TypeOK
<1>2. KeysLeft \subseteq Nat
    BY <1>1 DEF KeysLeft, KeyPositions
<1>3. \E i \in KeysLeft : \A j \in KeysLeft : i <= j
    BY <1>2, Least
<1>4. NextKey \in KeysLeft /\ \A j \in KeysLeft : NextKey <= j
    BY <1>3 DEF NextKey
<1> QED
    BY <1>2, <1>4 DEF KeysLeft, KeyPositions

\* Two nodes of a name have different commits.
Conflict(n) == \E i, j \in Occurrences(n) : flat[i].node.commit # flat[j].node.commit

\* The first node is an alternative, and the only one unless commits conflict.
LEMMA OneAlternative ==
    ASSUME TypeOK, NEW p \in KeyPositions
    PROVE  /\ p \in Alternatives(NameAt(p))
           /\ Cardinality(Alternatives(NameAt(p))) = 1 <=> ~Conflict(NameAt(p))
           /\ ~Conflict(NameAt(p)) => Alternatives(NameAt(p)) = {p}
<1> DEFINE n == NameAt(p)
<1>1. DOMAIN flat = 1..Len(flat) /\ Len(flat) \in Nat /\ p \in DOMAIN flat
    BY DEF TypeOK, KeyPositions
<1>2. p \in Occurrences(n) /\ \A j \in Occurrences(n) : p <= j
  <2>1. p \in Occurrences(n)
      BY <1>1 DEF Occurrences
  <2>2. \A j \in 1..(p - 1) : NameAt(j) # n
      BY DEF KeyPositions
  <2>3. \A j \in Occurrences(n) : j \in 1..Len(flat) /\ NameAt(j) = n
      BY <1>1 DEF Occurrences
  <2> QED
      BY <1>1, <2>1, <2>2, <2>3
<1>3. p \in Alternatives(n)
  <2>1. \A j \in Occurrences(n) : ~(j < p)
      BY <1>1, <1>2 DEF Occurrences
  <2> QED
      BY <1>2, <2>1 DEF Alternatives
<1>4. IsFiniteSet(Alternatives(n))
  <2>1. Alternatives(n) \in SUBSET Occurrences(n)
      BY DEF Alternatives
  <2> QED
      BY <1>1, <2>1, EntryNotEmpty, FS_Subset
<1>5. ASSUME ~Conflict(n) PROVE Alternatives(n) = {p}
  <2>1. ASSUME NEW i \in Alternatives(n) PROVE i = p
    <3>1. i \in Occurrences(n) /\ i \in 1..Len(flat) /\ (p < i => flat[p].node.commit # flat[i].node.commit)
        BY <1>1, <1>2 DEF Alternatives, Occurrences
    <3>2. flat[p].node.commit = flat[i].node.commit
        BY <1>2, <1>5, <3>1 DEF Conflict
    <3>3. p <= i
        BY <1>2, <3>1
    <3> QED
        BY <1>1, <3>1, <3>2, <3>3
  <2> QED
      BY <1>3, <2>1
<1>6. ASSUME Alternatives(n) = {p} PROVE ~Conflict(n)
  <2>1. ASSUME NEW i \in Occurrences(n) PROVE flat[i].node.commit = flat[p].node.commit
    <3> DEFINE same == {j \in Occurrences(n) : flat[j].node.commit = flat[i].node.commit}
    <3>1. same \subseteq Nat /\ i \in same
        BY <1>1 DEF Occurrences
    <3>2. PICK j \in same : \A k \in same : j <= k
        BY <3>1, Least
    <3>3. ASSUME NEW k \in Occurrences(n), k < j PROVE flat[k].node.commit # flat[j].node.commit
      <4>1. k \in Nat /\ j \in Nat
          BY <1>1, <3>1 DEF Occurrences
      <4> QED
          BY <3>2, <3>3, <4>1
    <3>4. j \in Alternatives(n)
        BY <3>2, <3>3 DEF Alternatives
    <3> QED
        BY <1>6, <3>2, <3>4
  <2> QED
      BY <2>1 DEF Conflict
<1>7. Cardinality(Alternatives(n)) = 1 <=> Alternatives(n) = {p}
    BY <1>3, <1>4, FS_Singleton
<1> QED
    BY <1>3, <1>5, <1>6, <1>7

(***************************************************************************)
(* The resolution of conflicts                                             *)
(***************************************************************************)

\* What is read from the tree stays, as long as the tree does.
LEMMA SameTree ==
    ASSUME flat' = flat
    PROVE  /\ KeyPositions' = KeyPositions /\ Done' = Done
           /\ \A i : NameAt(i)' = NameAt(i)
           /\ \A n : Alternatives(n)' = Alternatives(n) /\ (Conflict(n)' <=> Conflict(n))
BY DEF KeyPositions, EmptyEntry, Occurrences, NameAt, Alternatives, Conflict, Done

\* So do the frames and the order of completion.
LEMMA SameFrames ==
    ASSUME TreeInv, flat' = flat, stack' = stack
    PROVE  Frames' /\ PostOrder'
<1>1. Done' = Done /\ \A i : NameAt(i)' = NameAt(i)
    BY SameTree
<1>2. Frames'
    BY <1>1 DEF TreeInv, Frames
<1>3. PostOrder'
    BY DEF TreeInv, PostOrder, NameAt
<1> QED
    BY <1>2, <1>3

\* A selection for the next key, by the tool or by the user.
Selects ==
    /\ pc \in {"resolve", "prompt"} /\ pc' = "resolve"
    /\ KeysLeft # {}
    /\ \E i \in Alternatives(NameAt(NextKey)) : selected' = Append(selected, i)
    /\ cursor' = NextKey
    /\ UNCHANGED <<stack, flat, asked, ip_list, escaped>>

\* A selection keeps the types, and what the tree has achieved.
LEMMA SelectsTreeInv == TreeInv /\ Selects => TreeInv'
<1> SUFFICES ASSUME TreeInv, Selects PROVE TreeInv'
    OBVIOUS
<1>1. TypeOK /\ KeysLeft # {} /\ flat' = flat
    BY DEF TreeInv, Selects
<1>2. NextKey \in DOMAIN flat /\ NextKey \in Nat
    BY <1>1, NextKeyIs
<1>3. PICK i \in Alternatives(NameAt(NextKey)) : selected' = Append(selected, i)
    BY DEF Selects
<1>4. i \in DOMAIN flat /\ DOMAIN flat = 1..Len(flat) /\ Len(flat) \in Nat
    BY <1>1 DEF Alternatives, Occurrences, TypeOK
<1>5. TypeOK'
  <2>1. cursor' \in 0..Len(flat')
      BY <1>1, <1>2, <1>4 DEF Selects
  <2>2. selected \in Seq(Nat) /\ i \in Nat
      BY <1>1, <1>4 DEF TypeOK
  <2>3. selected' \in Seq(Nat) /\ \A k \in DOMAIN selected' :
           selected'[k] = i \/ (k \in DOMAIN selected /\ selected'[k] = selected[k])
      BY <1>3, <2>2, AppendProperties
  <2> QED
      BY <1>1, <1>4, <2>1, <2>3 DEF TypeOK, Selects
<1>6. Done' = Done
    BY <1>1, SameTree
<1>7. Frames' /\ PostOrder'
    BY SameFrames DEF Selects
<1> QED
    BY <1>1, <1>5, <1>6, <1>7 DEF TreeInv, Phases, Selects

\* The types, the order of completion and the frames are inductive.
LEMMA NextTreeInv == TreeInv /\ [Next]_vars => TreeInv'
<1> SUFFICES ASSUME TreeInv, [Next]_vars PROVE TreeInv'
    OBVIOUS
<1>1. ASSUME CanDescend PROVE Head(Top.todo) \in Entry
  <2>1. Top \in Frame /\ Top.todo # <<>>
      BY <1>1 DEF CanDescend, TreeInv, TypeOK, Top
  <2>2. Top.todo \in Seq(Entry)
      BY <2>1 DEF Frame
  <2> QED
      BY <2>1, <2>2, HeadAndTail
<1>2. CASE FetchList
  <2>1. Served[Itself(Head(Top.todo))] \subseteq Seq(Entry)
    <3>1. Itself(Head(Top.todo)) \in Resolved
        BY <1>1, <1>2, ItselfResolved DEF FetchList
    <3> QED
        BY <3>1, ConstantsAssumption
  <2>2. PICK ips \in Seq(Entry) : stack' = CallConstructor(Head(Top.todo), ips)
      BY <1>2, <2>1 DEF FetchList
  <2> QED
      BY <1>2, <2>2, CallTreeInv DEF FetchList
<1>3. CASE FetchEmpty \/ FetchArchiveFails
  <2>1. <<>> \in Seq(Entry)
      OBVIOUS
  <2> QED
      BY <1>3, <2>1, CallTreeInv DEF FetchEmpty, FetchArchiveFails
<1>4. CASE NodeComplete
    BY <1>4, CompleteTreeInv
<1>5. CASE SelectOnly \/ ValidAnswer
  <2>1. Selects
      BY <1>5 DEF SelectOnly, ValidAnswer, Selects, TreeInv, Phases
  <2> QED
      BY <2>1, SelectsTreeInv
<1>6. CASE TreeGenerated
  <2>1. Len(stack) = 1 /\ stack[1].todo = <<>> /\ stack[1].deps = RootList
      BY <1>6 DEF TreeGenerated, Top, TreeInv, Frames
  <2>2. NamesIn(RootList) \subseteq Done
      BY <2>1 DEF TreeInv, Frames, NamesIn
  <2>3. Done' = Done
      BY <1>6, SameTree DEF TreeGenerated
  <2>4. Frames' /\ PostOrder'
      BY <1>6, SameFrames DEF TreeGenerated
  <2> QED
      BY <1>6, <2>2, <2>3, <2>4 DEF TreeGenerated, TreeInv, TypeOK, Phases
<1>7. CASE ReportConflict
  <2>1. flat' = flat /\ cursor' = cursor /\ KeysLeft # {} /\ TypeOK
      BY <1>7 DEF ReportConflict, TreeInv
  <2>2. Done' = Done /\ KeysLeft' = KeysLeft
      BY <2>1, SameTree DEF KeysLeft
  <2>3. NameAt(NextKey) \in Names
    <3>1. NextKey \in DOMAIN flat
        BY <2>1, NextKeyIs
    <3>2. flat[NextKey] \in TreeNode
        BY <2>1, <3>1 DEF TypeOK
    <3> QED
        BY <3>2 DEF NameAt, TreeNode, Entry
  <2>4. Frames' /\ PostOrder'
      BY <1>7, SameFrames DEF ReportConflict
  <2> QED
      BY <1>7, <2>1, <2>2, <2>3, <2>4 DEF ReportConflict, TreeInv, TypeOK, Phases
<1>8. CASE Resolve
  <2>1. flat' = flat /\ TypeOK /\ ip_list' = [k \in DOMAIN selected |-> flat[selected[k]].node]
      BY <1>8 DEF Resolve, TreeInv
  <2>2. \A k \in DOMAIN selected : flat[selected[k]].node \in Entry
    <3> SUFFICES ASSUME NEW k \in DOMAIN selected PROVE flat[selected[k]].node \in Entry
        OBVIOUS
    <3>1. flat[selected[k]] \in TreeNode
        BY <2>1 DEF TypeOK
    <3> QED
        BY <3>1 DEF TreeNode
  <2>3. DOMAIN selected = 1..Len(selected) /\ Len(selected) \in Nat
      BY <2>1 DEF TypeOK
  <2>4. ip_list' \in Seq(Entry)
      BY <2>1, <2>2, <2>3
  <2>5. Done' = Done
      BY <2>1, SameTree
  <2>6. Frames' /\ PostOrder'
      BY <1>8, SameFrames DEF Resolve
  <2> QED
      BY <1>8, <2>1, <2>4, <2>5, <2>6 DEF Resolve, TreeInv, TypeOK, Phases
<1>9. CASE FetchErrorPage \/ RecursionError \/ KeyboardInterrupt \/ UpdateIps
  <2>1. /\ flat' = flat /\ pc' \in {"exception", "resolved", "updating"}
        /\ pc' # "exception" => pc \notin {"tree", "exception"}
        /\ UNCHANGED <<stack, flat, cursor, asked, selected>>
        /\ ip_list' \in {ip_list, None} /\ escaped' \in {escaped, TRUE}
      BY <1>9 DEF FetchErrorPage, RecursionError, KeyboardInterrupt, UpdateIps
  <2>2. Done' = Done
      BY <2>1, SameTree
  <2>3. Frames' /\ PostOrder'
      BY <2>1, SameFrames
  <2> QED
      BY <2>1, <2>2, <2>3 DEF TreeInv, TypeOK, Phases
<1>10. CASE InvalidAnswer \/ UNCHANGED vars
  <2>1. UNCHANGED vars
      BY <1>10 DEF InvalidAnswer
  <2>2. Done' = Done /\ KeysLeft' = KeysLeft
      BY <2>1, SameTree DEF vars, KeysLeft
  <2>3. Frames' /\ PostOrder'
      BY <2>1, SameFrames DEF vars
  <2> QED
      BY <2>1, <2>2, <2>3 DEF vars, TreeInv, TypeOK, Phases
<1> QED
    BY <1>2, <1>3, <1>4, <1>5, <1>6, <1>7, <1>8, <1>9, <1>10
    DEF Next, ToolStep, UserStep, Fetch

\* The constructor keeps its shape, whatever the servers and the user answer.
THEOREM TypeCorrect == Spec => []TypeOK
<1>1. TreeInv => TypeOK
    BY DEF TreeInv
<1> QED
    BY <1>1, InitTreeInv, NextTreeInv, PTL DEF Spec

\* What has been selected when the keys up to r are handled: one alternative of
\* each, in the order of the keys.
SelectedUpTo(list, r) ==
    /\ \A k \in DOMAIN list : list[k] \in Alternatives(NameAt(list[k]))
    /\ \A k \in DOMAIN list : \E i \in KeyPositions : i <= r /\ NameAt(i) = NameAt(list[k])
    /\ \A i \in KeyPositions : i <= r => \E k \in DOMAIN list : NameAt(list[k]) = NameAt(i)
    /\ \A k, m \in DOMAIN list : \A i, j \in KeyPositions :
           k < m /\ NameAt(i) = NameAt(list[k]) /\ NameAt(j) = NameAt(list[m]) => i < j

\* The names with a conflict among them.
AskedUpTo(r) ==
    {n \in Names : Conflict(n) /\ \E i \in KeyPositions : i <= r /\ NameAt(i) = n}

Reached == IF pc = "prompt" THEN NextKey ELSE cursor

\* The invariant of the resolution.
ResolveInv ==
    /\ SelectedUpTo(selected, cursor)
    /\ ~escaped => asked = AskedUpTo(Reached)
    /\ Finished => /\ KeysLeft = {}
                   /\ ip_list = [k \in DOMAIN selected |-> flat[selected[k]].node]

\* One more selection, for the first key that is left.
LEMMA SelectOneMore ==
    ASSUME TypeOK, KeysLeft # {}, SelectedUpTo(selected, cursor),
           NEW x \in Alternatives(NameAt(NextKey))
    PROVE  SelectedUpTo(Append(selected, x), NextKey)
<1> DEFINE list == Append(selected, x)
           n1 == Len(selected)
<1>1. /\ NextKey \in KeyPositions /\ NextKey > cursor /\ NextKey \in Nat
      /\ \A j \in KeyPositions : j > cursor => NextKey <= j
    BY NextKeyIs
<1>2. x \in Nat /\ x \in DOMAIN flat /\ NameAt(x) = NameAt(NextKey)
    BY DEF Alternatives, Occurrences, TypeOK
<1>3. /\ selected \in Seq(Nat) /\ n1 \in Nat /\ DOMAIN selected = 1..n1
      /\ DOMAIN list = 1..(n1 + 1) /\ list[n1 + 1] = x
      /\ \A k \in 1..n1 : list[k] = selected[k]
  <2>1. selected \in Seq(Nat)
      BY DEF TypeOK
  <2> QED
      BY <1>2, <2>1, AppendProperties
<1>4. \A k \in 1..(n1 + 1) : k \in 1..n1 \/ k = n1 + 1
    BY <1>3
<1>5. cursor \in Nat /\ KeyPositions \subseteq Nat
  <2>1. DOMAIN flat = 1..Len(flat) /\ Len(flat) \in Nat /\ cursor \in 0..Len(flat)
      BY DEF TypeOK
  <2> QED
      BY <2>1 DEF KeyPositions
<1>6. \A i \in KeyPositions : i <= NextKey <=> i <= cursor \/ i = NextKey
    BY <1>1, <1>5
<1> HIDE DEF list, n1
<1>7. \A k \in DOMAIN list : list[k] \in Alternatives(NameAt(list[k]))
    BY <1>2, <1>3, <1>4 DEF SelectedUpTo
<1>8. \A k \in DOMAIN list : \E i \in KeyPositions : i <= NextKey /\ NameAt(i) = NameAt(list[k])
    BY <1>1, <1>2, <1>3, <1>4, <1>6 DEF SelectedUpTo
<1>9. ASSUME NEW i \in KeyPositions, i <= NextKey
      PROVE  \E k \in DOMAIN list : NameAt(list[k]) = NameAt(i)
  <2>1. CASE i <= cursor
    <3>1. PICK k \in 1..n1 : NameAt(selected[k]) = NameAt(i)
        BY <1>3, <2>1 DEF SelectedUpTo
    <3>2. k \in DOMAIN list /\ list[k] = selected[k]
        BY <1>3
    <3> QED
        BY <3>1, <3>2
  <2>2. CASE i = NextKey
    <3>1. n1 + 1 \in DOMAIN list
        BY <1>3
    <3> QED
        BY <1>2, <1>3, <2>2, <3>1
  <2> QED
      BY <1>6, <1>9, <2>1, <2>2
<1>10. ASSUME NEW k \in DOMAIN list, NEW m \in DOMAIN list, k < m,
              NEW i \in KeyPositions, NEW j \in KeyPositions,
              NameAt(i) = NameAt(list[k]), NameAt(j) = NameAt(list[m])
       PROVE  i < j
  <2>1. k \in 1..n1 /\ list[k] = selected[k]
      BY <1>3, <1>10
  <2>2. CASE m \in 1..n1
      BY <1>3, <1>10, <2>1, <2>2 DEF SelectedUpTo
  <2>3. CASE m = n1 + 1
    <3>1. j = NextKey
      <4>1. NameAt(j) = NameAt(NextKey)
          BY <1>2, <1>3, <1>10, <2>3
      <4> QED
          BY <1>1, <4>1, OneKey
    <3>2. i <= cursor
      <4>1. PICK h \in KeyPositions : h <= cursor /\ NameAt(h) = NameAt(selected[k])
          BY <1>3, <2>1 DEF SelectedUpTo
      <4>2. h = i
          BY <1>10, <2>1, <4>1, OneKey
      <4> QED
          BY <4>1, <4>2
    <3> QED
        BY <1>1, <1>5, <3>1, <3>2
  <2> QED
      BY <1>3, <1>4, <2>2, <2>3
<1>11. \A i \in KeyPositions : i <= NextKey => \E k \in DOMAIN list : NameAt(list[k]) = NameAt(i)
    BY <1>9
<1>12. \A k, m \in DOMAIN list : \A i, j \in KeyPositions :
          k < m /\ NameAt(i) = NameAt(list[k]) /\ NameAt(j) = NameAt(list[m]) => i < j
    BY <1>10, Zenon
<1>13. SelectedUpTo(list, NextKey)
    BY <1>7, <1>8, <1>11, <1>12, Zenon DEF SelectedUpTo
<1> QED
    BY <1>13 DEF list

\* The names with a conflict, one key further.
LEMMA AskedOneMore ==
    ASSUME TypeOK, KeysLeft # {}
    PROVE  AskedUpTo(NextKey) = IF Conflict(NameAt(NextKey))
                                THEN AskedUpTo(cursor) \cup {NameAt(NextKey)}
                                ELSE AskedUpTo(cursor)
<1>1. /\ NextKey \in KeyPositions /\ NextKey > cursor /\ NextKey \in Nat /\ NextKey \in DOMAIN flat
      /\ \A j \in KeyPositions : j > cursor => NextKey <= j
    BY NextKeyIs
<1>2. cursor \in Nat /\ KeyPositions \subseteq Nat
  <2>1. DOMAIN flat = 1..Len(flat) /\ Len(flat) \in Nat /\ cursor \in 0..Len(flat)
      BY DEF TypeOK
  <2> QED
      BY <2>1 DEF KeyPositions
<1>3. \A i \in KeyPositions : i <= NextKey <=> i <= cursor \/ i = NextKey
    BY <1>1, <1>2
<1>4. NextKey <= NextKey /\ NameAt(NextKey) \in Names
  <2>1. flat[NextKey] \in TreeNode
      BY <1>1 DEF TypeOK
  <2> QED
      BY <1>1, <2>1 DEF NameAt, TreeNode, Entry
<1> QED
    BY <1>1, <1>3, <1>4 DEF AskedUpTo

\* What was selected is read from the tree.
LEMMA SameSelected ==
    ASSUME flat' = flat, NEW list, NEW r, selected' = list, cursor' = r, SelectedUpTo(list, r)
    PROVE  SelectedUpTo(selected, cursor)'
<1>1. /\ KeyPositions' = KeyPositions
      /\ \A i : NameAt(i)' = flat[i].node.name /\ NameAt(i) = flat[i].node.name
    BY SameTree DEF NameAt
<1>2. \A k \in DOMAIN list : (selected[k] \in Alternatives(NameAt(selected[k])))'
    BY DEF SelectedUpTo, Occurrences, NameAt, Alternatives
<1>3. \A k \in DOMAIN list : \E i \in KeyPositions' : i <= r /\ NameAt(i)' = NameAt(selected[k])'
    BY <1>1 DEF SelectedUpTo, NameAt
<1>4. \A i \in KeyPositions' : i <= r => \E k \in DOMAIN list : NameAt(selected[k])' = NameAt(i)'
    BY <1>1 DEF SelectedUpTo, NameAt
<1>5. \A k, m \in DOMAIN list : \A i, j \in KeyPositions' :
         k < m /\ NameAt(i)' = NameAt(selected[k])' /\ NameAt(j)' = NameAt(selected[m])' => i < j
    BY <1>1 DEF SelectedUpTo, NameAt
<1> QED
    BY <1>2, <1>3, <1>4, <1>5 DEF SelectedUpTo

\* So is what was asked.
LEMMA SameAsked ==
    ASSUME flat' = flat, NEW r, Reached' = r
    PROVE  AskedUpTo(Reached)' = AskedUpTo(r)
BY DEF AskedUpTo, KeyPositions, EmptyEntry, Occurrences, NameAt, Conflict

\* Nothing is selected while the tree is built.
LEMMA NothingSelected ==
    TypeOK /\ Phases /\ pc = "tree" => ResolveInv
<1> SUFFICES ASSUME TypeOK, Phases, pc = "tree" PROVE ResolveInv
    OBVIOUS
<1>1. cursor = 0 /\ selected = <<>> /\ asked = {} /\ Reached = 0
    BY DEF Phases, Reached
<1>2. \A i \in KeyPositions : ~(i <= 0)
  <2>1. DOMAIN flat = 1..Len(flat) /\ Len(flat) \in Nat
      BY DEF TypeOK
  <2> QED
      BY <2>1 DEF KeyPositions
<1>3. SelectedUpTo(selected, cursor)
    BY <1>1, <1>2 DEF SelectedUpTo
<1>4. AskedUpTo(Reached) = {}
    BY <1>1, <1>2 DEF AskedUpTo
<1> QED
    BY <1>1, <1>3, <1>4 DEF ResolveInv, Finished

\* The invariant of the resolution is inductive.
LEMMA NextResolveInv ==
    ASSUME TreeInv, TreeInv', ResolveInv, [Next]_vars
    PROVE  ResolveInv'
<1>1. CASE pc' = "tree"
  <2>1. (TypeOK /\ Phases /\ pc = "tree" => ResolveInv)'
      BY NothingSelected, PTL
  <2> QED
      BY <1>1, <2>1 DEF TreeInv
<1>2. CASE Selects /\ (pc = "resolve" => Cardinality(Alternatives(NameAt(NextKey))) = 1)
  <2>1. TypeOK /\ KeysLeft # {} /\ flat' = flat /\ cursor' = NextKey /\ pc' = "resolve"
      BY <1>2 DEF Selects, TreeInv
  <2>2. PICK x \in Alternatives(NameAt(NextKey)) : selected' = Append(selected, x)
      BY <1>2 DEF Selects
  <2>3. PICK list : list = Append(selected, x)
      OBVIOUS
  <2>4. PICK r : r = NextKey
      OBVIOUS
  <2>5. SelectedUpTo(list, r)
      BY <2>1, <2>3, <2>4, SelectOneMore DEF ResolveInv
  <2>6. SelectedUpTo(selected, cursor)'
      BY <2>1, <2>2, <2>3, <2>4, <2>5, SameSelected
  <2>7. Reached' = r
      BY <2>1, <2>4 DEF Reached
  <2>8. AskedUpTo(Reached)' = AskedUpTo(r)
      BY <2>1, <2>7, SameAsked
  <2>9. AskedUpTo(r) = AskedUpTo(Reached)
    <3>1. CASE pc = "prompt"
        BY <2>4, <3>1 DEF Reached
    <3>2. CASE pc = "resolve"
      <4>1. ~Conflict(NameAt(NextKey))
          BY <1>2, <2>1, <3>2, NextKeyIs, OneAlternative
      <4> QED
          BY <2>1, <2>4, <3>2, <4>1, AskedOneMore DEF Reached
    <3> QED
        BY <1>2, <3>1, <3>2 DEF Selects
  <2> QED
      BY <1>2, <2>1, <2>6, <2>8, <2>9 DEF ResolveInv, Selects, Finished
<1>3. CASE ReportConflict
  <2>1. /\ TypeOK /\ KeysLeft # {} /\ flat' = flat /\ pc = "resolve" /\ pc' = "prompt"
        /\ UNCHANGED <<cursor, selected, escaped>>
        /\ asked' = asked \cup {NameAt(NextKey)}
        /\ Cardinality(Alternatives(NameAt(NextKey))) # 1
      BY <1>3 DEF ReportConflict, TreeInv
  <2>2. KeysLeft' = KeysLeft
      BY <2>1, SameTree DEF KeysLeft
  <2>3. PICK r : r = NextKey
      OBVIOUS
  <2>4. Reached' = r
      BY <2>1, <2>2, <2>3 DEF Reached, NextKey
  <2>5. AskedUpTo(Reached)' = AskedUpTo(r)
      BY <2>1, <2>4, SameAsked
  <2>6. Conflict(NameAt(NextKey))
      BY <2>1, NextKeyIs, OneAlternative
  <2>7. AskedUpTo(r) = AskedUpTo(Reached) \cup {NameAt(NextKey)}
      BY <2>1, <2>3, <2>6, AskedOneMore DEF Reached
  <2>8. SelectedUpTo(selected, cursor)'
    <3>1. PICK list, c : list = selected /\ c = cursor
        OBVIOUS
    <3> QED
        BY <2>1, <3>1, SameSelected DEF ResolveInv
  <2> QED
      BY <2>1, <2>5, <2>7, <2>8 DEF ResolveInv, Finished
<1>4. CASE /\ UNCHANGED <<flat, cursor, asked, selected>>
           /\ \/ pc' \in {"resolve", "exception"} /\ pc # "prompt" /\ escaped' = escaped
              \/ pc = "prompt" /\ pc' # "prompt" /\ escaped'
              \/ Resolve
              \/ UpdateIps
              \/ UNCHANGED vars
  <2>1. SelectedUpTo(selected, cursor)'
    <3>1. PICK list, c : list = selected /\ c = cursor
        OBVIOUS
    <3> QED
        BY <1>4, <3>1, SameSelected DEF ResolveInv
  <2>2. KeysLeft' = KeysLeft
      BY <1>4, SameTree DEF KeysLeft
  <2>3. ~escaped' => ~escaped /\ asked' = AskedUpTo(Reached)'
    <3> HAVE ~escaped'
    <3>1. ~escaped /\ Reached' = Reached
        BY <1>4, <2>2 DEF Reached, NextKey, Resolve, UpdateIps, vars
    <3>2. PICK r : r = Reached
        OBVIOUS
    <3>3. AskedUpTo(Reached)' = AskedUpTo(r)
        BY <1>4, <3>1, <3>2, SameAsked
    <3> QED
        BY <1>4, <3>1, <3>2, <3>3 DEF ResolveInv
  <2>4. ASSUME Finished'
        PROVE  /\ KeysLeft' = {}
               /\ ip_list' = [k \in DOMAIN selected' |-> flat'[selected'[k]].node]
      BY <1>4, <2>2, <2>3, <2>4 DEF Finished, ResolveInv, Resolve, UpdateIps, vars
  <2> QED
      BY <2>1, <2>3, <2>4 DEF ResolveInv
<1> QED
  <2>1. CASE FetchList \/ FetchEmpty \/ FetchArchiveFails \/ NodeComplete
      BY <1>1, <2>1 DEF FetchList, FetchEmpty, FetchArchiveFails, NodeComplete, CanDescend
  <2>2. CASE FetchErrorPage \/ RecursionError \/ TreeGenerated
      BY <1>4, <2>2 DEF FetchErrorPage, RecursionError, TreeGenerated, CanDescend
  <2>3. CASE SelectOnly \/ ValidAnswer
      BY <1>2, <2>3 DEF SelectOnly, ValidAnswer, Selects, TreeInv, Phases
  <2>4. CASE ReportConflict
      BY <1>3, <2>4
  <2>5. CASE KeyboardInterrupt
      BY <1>4, <2>5 DEF KeyboardInterrupt
  <2>6. CASE Resolve \/ UpdateIps
      BY <1>4, <2>6 DEF Resolve, UpdateIps
  <2>7. CASE InvalidAnswer \/ UNCHANGED vars
      BY <1>4, <2>7 DEF InvalidAnswer, vars
  <2> QED
      BY <2>1, <2>2, <2>3, <2>4, <2>5, <2>6, <2>7 DEF Next, ToolStep, UserStep, Fetch

\* Tree and resolution together.
LEMMA ResolveInvariance == Spec => [](TreeInv /\ ResolveInv)
<1>1. Init => TreeInv /\ ResolveInv
    BY InitTreeInv, NothingSelected DEF TreeInv, Init
<1>2. TreeInv /\ ResolveInv /\ [Next]_vars => TreeInv' /\ ResolveInv'
    BY NextTreeInv, NextResolveInv
<1> QED
    BY <1>1, <1>2, PTL DEF Spec

(***************************************************************************)
(* What the list of update_ips is                                          *)
(***************************************************************************)

\* At the end every name of the tree has been selected once, at position k of
\* the list where its key is.
LEMMA AllSelected ==
    ASSUME TreeInv, ResolveInv, Finished
    PROVE  /\ DOMAIN ip_list = DOMAIN selected
           /\ \A k \in DOMAIN selected : ip_list[k].name = NameAt(selected[k])
           /\ NamesIn(ip_list) = Done
           /\ \A i \in KeyPositions : i <= cursor
<1>1. KeysLeft = {} /\ ip_list = [k \in DOMAIN selected |-> flat[selected[k]].node]
    BY DEF ResolveInv
<1>2. DOMAIN ip_list = DOMAIN selected /\ \A k \in DOMAIN selected : ip_list[k].name = NameAt(selected[k])
    BY <1>1 DEF NameAt
<1>3. \A i \in KeyPositions : i <= cursor
  <2>1. DOMAIN flat = 1..Len(flat) /\ Len(flat) \in Nat /\ cursor \in 0..Len(flat)
      BY DEF TreeInv, TypeOK
  <2> QED
      BY <1>1, <2>1 DEF KeysLeft, KeyPositions
<1>4. ASSUME NEW n \in Done PROVE n \in NamesIn(ip_list)
  <2>1. PICK j \in DOMAIN flat : NameAt(j) = n
      BY <1>4 DEF Done
  <2>2. PICK i \in KeyPositions : NameAt(i) = n
      BY <2>1, FirstOccurrence DEF TreeInv
  <2>3. PICK k \in DOMAIN selected : NameAt(selected[k]) = n
      BY <1>3, <2>2 DEF ResolveInv, SelectedUpTo
  <2> QED
      BY <1>2, <2>3 DEF NamesIn
<1>5. NamesIn(ip_list) \subseteq Done
    BY <1>2 DEF NamesIn, Done, TreeInv, TypeOK
<1> QED
    BY <1>2, <1>3, <1>4, <1>5

\* The list that is downloaded is closed under dependencies, with one version
\* of each IP, for any servers, any user and any depth of the tree.
THEOREM DepsAlwaysClosed == Spec => []DepsClosed
<1>1. TreeInv /\ ResolveInv => DepsClosed
  <2> SUFFICES ASSUME TreeInv, ResolveInv, Finished
               PROVE  /\ NamesIn(RootList) \subseteq NamesIn(ip_list)
                      /\ \A k \in DOMAIN selected :
                            NamesIn(flat[selected[k]].deps) \subseteq NamesIn(ip_list)
                      /\ \A k, m \in DOMAIN ip_list : k # m => ip_list[k].name # ip_list[m].name
      BY DEF DepsClosed
  <2>1. /\ DOMAIN ip_list = DOMAIN selected /\ NamesIn(ip_list) = Done
        /\ \A k \in DOMAIN selected : ip_list[k].name = NameAt(selected[k])
        /\ \A i \in KeyPositions : i <= cursor
      BY AllSelected
  <2>2. NamesIn(RootList) \subseteq NamesIn(ip_list)
      BY <2>1 DEF TreeInv, Phases, Finished
  <2>3. ASSUME NEW k \in DOMAIN selected, NEW n \in NamesIn(flat[selected[k]].deps)
        PROVE  n \in Done
    <3>1. selected[k] \in DOMAIN flat /\ DOMAIN flat = 1..Len(flat) /\ Len(flat) \in Nat
        BY DEF TreeInv, TypeOK
    <3>2. PICK j \in 1..(selected[k] - 1) : NameAt(j) = n
        BY <2>3, <3>1 DEF TreeInv, PostOrder
    <3>3. j \in DOMAIN flat
        BY <3>1, <3>2
    <3> QED
        BY <3>2, <3>3 DEF Done
  <2>4. ASSUME NEW k \in DOMAIN selected, NEW m \in DOMAIN selected, k < m
        PROVE  NameAt(selected[k]) # NameAt(selected[m])
    <3>1. PICK i \in KeyPositions : NameAt(i) = NameAt(selected[k])
        BY DEF ResolveInv, SelectedUpTo
    <3>2. i \in Nat
        BY DEF KeyPositions, TreeInv, TypeOK
    <3>3. NameAt(selected[k]) = NameAt(selected[m]) => i < i
        BY <2>4, <3>1 DEF ResolveInv, SelectedUpTo
    <3> QED
        BY <3>2, <3>3
  <2>5. \A k, m \in DOMAIN selected : k # m => k < m \/ m < k
      BY DEF TreeInv, TypeOK
  <2> QED
      BY <2>1, <2>2, <2>3, <2>4, <2>5
<1> QED
    BY <1>1, ResolveInvariance, PTL

\* The user is asked about the IPs that the tree references at two commits,
\* and about none that it references in one version (get_conflicts).
THEOREM AlwaysAskedOnConflict == Spec => []AskedOnConflict
<1>1. TreeInv /\ ResolveInv => AskedOnConflict
  <2> SUFFICES ASSUME TreeInv, ResolveInv, Finished, NEW n \in Names
               PROVE  /\ Conflict(n) => n \in asked
                      /\ n \in asked => \E i, j \in Occurrences(n) : Version(i) # Version(j)
      BY DEF AskedOnConflict, Conflict
  <2>1. asked = AskedUpTo(cursor)
      BY DEF ResolveInv, Finished, Reached
  <2>2. \A i \in KeyPositions : i <= cursor
      BY AllSelected
  <2>3. ASSUME Conflict(n) PROVE \E i \in KeyPositions : i <= cursor /\ NameAt(i) = n
    <3>1. PICK j \in DOMAIN flat : NameAt(j) = n
        BY <2>3 DEF Conflict, Occurrences
    <3> QED
        BY <2>2, <3>1, FirstOccurrence DEF TreeInv
  <2>4. ASSUME n \in asked PROVE \E i, j \in Occurrences(n) : Version(i) # Version(j)
    <3>1. PICK i \in Occurrences(n), j \in Occurrences(n) : flat[i].node.commit # flat[j].node.commit
        BY <2>1, <2>4 DEF AskedUpTo, Conflict
    <3>2. flat \in Seq(TreeNode) /\ i \in DOMAIN flat /\ j \in DOMAIN flat
        BY <3>1 DEF TreeInv, TypeOK, Occurrences
    <3>3. flat[i] \in TreeNode /\ flat[j] \in TreeNode
        BY <3>2
    <3>4. flat[i].node \in Entry /\ flat[j].node \in Entry
        BY <3>3 DEF TreeNode
    <3>5. Version(i).commit = flat[i].node.commit /\ Version(j).commit = flat[j].node.commit
        BY <3>4 DEF Version, Itself, Entry
    <3> QED
        BY <3>1, <3>5
  <2> QED
      BY <2>1, <2>3, <2>4 DEF AskedUpTo
<1> QED
    BY <1>1, ResolveInvariance, PTL

\* Unless the user had to choose, an IP comes after everything it depends on.
THEOREM AlwaysBottomUp == Spec => []BottomUp
<1>1. TreeInv /\ ResolveInv => BottomUp
  <2> SUFFICES ASSUME TreeInv, ResolveInv, Finished, asked = {},
                      NEW k \in DOMAIN selected, NEW d \in NamesIn(flat[selected[k]].deps)
               PROVE  \E m \in 1..(k - 1) : ip_list[m].name = d
      BY DEF BottomUp
  <2> DEFINE x == selected[k]
  <2>1. /\ TypeOK /\ x \in DOMAIN flat /\ DOMAIN flat = 1..Len(flat) /\ Len(flat) \in Nat
        /\ DOMAIN selected = 1..Len(selected) /\ Len(selected) \in Nat
      BY DEF TreeInv, TypeOK
  <2>2. /\ \A m \in DOMAIN selected : ip_list[m].name = NameAt(selected[m])
        /\ \A i \in KeyPositions : i <= cursor
      BY AllSelected
  <2>3. PICK p \in KeyPositions : p <= cursor /\ NameAt(p) = NameAt(x)
      BY DEF ResolveInv, SelectedUpTo
  <2>4. x = p
    <3>1. asked = AskedUpTo(cursor)
        BY DEF ResolveInv, Finished, Reached
    <3>2. NameAt(p) \in Names
      <4>1. flat[x] \in TreeNode
          BY <2>1 DEF TypeOK
      <4> QED
          BY <2>3, <4>1 DEF NameAt, TreeNode, Entry
    <3>3. ~Conflict(NameAt(p))
        BY <2>3, <3>1, <3>2 DEF AskedUpTo
    <3>4. Alternatives(NameAt(p)) = {p}
        BY <2>1, <3>3, OneAlternative
    <3>5. x \in Alternatives(NameAt(x))
        BY DEF ResolveInv, SelectedUpTo
    <3> QED
        BY <2>3, <3>4, <3>5
  <2>5. PICK j \in 1..(x - 1) : NameAt(j) = d
      BY <2>1 DEF TreeInv, PostOrder
  <2>6. j \in DOMAIN flat /\ j < p
      BY <2>1, <2>4, <2>5
  <2>7. PICK q \in KeyPositions : q <= j /\ NameAt(q) = d
      BY <2>1, <2>5, <2>6, FirstOccurrence
  <2>8. q < p /\ q \in Nat /\ p \in Nat
      BY <2>1, <2>6, <2>7 DEF KeyPositions
  <2>9. PICK m \in DOMAIN selected : NameAt(selected[m]) = d
      BY <2>2, <2>7 DEF ResolveInv, SelectedUpTo
  <2>10. ~(k < m)
    <3>1. k < m => p < q
        BY <2>3, <2>7, <2>9 DEF ResolveInv, SelectedUpTo
    <3> QED
        BY <2>8, <3>1
  <2>11. k # m
    <3>1. k = m => p = q
        BY <2>1, <2>3, <2>7, <2>9, OneKey
    <3> QED
        BY <2>8, <3>1
  <2>12. m \in 1..(k - 1)
      BY <2>1, <2>10, <2>11
  <2> QED
      BY <2>2, <2>9, <2>12
<1> QED
    BY <1>1, ResolveInvariance, PTL
=============================================================================
