----------------------------- MODULE MCMacCtrl -----------------------------
(***************************************************************************)
(* The MAC engine with every NB_ITER of its width, and microprograms of    *)
(* one, two, three and six loops.  Their bodies take their instructions    *)
(* from one list, so that every body differs from every other and order    *)
(* matters (mv).  As valid needs a busy cycle, a body of one instruction   *)
(* is in a loop that never runs it, or alone.                              *)
(***************************************************************************)
EXTENDS MacCtrl

CONSTANTS a, b, c, d, nb_iter, iter_stride, one_stride

Mnems == a :> 0 @@ b :> 1 @@ c :> 2 @@ d :> 3 @@ nb_iter :> 4 @@ iter_stride :> 5 @@ one_stride :> 6
MCReadOnly == [r \in 4..6 |-> <<7, 3, 4>>[r - 3]]

I(o, x, y) == [op |-> o, a |-> x, b |-> y]
MCCodeYml == <<I("add", a, iter_stride), I("add", b, iter_stride),
               I("add", c, one_stride), I("add", d, one_stride)>>

Listing == <<I("add", a, iter_stride), I("add", b, one_stride), I("mv", c, a),
             I("add", c, nb_iter), I("mv", a, b), I("add", d, c), I("mv", 3, 4), I("add", b, b)>>

\* Consecutive pieces of the listing of the given lengths.
Pieces(ops) == [l \in 1..Len(ops) |->
                  LET before == FoldLeft(LAMBDA x, y : x + y, 0, SubSeq(ops, 1, l - 1))
                  IN  SubSeq(Listing, before + 1, before + ops[l])]

P(lengths, ranges) == {[body |-> Pieces(o), range |-> r] : o \in lengths, r \in ranges}

MCSources == P({<<2>>, <<7>>}, {<<n>> : n \in 1..4})
             \cup P({<<1>>}, {<<3>>})
             \cup P({<<2, 1, 1, 1, 1, 2>>}, {<<m, 1, 1, 1, 1, n>> : m, n \in 2..3})
             \cup P({<<3, 2>>, <<2, 4>>}, {<<m, n>> : m, n \in 1..3})
             \cup P({<<2, 3, 2>>}, {<<l, m, n>> : l, m, n \in 1..3})
=============================================================================
