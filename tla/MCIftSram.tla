----------------------------- MODULE MCIftSram -----------------------------
(***************************************************************************)
(* A private bank of four words and two interleaved banks of four, with    *)
(* words of one byte of two bits, so that a row has an address bit above   *)
(* the byte enables and a bit that the loader of taint does not take.      *)
(***************************************************************************)
EXTENDS IftSram, FiniteSets

\* Contents that differ between neighbours and between the rows of a bank.
MCContent ==
    [a \in Pri1..(End - 1) |-> {k \in Bits : (((a + a \div 4) % 4) \div 2^k) % 2 = 1}]
MCMasks == {[a \in Pri1..(End - 1) |-> m] : m \in {{}, Bits}}

\* Values of the two runs with their taint.
Same(S) == {[v |-> <<x, x>>, t |-> FALSE] : x \in S}
Low == {{}, {0}, {1}}
Addrs == {[v |-> <<x, x>>, t |-> {}] : x \in Low}
         \cup {[v |-> <<{}, {}>>, t |-> {1}]}
         \cup {[v |-> p, t |-> {0}] : p \in {<<{}, {0}>>, <<{0}, {}>>, <<{1}, {1}>>}}
         \cup {[v |-> p, t |-> {1}] : p \in {<<{}, {1}>>, <<{1}, {}>>}}
Zero == [v |-> <<{}, {}>>, t |-> {}]
Datas == {Zero, [v |-> <<{}, Bits>>, t |-> Bits]}
Enables == {[v |-> <<{0}, {0}>>, t |-> {}], [v |-> <<{0}, {}>>, t |-> {0}], [v |-> <<{}, {}>>, t |-> {0}]}
Yes == [v |-> <<TRUE, TRUE>>, t |-> FALSE]
No == [v |-> <<FALSE, FALSE>>, t |-> FALSE]
Perhaps == {[v |-> <<TRUE, FALSE>>, t |-> TRUE], [v |-> <<FALSE, TRUE>>, t |-> TRUE]}

Input(req, we, be, addr, wdata) ==
    [req |-> req.v, we |-> we.v, be |-> be.v, addr |-> addr.v, wdata |-> wdata.v,
     t |-> [req |-> req.t, we |-> we.t, be |-> be.t, addr |-> addr.t, wdata |-> wdata.t]]

\* Idle cycles, reads, writes, and what is one of them in one run only.
MCRequests ==
    {Input(No, we, be, a, Zero) : we \in {No, Yes}, be \in {Zero, [v |-> <<{0}, {0}>>, t |-> {}]},
                                  a \in {b \in Addrs : b.v[1] = {}}}
    \cup {Input(req, No, Zero, a, Zero) : req \in {Yes} \cup Perhaps, a \in Addrs}
    \cup {Input(Yes, Yes, be, a, d) : be \in Enables, a \in Addrs, d \in Datas}
    \cup {Input(Yes, we, be, a, Zero) : we \in Perhaps, be \in {Zero, [v |-> <<{0}, {0}>>, t |-> {}]},
                                        a \in {b \in Addrs : b.v[1] = {}}}
    \cup {Input(req, Yes, be, a, Zero) : req \in Perhaps, be \in {[v |-> <<{0}, {0}>>, t |-> {}]},
                                        a \in {b \in Addrs : b.v[1] = {}}}

\* Nothing is claimed once taint is lost, and what the clock does is looked at
\* for images of which at most two rows are not empty.
Bounded ==
    /\ lost = {}
    /\ files = Closed => Cardinality({a \in Addr : memory[1][a] # {} \/ memory[2][a] # {} \/ mem_taints[a] # {}}) <= 2
=============================================================================
