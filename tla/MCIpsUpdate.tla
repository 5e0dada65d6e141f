---------------------------- MODULE MCIpsUpdate ----------------------------
(***************************************************************************)
(* Two IPs, one of them with a fork.  The list changes between runs: an IP *)
(* is put on its branch, or pinned to a version that may not be pushed yet *)
(* and moved to the fork; the other one is dropped and comes back.         *)
(***************************************************************************)
EXTENDS IpsUpdate

CONSTANTS a, b, own, fork, other

MCIps == {a, b}
MCRemotes == {own, fork, other}
At(i, repo, v) == [ip |-> i, remote |-> repo, commit |-> v]
MCIpLists == {<<At(a, own, Branch), At(b, other, 1)>>, <<At(a, fork, 2)>>}
=============================================================================
