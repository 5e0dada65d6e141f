----------------------------- MODULE MCIpsTree -----------------------------
(***************************************************************************)
(* Three IPs: a is referenced by the root directly, b lives on a server    *)
(* of its own and c is a shared dependency that the root, a and b may      *)
(* reference at another commit, in another group, or that may refer back.  *)
(***************************************************************************)
EXTENDS IpsTree

CONSTANTS a, b, c, pulp, fork, inhouse, master, hash

MCNames == {a, b, c}
MCGroups == {pulp, fork, inhouse}
MCCommits == {master, hash}
MCGithub == {pulp, fork}

E(n, g, cm) == [name |-> n, group |-> g, commit |-> cm]

MCRootList == <<E(a, None, master), E(b, inhouse, hash)>>

\* The servers' lists change while the tool fetches (a push to a branch), so
\* one IP may be seen with several lists; c at master may refer back to a.
MCServed == [e \in Resolved |->
    CASE e.name = a -> {<<E(c, None, master)>>, <<E(c, None, hash), E(b, inhouse, hash)>>}
      [] e.name = b -> {<<E(c, None, master)>>, <<E(c, fork, master)>>}
      [] e.name = c /\ e.commit = master -> {<<>>, <<E(a, None, master)>>}
      [] OTHER      -> {<<>>}]
=============================================================================
