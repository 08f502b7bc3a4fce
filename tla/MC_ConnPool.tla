---------------------------- MODULE MC_ConnPool ----------------------------
(* Instantiation of ConnPool for TLC: two concurrent callers and two or    *)
(* three connection identities (Cardinality(Conns) = maxConnNum).          *)
EXTENDS ConnPool, TLC

CONSTANTS c1, c2, k1, k2, k3

MCClients == {c1, c2}
MCConns == {k1, k2}
MCConns3 == {k1, k2, k3}

Symm == Permutations(MCClients) \cup Permutations(MCConns)
=============================================================================
