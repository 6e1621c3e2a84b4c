------------------------------ MODULE MCGossip ------------------------------
(* Instances of Gossip for TLC: a pair of nodes, and three nodes in a line. *)
EXTENDS Gossip, TLC

CONSTANTS n1, n2, n3, m1, m2

Pair == {<<n1, n2>>}
Line == {<<n1, n2>>, <<n2, n3>>}
LastHop == {<<n2, n3>>}
Nobody == {}
AcrossTheLine == {<<n3, n1>>}
PayloadSymmetry == Permutations(Payload)
=============================================================================
