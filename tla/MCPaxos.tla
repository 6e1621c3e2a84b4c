------------------------------ MODULE MCPaxos ------------------------------
(* Instances of Paxos for TLC. *)
EXTENDS Paxos

CONSTANTS n1, n2, n3, v1, v2

\* Homes: one Propose call, one of each of two nodes, two of the same node
Alone == v1 :> n1
Rivals == v1 :> n1 @@ v2 :> n2
SameNode == v1 :> n1 @@ v2 :> n1

\* Proposal IDs start from 1
IDs == CHOOSE f \in [Node -> 1..3] :
           /\ f[n1] = 1 /\ f[n2] = 2
           /\ n3 \in Node => f[n3] = 3

\* Bounds on the timeouts of n1
NoTimeout == [n \in Node |-> 0]
OneTimeout == [n \in Node |-> IF n = n1 THEN 1 ELSE 0]
TwoTimeouts == [n \in Node |-> IF n = n1 THEN 2 ELSE 0]
=============================================================================
