--------------------------- MODULE FifoBroadcast ---------------------------
(***************************************************************************)
(* What Messager.Broadcast promises to the layers above it (consensus,     *)
(* blockchain, wallet): a rumor is handed to the callbacks of every other  *)
(* node in the order its origin broadcast it and never twice; the origin   *)
(* hands its own message to its own callbacks once, in no fixed order,     *)
(* since every Broadcast call does so in a goroutine of its own.           *)
(***************************************************************************)
EXTENDS Naturals, Sequences

CONSTANTS
    Node,       \* addresses of the nodes
    Payload     \* messages a rumor can embed

VARIABLES
    sent,       \* sent[o]: what o broadcast, in order
    processed   \* processed[n][o]: entries of o handed to n's callbacks

vars == <<sent, processed>>

Entry(o, k) == [seq |-> k, msg |-> sent[o][k]]

Init ==
    /\ sent = [o \in Node |-> <<>>]
    /\ processed = [n \in Node |-> [o \in Node |-> <<>>]]

Broadcast(o, m) ==
    /\ sent' = [sent EXCEPT ![o] = Append(@, m)]
    /\ UNCHANGED processed

\* The next entry of another node, in the order of its broadcasts.
Deliver(n, o) ==
    /\ n # o
    /\ Len(processed[n][o]) < Len(sent[o])
    /\ processed' = [processed EXCEPT ![n][o] = Append(@, Entry(o, Len(@) + 1))]
    /\ UNCHANGED sent

\* Any own entry that has not been handed over yet.
DeliverOwn(o, k) ==
    /\ k \in 1..Len(sent[o])
    /\ \A i \in 1..Len(processed[o][o]) : processed[o][o][i].seq # k
    /\ processed' = [processed EXCEPT ![o][o] = Append(@, Entry(o, k))]
    /\ UNCHANGED sent

Next ==
    \/ \E o \in Node, m \in Payload : Broadcast(o, m)
    \/ \E n, o \in Node : Deliver(n, o)
    \/ \E o \in Node : \E k \in 1..Len(sent[o]) : DeliverOwn(o, k)

Spec == Init /\ [][Next]_vars
=============================================================================
