------------------------------- MODULE Gossip -------------------------------
(***************************************************************************)
(* The Messager of peer/impl/messaging.go and peer/impl/handler.go: rumor  *)
(* broadcast with acks, anti-entropy with status messages, and unicast     *)
(* through a routing table learned from rumors.                            *)
(*                                                                         *)
(* Threads of a node: the listenDaemon, which runs one callback at a time  *)
(* (an action per lock section of a callback); the statusReportDaemon; one *)
(* goroutine per Broadcast call.  The transport loses packets when they    *)
(* are sent, reorders them, and, when Duplicates, delivers them again.     *)
(* A map entry that is absent in the code is 0 (seqs) or None (route).     *)
(* An embedded message is an opaque payload; its callback is one entry of  *)
(* processed.  Nodes do not crash: the code keeps no state on disk for     *)
(* them to come back with.                                                 *)
(***************************************************************************)
EXTENDS Naturals, Sequences, FiniteSets, Functions

CONSTANTS
    Node,         \* socket addresses
    None,         \* no address
    Payload,      \* messages a rumor can embed
    Joined,       \* pairs <<n, m>>: n.AddPeer(m) was called before any traffic
    Link,         \* pairs <<n, m>>: n.AddPeer(m) may be called at any time
    Unicasts,     \* pairs <<n, d>> for which n unicasts application messages to d
    Origin,       \* nodes whose upper layers call Broadcast
    MaxSeq,       \* bound: Broadcast calls per node
    RumorCap,     \* rumors per answer to a status message (10 in the code)
    NetCap,       \* bound: packets in flight
    Duplicates    \* may the transport deliver a packet twice?

ASSUME GossipAssumption ==
    /\ None \notin Node
    /\ Joined \subseteq {q \in Node \X Node : q[1] # q[2]}
    /\ Link \subseteq Node \X Node
    /\ Unicasts \subseteq Node \X Node
    /\ Origin \subseteq Node
    /\ MaxSeq \in Nat
    /\ RumorCap \in Nat \ {0}
    /\ NetCap \in Nat
    /\ Duplicates \in BOOLEAN

VARIABLES
    seqs,         \* seqs[n][o]: sequence number of the last rumor of o at n
    rumors,       \* rumors[n][o]: payloads of the rumors of o stored at n
    neighbors,    \* neighbors[n]: set of direct neighbours of n
    route,        \* route[n][d]: next hop of n towards d
    bcast,        \* bcast[n][s]: goroutine of n's s-th Broadcast call
    ackFutures,   \* ackFutures[id]: channel (capacity 1) waiting for an ack of id
    listening,    \* listening[n]: what the listenDaemon of n works on
    processed,    \* processed[n][o]: entries of o handed to n's callbacks
    net           \* packets in flight

vars == <<seqs, rumors, neighbors, route, bcast, ackFutures, listening,
          processed, net>>

Tries == 1..2

\* Identifier of the packet a Broadcast call sends at a try; the packets of
\* Unicast have identifiers no future waits for.
PacketId == Node \X (1..MaxSeq) \X Tries
NoId == <<>>

Views == [Node -> Nat]
Rumor == [origin : Node, seq : Nat, msg : Payload]
RumorsMessage == [type : {"rumors"}, rumors : Seq(Rumor)]
StatusMessage == [type : {"status"}, view : Views]
AckMessage == [type : {"ack"}, id : PacketId \cup {NoId}, view : Views]
AppMessage == [type : {"app"}]
Message == RumorsMessage \cup StatusMessage \cup AckMessage \cup AppMessage
Packet == [src : Node, relay : Node, dest : Node, to : Node,
           id : PacketId \cup {NoId}, msg : Message]

\* A message handed to the local callbacks, with its number.
ProcessedMsg == [seq : Nat, msg : Payload]

Idle == <<>>
\* A packet under treatment.  i: next rumor of a rumors message; for an ack,
\* 1 before the future is tried, 2 while blocked on it, 3 once it took the ack.
Listening == [pkt : Packet, i : Nat \ {0}, isNew : BOOLEAN]

Goroutine == [pc : {"none", "send", "process", "wait", "acked", "done"},
              tried : 0..2, pre : Node \cup {None}]
Dormant == [pc |-> "none", tried |-> 0, pre |-> None]
Done == [pc |-> "done", tried |-> 0, pre |-> None]

Init ==
    /\ seqs = [n \in Node |-> [o \in Node |-> 0]]
    /\ rumors = [n \in Node |-> [o \in Node |-> <<>>]]
    /\ neighbors = [n \in Node |-> {m \in Node : <<n, m>> \in Joined}]
    /\ route = [n \in Node |-> [m \in Node |->
                   IF m = n \/ <<n, m>> \in Joined THEN m ELSE None]]
    /\ bcast = [n \in Node |-> [s \in 1..MaxSeq |-> Dormant]]
    /\ ackFutures = [id \in PacketId |-> "absent"]
    /\ listening = [n \in Node |-> Idle]
    /\ processed = [n \in Node |-> [o \in Node |-> <<>>]]
    /\ net = {}

-----------------------------------------------------------------------------
(* Sending *)

\* randNeighExcept: another neighbour, or the only one there is.
RandNeighExcept(n, except) ==
    IF neighbors[n] \ {except} = {} THEN neighbors[n] ELSE neighbors[n] \ {except}

NextHop(n, dest) == IF dest \in neighbors[n] THEN dest ELSE route[n][dest]

PacketTo(n, dest, id, msg) ==
    [src |-> n, relay |-> n, dest |-> dest, to |-> NextHop(n, dest),
     id |-> id, msg |-> msg]

\* The transport takes any part of what is sent, and nothing it has no room for.
Send(pkts) ==
    \E taken \in SUBSET {p \in pkts : p.to # None} :
        /\ Cardinality(net \cup taken) =< NetCap
        /\ net' = net \cup taken

StatusOf(n) == [type |-> "status", view |-> seqs[n]]

-----------------------------------------------------------------------------
(* Peer management and the unicast service *)

AddPeer(n, m) ==
    /\ <<n, m>> \in Link
    /\ route[n][m] # m \/ m \notin neighbors[n] \cup {n}
    /\ route' = [route EXCEPT ![n][m] = m]
    /\ neighbors' = [neighbors EXCEPT ![n] = @ \cup ({m} \ {n})]
    /\ UNCHANGED <<seqs, rumors, bcast, ackFutures, listening, processed, net>>

Unicast(n, dest) ==
    /\ <<n, dest>> \in Unicasts
    /\ Send({PacketTo(n, dest, NoId, [type |-> "app"])})
    /\ UNCHANGED <<seqs, rumors, neighbors, route, bcast, ackFutures, listening,
                   processed>>

StatusReport(n, nei) ==
    /\ nei \in neighbors[n]
    /\ Send({PacketTo(n, nei, NoId, StatusOf(n))})
    /\ UNCHANGED <<seqs, rumors, neighbors, route, bcast, ackFutures, listening,
                   processed>>

-----------------------------------------------------------------------------
(* Broadcast: the call, then the steps of the goroutine it starts *)

Broadcast(n, m) ==
    LET s == seqs[n][n] + 1 IN
    /\ s =< MaxSeq
    /\ seqs' = [seqs EXCEPT ![n][n] = s]
    /\ rumors' = [rumors EXCEPT ![n][n] = Append(@, m)]
    /\ bcast' = [bcast EXCEPT ![n][s] = [Dormant EXCEPT !.pc = "send"]]
    /\ UNCHANGED <<neighbors, route, ackFutures, listening, processed, net>>

OwnEntry(n, s) == [seq |-> s, msg |-> rumors[n][n][s]]

BroadcastAlone(n, s) ==
    /\ bcast[n][s].pc = "send"
    /\ bcast[n][s].tried = 0
    /\ neighbors[n] = {}
    /\ processed' = [processed EXCEPT ![n][n] = Append(@, OwnEntry(n, s))]
    /\ bcast' = [bcast EXCEPT ![n][s] = Done]
    /\ UNCHANGED <<seqs, rumors, neighbors, route, ackFutures, listening, net>>

OwnRumors(n, s) ==
    [type |-> "rumors",
     rumors |-> <<[origin |-> n, seq |-> s, msg |-> rumors[n][n][s]]>>]

\* Every try is a packet of its own, with an identifier of its own.
SamePacketAgain(n, s, t) == <<n, s, 1>>
TryId(n, s, t) == <<n, s, t>>

\* Only the first try goes on with the local callback.
ProcessAtEveryTry(t) == "process"
AfterSend(t) == IF t = 1 THEN "process" ELSE "wait"

\* Register a future for the next try and send the rumor to some neighbour.
BroadcastSend(n, s) ==
    LET b == bcast[n][s]
        t == b.tried + 1
    IN
    /\ b.pc = "send"
    /\ neighbors[n] # {}
    /\ ackFutures' = [ackFutures EXCEPT ![TryId(n, s, t)] = "empty"]
    /\ \E nei \in RandNeighExcept(n, b.pre) :
          /\ Send({PacketTo(n, nei, TryId(n, s, t), OwnRumors(n, s))})
          /\ bcast' = [bcast EXCEPT ![n][s] =
                          [pc |-> AfterSend(t), tried |-> t, pre |-> nei]]
    /\ UNCHANGED <<seqs, rumors, neighbors, route, listening, processed>>

\* The socket refuses the second try; its future stays registered.  (At the
\* first try the error is overwritten by the outcome of the local callback.)
BroadcastSendFails(n, s) ==
    /\ bcast[n][s].pc = "send"
    /\ bcast[n][s].tried = 1
    /\ ackFutures' = [ackFutures EXCEPT ![TryId(n, s, 2)] = "empty"]
    /\ bcast' = [bcast EXCEPT ![n][s] = Done]
    /\ UNCHANGED <<seqs, rumors, neighbors, route, listening, processed, net>>

\* Process the message locally; an error of the callback ends the goroutine
\* with its future still registered.
BroadcastProcess(n, s) ==
    /\ bcast[n][s].pc = "process"
    /\ processed' = [processed EXCEPT ![n][n] = Append(@, OwnEntry(n, s))]
    /\ \E err \in BOOLEAN :
          bcast' = [bcast EXCEPT ![n][s] =
                       IF err THEN Done ELSE [@ EXCEPT !.pc = "wait"]]
    /\ UNCHANGED <<seqs, rumors, neighbors, route, ackFutures, listening, net>>

BlockedOn(n, id) ==
    /\ listening[n] # Idle
    /\ listening[n].i = 2
    /\ listening[n].pkt.msg.type = "ack"
    /\ listening[n].pkt.msg.id = id

\* Taking the ack out of the future lets a listener blocked on it put its own.
BroadcastAcked(n, s) ==
    LET id == TryId(n, s, bcast[n][s].tried) IN
    /\ bcast[n][s].pc = "wait"
    /\ ackFutures[id] = "full"
    /\ IF BlockedOn(n, id)
          THEN /\ listening' = [listening EXCEPT ![n].i = 3]
               /\ UNCHANGED ackFutures
          ELSE /\ ackFutures' = [ackFutures EXCEPT ![id] = "empty"]
               /\ UNCHANGED listening
    /\ bcast' = [bcast EXCEPT ![n][s].pc = "acked"]
    /\ UNCHANGED <<seqs, rumors, neighbors, route, processed, net>>

ThreeTries(b) == b.pc = "acked" \/ b.tried = 3
Finished(b) == b.pc = "acked" \/ b.tried = 2

\* The timer fires, whether or not an ack is in the future, or the ack has been
\* taken: the future is deleted and the loop goes on.
BroadcastDelete(n, s) ==
    LET b == bcast[n][s] IN
    /\ b.pc \in {"wait", "acked"}
    /\ ackFutures' = [ackFutures EXCEPT ![TryId(n, s, b.tried)] = "absent"]
    /\ bcast' = [bcast EXCEPT ![n][s] =
                    IF Finished(b) THEN Done ELSE [@ EXCEPT !.pc = "send"]]
    /\ UNCHANGED <<seqs, rumors, neighbors, route, listening, processed, net>>

-----------------------------------------------------------------------------
(* The listenDaemon: receive a packet, then relay it or run its callback *)

NeighborForgotten(n, m) == UNCHANGED neighbors
AddNeighbor(n, m) == neighbors' = [neighbors EXCEPT ![n] = @ \cup ({m} \ {n})]

Listen(n, p) ==
    /\ p \in net
    /\ p.to = n
    /\ listening[n] = Idle
    /\ AddNeighbor(n, p.relay)
    /\ listening' = [listening EXCEPT ![n] = [pkt |-> p, i |-> 1, isNew |-> FALSE]]
    /\ \/ net' = net \ {p}
       \/ Duplicates /\ net' = net
    /\ UNCHANGED <<seqs, rumors, route, bcast, ackFutures, processed>>

Handling(n, type) ==
    /\ listening[n] # Idle
    /\ listening[n].pkt.dest = n
    /\ listening[n].pkt.msg.type = type

Relay(n) ==
    LET p == listening[n].pkt IN
    /\ listening[n] # Idle
    /\ p.dest # n
    /\ Send({[p EXCEPT !.relay = n, !.to = NextHop(n, p.dest)]})
    /\ listening' = [listening EXCEPT ![n] = Idle]
    /\ UNCHANGED <<seqs, rumors, neighbors, route, bcast, ackFutures, processed>>

\* The callback of an application message, outside the Messager.
AppMsgCallback(n) ==
    /\ Handling(n, "app")
    /\ listening' = [listening EXCEPT ![n] = Idle]
    /\ UNCHANGED <<seqs, rumors, neighbors, route, bcast, ackFutures, processed, net>>

ExpectedWithGaps(n, r) == r.seq > seqs[n][r.origin]
Expected(n, r) == r.seq = seqs[n][r.origin] + 1

\* One turn of the loop of RumorsMsgCallback.
RumorsMsgCallback(n) ==
    LET l == listening[n]
        r == l.pkt.msg.rumors[l.i]
        o == r.origin
    IN
    /\ Handling(n, "rumors")
    /\ l.i =< Len(l.pkt.msg.rumors)
    /\ IF Expected(n, r)
          THEN /\ seqs' = [seqs EXCEPT ![n][o] = r.seq]
               /\ rumors' = [rumors EXCEPT ![n][o] = Append(@, r.msg)]
               /\ route' = [route EXCEPT ![n][o] = l.pkt.relay]
               /\ processed' = [processed EXCEPT ![n][o] =
                                   Append(@, [seq |-> r.seq, msg |-> r.msg])]
               /\ listening' = [listening EXCEPT ![n].i = @ + 1, ![n].isNew = TRUE]
          ELSE /\ listening' = [listening EXCEPT ![n].i = @ + 1]
               /\ UNCHANGED <<seqs, rumors, route, processed>>
    /\ UNCHANGED <<neighbors, bcast, ackFutures, net>>

AckToOrigin(p) == p.msg.rumors[1].origin
AckTo(p) == p.relay

\* After the loop: ack to the relay, and the same rumors to another neighbour
\* when one of them was new.
RumorsMsgDone(n) ==
    LET p == listening[n].pkt
        ack == PacketTo(n, AckTo(p), NoId,
                        [type |-> "ack", id |-> p.id, view |-> seqs[n]])
    IN
    /\ Handling(n, "rumors")
    /\ listening[n].i > Len(p.msg.rumors)
    /\ IF listening[n].isNew
          THEN \E nei \in RandNeighExcept(n, p.relay) :
                  Send({ack} \cup (IF nei = p.relay THEN {}
                                   ELSE {PacketTo(n, nei, NoId, p.msg)}))
          ELSE Send({ack})
    /\ listening' = [listening EXCEPT ![n] = Idle]
    /\ UNCHANGED <<seqs, rumors, neighbors, route, bcast, ackFutures, processed>>

LastOneForgotten(n, view, o, s) == view[o] < s /\ s < seqs[n][o]
OnlyMine(n, view, o, s) == view[o] < s /\ s =< seqs[n][o]

\* The rumors n has and the sender of view has not.
Missing(n, view) ==
    {[origin |-> q[1], seq |-> q[2], msg |-> rumors[n][q[1]][q[2]]] :
        q \in {k \in Node \X (1..MaxSeq) : OnlyMine(n, view, k[1], k[2])}}

\* Origins come in the order of a map, the rumors of one origin in sequence.
OriginByOrigin(rs) ==
    \A i, j \in DOMAIN rs :
        i < j => /\ rs[i].origin = rs[j].origin => rs[i].seq < rs[j].seq
                 /\ \A k \in i..j : rs[i].origin = rs[j].origin
                                    => rs[k].origin = rs[i].origin

\* The first RumorCap missing rumors: what is left out is what comes after them.
\* (The padding of shorter answers with empty rumors, which no receiver expects,
\* is left out.)
Answers(n, view) ==
    {rs \in UNION {[1..k -> Missing(n, view)] : k \in 1..RumorCap} :
        /\ OriginByOrigin(rs)
        /\ \A r \in Missing(n, view) \ Range(rs) :
              /\ Len(rs) = RumorCap
              /\ \A i \in DOMAIN rs : rs[i].origin = r.origin =>
                    rs[i].seq < r.seq /\ rs[Len(rs)].origin = r.origin}

\* StatusMsgCallback on a view that node other sent.
AnswerStatus(n, other, view) ==
    IF Missing(n, view) # {}
    THEN \E rs \in Answers(n, view) :
            Send({PacketTo(n, other, NoId, [type |-> "rumors", rumors |-> rs])})
    ELSE IF \E o \in Node : seqs[n][o] < view[o]
    THEN Send({PacketTo(n, other, NoId, StatusOf(n))})
    ELSE \E mongering \in BOOLEAN : \E nei \in RandNeighExcept(n, other) :
            Send(IF mongering /\ nei # other
                 THEN {PacketTo(n, nei, NoId, StatusOf(n))} ELSE {})

StatusMsgCallback(n) ==
    LET p == listening[n].pkt IN
    /\ Handling(n, "status")
    /\ AnswerStatus(n, p.src, p.msg.view)
    /\ listening' = [listening EXCEPT ![n] = Idle]
    /\ UNCHANGED <<seqs, rumors, neighbors, route, bcast, ackFutures, processed>>

StatusAnswered(n, other) ==
    /\ Handling(n, "status")
    /\ listening[n].pkt.src = other
    /\ StatusMsgCallback(n)
    /\ net' # net

Future(n, id) == IF id # NoId /\ id[1] = n THEN ackFutures[id] ELSE "absent"

\* Complete the future of the acked packet, then treat the ack as a status.
AckMsgCallback(n) ==
    LET l == listening[n]
        id == l.pkt.msg.id
    IN
    /\ Handling(n, "ack")
    /\ \/ l.i = 1 /\ Future(n, id) = "empty"
          /\ ackFutures' = [ackFutures EXCEPT ![id] = "full"]
       \/ l.i = 1 /\ Future(n, id) = "absent" /\ UNCHANGED ackFutures
       \/ l.i = 3 /\ UNCHANGED ackFutures
    /\ AnswerStatus(n, l.pkt.src, l.pkt.msg.view)
    /\ listening' = [listening EXCEPT ![n] = Idle]
    /\ UNCHANGED <<seqs, rumors, neighbors, route, bcast, processed>>

\* The future already holds an ack: the listener blocks on the channel.
AckMsgBlocks(n) ==
    /\ Handling(n, "ack")
    /\ listening[n].i = 1
    /\ Future(n, listening[n].pkt.msg.id) = "full"
    /\ listening' = [listening EXCEPT ![n].i = 2]
    /\ UNCHANGED <<seqs, rumors, neighbors, route, bcast, ackFutures, processed, net>>

-----------------------------------------------------------------------------
Goroutines(n) ==
    \E s \in 1..MaxSeq :
        \/ BroadcastAlone(n, s)
        \/ BroadcastSend(n, s)
        \/ BroadcastSendFails(n, s)
        \/ BroadcastProcess(n, s)
        \/ BroadcastAcked(n, s)
        \/ BroadcastDelete(n, s)

Callbacks(n) ==
    \/ Relay(n)
    \/ AppMsgCallback(n)
    \/ RumorsMsgCallback(n)
    \/ RumorsMsgDone(n)
    \/ StatusMsgCallback(n)
    \/ AckMsgCallback(n)
    \/ AckMsgBlocks(n)

ListenDaemon(n) == Callbacks(n) \/ \E p \in net : Listen(n, p)

Next ==
    \E n \in Node :
        \/ \E m \in Node : AddPeer(n, m) \/ Unicast(n, m) \/ StatusReport(n, m)
        \/ n \in Origin /\ \E m \in Payload : Broadcast(n, m)
        \/ Goroutines(n)
        \/ ListenDaemon(n)

Spec == Init /\ [][Next]_vars

\* Fairness.  A listenDaemon that can run does run.  A peer that
\* statusReportDaemon draws at random is drawn again and again, and a lossy link
\* does not lose every report and every answer between two peers (SF on the steps
\* whose packet the transport takes).  Nothing is assumed of Broadcast.
Fairness ==
    /\ \A n \in Node : WF_vars(ListenDaemon(n))
    /\ \A l \in Joined :
          /\ SF_vars(StatusReport(l[1], l[2]) /\ net' # net)
          /\ SF_vars(StatusAnswered(l[1], l[2]))
          /\ SF_vars(StatusAnswered(l[2], l[1]))

FairSpec == Spec /\ Fairness
-----------------------------------------------------------------------------
(* Properties *)

\* The type of every variable of the Messager.
TypeOK ==
    /\ seqs \in [Node -> [Node -> Nat]]
    /\ rumors \in [Node -> [Node -> Seq(Payload)]]
    /\ neighbors \in [Node -> SUBSET Node]
    /\ route \in [Node -> [Node -> Node \cup {None}]]
    /\ bcast \in [Node -> [1..MaxSeq -> Goroutine]]
    /\ ackFutures \in [PacketId -> {"absent", "empty", "full"}]
    /\ listening \in [Node -> Listening \cup {Idle}]
    /\ processed \in [Node -> [Node -> Seq(ProcessedMsg)]]
    /\ net \subseteq Packet

\* What a node stores of an origin is a prefix of what the origin broadcast,
\* as long as the sequence number kept beside it says, however packets of
\* rumors, answers to status messages and forwarded copies are lost, reordered
\* and mixed with new Broadcast calls (seqs and rumors of messaging.go, the
\* slices StatusMsgCallback takes out of them).
RumorsArePrefix ==
    \A n, o \in Node :
        /\ seqs[n][o] = Len(rumors[n][o])
        /\ seqs[n][o] =< seqs[o][o]
        /\ \A s \in 1..seqs[n][o] : rumors[n][o][s] = rumors[o][o][s]

\* Every next hop is a neighbour of the node (or the node itself, for packets to
\* itself): the relay a route names was added to the neighbours before.
RoutesGoToNeighbors ==
    \A n, d \in Node : route[n][d] \in neighbors[n] \cup {n, None}

\* Rumors, acks and status messages travel between direct neighbours only, so
\* that the relay an ack goes back to is the node that holds the future
\* (the point-to-point ack of RumorsMsgCallback, AckMsgCallback).
GossipIsDirect ==
    \A p \in net : p.msg.type # "app" =>
        /\ p.to = p.dest
        /\ p.relay = p.src
        /\ p.msg.type = "ack" /\ p.msg.id # NoId => p.msg.id[1] = p.dest

\* The listener never blocks on the future of a Broadcast call: it is "a buffered
\* channel, such that ack after timeout do not block" (Broadcast, messaging.go).
ListenerNeverBlocks ==
    \A n \in Node : ~(Handling(n, "ack") /\ listening[n].i = 2)

\* A node runs the callbacks of the rumors of each origin in the order of their
\* sequence numbers (comment above RumorsMsgCallback, handler.go).
ProcessedInOrder ==
    \A n, o \in Node : \A i, j \in DOMAIN processed[n][o] :
        i < j => processed[n][o][i].seq < processed[n][o][j].seq

\* The Messager implements the broadcast service the upper layers rely on:
\* in order and at most once for other nodes, at most once for the own node.
Service == INSTANCE FifoBroadcast WITH sent <- [o \in Node |-> rumors[o][o]]
ImplementsFifoBroadcast == Service!Spec

\* Anti-entropy brings every rumor to every node, whatever the transport loses
\* and although Broadcast itself gives up after two tries ("It will eventually be
\* distributed over all nodes", types/messaging_def.go).
EventuallyEverywhere ==
    \A o \in Origin : \A n \in Node \ {o} : \A s \in 1..MaxSeq :
        (seqs[o][o] >= s) ~> (seqs[n][o] >= s)
=============================================================================
