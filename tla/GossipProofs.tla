---------------------------- MODULE GossipProofs ----------------------------
(***************************************************************************)
(* Proofs about Gossip, for any number of nodes, any topology, any number  *)
(* of Broadcast calls and any capacity of the network, with or without     *)
(* duplicated packets.                                                     *)
(***************************************************************************)
EXTENDS Gossip, SequenceTheorems, TLAPS

\* A rumor that its origin did broadcast, under that number.
Genuine(r) ==
    /\ r.seq \in 1..seqs[r.origin][r.origin]
    /\ r.msg = rumors[r.origin][r.origin][r.seq]

GenuineMessage(m) ==
    m.type = "rumors" => \A i \in 1..Len(m.rumors) : Genuine(m.rumors[i])

\* Gossip packets go from one node straight to another one.
Direct(p) ==
    p.msg.type # "app" =>
        /\ p.to = p.dest
        /\ p.relay = p.src
        /\ p.src # p.dest
        /\ p.id # NoId => p.id[1] = p.src
        /\ p.msg.type = "ack" /\ p.msg.id # NoId => p.msg.id[1] = p.dest

PacketOK(p) == GenuineMessage(p.msg) /\ Direct(p)

NetOK == \A p \in net : PacketOK(p)

ListeningOK ==
    \A n \in Node : listening[n] # Idle =>
        /\ PacketOK(listening[n].pkt)
        /\ listening[n].pkt.to = n
        /\ listening[n].pkt.msg.type # "app" =>
              listening[n].pkt.relay \in neighbors[n]

NeighborsOK == \A n \in Node : n \notin neighbors[n]

\* The loop runs twice at most, and a packet precedes what follows it.
TriedOK(b) ==
    /\ b.pc = "send" => b.tried \in 0..1
    /\ b.pc \in {"process", "wait", "acked"} => b.tried \in 1..2

\* A goroutine that has not yet handed its message to the local callbacks.
Unprocessed(b) ==
    b.pc \in {"none", "process"} \/ (b.pc = "send" /\ b.tried = 0)

\* The goroutine of a Broadcast call exists from the call on, and hands its
\* message to the local callbacks only once.
BcastOK ==
    \A n \in Node : \A s \in 1..MaxSeq :
        /\ bcast[n][s].pc # "none" <=> s =< seqs[n][n]
        /\ TriedOK(bcast[n][s])
        /\ Unprocessed(bcast[n][s]) =>
              \A i \in 1..Len(processed[n][n]) : processed[n][n][i].seq # s

ProcessedOK ==
    \A n, o \in Node : n # o => Len(processed[n][o]) = seqs[n][o]

\* The inductive invariant.
IInv ==
    /\ TypeOK
    /\ RumorsArePrefix
    /\ NetOK
    /\ ListeningOK
    /\ NeighborsOK
    /\ RoutesGoToNeighbors
    /\ BcastOK
    /\ ProcessedOK
-----------------------------------------------------------------------------
(* Initial states *)

\* The invariant holds when NewMessager returns and the first peers were added.
LEMMA InitIInv == Init => IInv
<1> SUFFICES ASSUME Init PROVE IInv
    OBVIOUS
<1> USE GossipAssumption DEF Init
<1>1. TypeOK
    BY EmptySeq DEF TypeOK, Dormant, Goroutine, Packet
<1>2. RumorsArePrefix
    BY DEF RumorsArePrefix
<1>3. NetOK /\ ListeningOK /\ NeighborsOK
    BY DEF NetOK, ListeningOK, NeighborsOK
<1>4. RoutesGoToNeighbors
    BY Zenon DEF RoutesGoToNeighbors
<1>5. BcastOK /\ ProcessedOK
    BY DEF BcastOK, ProcessedOK, Dormant, TriedOK, Unprocessed
<1> QED
    BY <1>1, <1>2, <1>3, <1>4, <1>5 DEF IInv

-----------------------------------------------------------------------------
(* Packets that are sent *)

\* The field "type" tells the kinds of messages apart.
LEMMA MessageKinds ==
    ASSUME NEW m \in Message
    PROVE  /\ m.type = "rumors" => m \in RumorsMessage
           /\ m.type = "status" => m \in StatusMessage
           /\ m.type = "ack" => m \in AckMessage
BY DEF Message, RumorsMessage, StatusMessage, AckMessage, AppMessage

\* What the transport takes keeps the network well-formed.
LEMMA SendOK ==
    ASSUME net \subseteq Packet, NetOK, NEW P, Send(P),
           \A p \in P : p.to # None => p \in Packet /\ PacketOK(p),
           UNCHANGED <<seqs, rumors>>
    PROVE  net' \subseteq Packet /\ NetOK'
<1>1. PICK taken \in SUBSET {p \in P : p.to # None} : net' = net \cup taken
    BY DEF Send
<1>2. net' \subseteq Packet /\ \A p \in net' : PacketOK(p)
    BY SMTT(20), <1>1 DEF NetOK
<1>3. ASSUME NEW p PROVE PacketOK(p)' <=> PacketOK(p)
    BY DEF PacketOK, GenuineMessage, Genuine, Direct
<1> QED
    BY <1>2, <1>3 DEF NetOK

\* A gossip packet to a neighbour goes straight to it.
LEMMA PacketToOK ==
    ASSUME TypeOK, NeighborsOK,
           NEW n \in Node, NEW dest \in neighbors[n],
           NEW id \in PacketId \cup {NoId}, id # NoId => id[1] = n,
           NEW msg \in Message, GenuineMessage(msg),
           msg.type = "ack" /\ msg.id # NoId => msg.id[1] = dest
    PROVE  PacketTo(n, dest, id, msg) \in Packet /\ PacketOK(PacketTo(n, dest, id, msg))
<1>1. dest \in Node /\ dest # n
    BY DEF TypeOK, NeighborsOK
<1>2. PacketTo(n, dest, id, msg) =
        [src |-> n, relay |-> n, dest |-> dest, to |-> dest, id |-> id, msg |-> msg]
    BY DEF PacketTo, NextHop
<1> QED
    BY <1>1, <1>2 DEF Packet, PacketOK, Direct

\* A draw of randNeighExcept is a neighbour.
LEMMA RandNeighExceptOK ==
    ASSUME NEW n \in Node, NEW except, NEW nei \in RandNeighExcept(n, except)
    PROVE  nei \in neighbors[n]
BY DEF RandNeighExcept

\* The status a node reports is a message.
LEMMA StatusOfOK ==
    ASSUME TypeOK, NEW n \in Node
    PROVE  StatusOf(n) \in Message /\ GenuineMessage(StatusOf(n)) /\ StatusOf(n).type = "status"
<1>1. seqs[n] \in [Node -> Nat]
    BY DEF TypeOK
<1>2. StatusOf(n) \in StatusMessage
    BY <1>1 DEF StatusOf, StatusMessage, Views
<1> QED
    BY <1>2 DEF StatusOf, Message, GenuineMessage

\* Rumors taken out of the store are genuine.
LEMMA MissingOK ==
    ASSUME TypeOK, RumorsArePrefix, NEW n \in Node, NEW view
    PROVE  \A r \in Missing(n, view) : r \in Rumor /\ Genuine(r)
<1> DEFINE K == {k \in Node \X (1..MaxSeq) : OnlyMine(n, view, k[1], k[2])}
           Item(q) == [origin |-> q[1], seq |-> q[2], msg |-> rumors[n][q[1]][q[2]]]
<1>1. Missing(n, view) = {Item(q) : q \in K}
    BY DEF Missing
<1>2. ASSUME NEW q \in K PROVE Item(q) \in Rumor /\ Genuine(Item(q))
  <2>1. PICK o \in Node, s \in 1..MaxSeq : q = <<o, s>>
      OBVIOUS
  <2>2. q[1] = o /\ q[2] = s /\ s =< seqs[n][o]
      BY <2>1 DEF OnlyMine
  <2>3. /\ seqs[n][o] \in Nat /\ seqs[o][o] \in Nat /\ MaxSeq \in Nat
        /\ rumors[n][o] \in Seq(Payload)
      BY GossipAssumption DEF TypeOK
  <2>4. s \in 1..seqs[n][o]
      BY <2>2, <2>3
  <2>5. /\ s \in 1..seqs[o][o]
        /\ rumors[n][o][s] = rumors[o][o][s]
        /\ rumors[n][o][s] \in Payload
      BY <2>3, <2>4, ElementOfSeq DEF RumorsArePrefix
  <2> QED
      BY <2>2, <2>3, <2>5 DEF Rumor, Genuine
<1> QED
    BY <1>1, <1>2

\* An answer to a status message is made of such rumors.
LEMMA AnswersOK ==
    ASSUME TypeOK, RumorsArePrefix, NEW n \in Node, NEW view,
           NEW rs \in Answers(n, view)
    PROVE  rs \in Seq(Rumor) /\ \A i \in 1..Len(rs) : Genuine(rs[i])
<1> DEFINE M == Missing(n, view)
<1>1. \A r \in M : r \in Rumor /\ Genuine(r)
    BY MissingOK
<1>2. PICK k \in 1..RumorCap : rs \in [1..k -> M]
    BY DEF Answers
<1> HIDE DEF M
<1>3. rs \in Seq(Rumor) /\ Len(rs) = k
    BY <1>1, <1>2, GossipAssumption
<1> QED
    BY <1>1, <1>2, <1>3
-----------------------------------------------------------------------------
(* Steps that only send *)

\* The listener handles packets of the right type.
LEMMA ListeningType ==
    ASSUME IInv, NEW n \in Node, listening[n] # Idle
    PROVE  /\ listening[n] \in Listening
           /\ listening[n].pkt \in Packet
           /\ listening[n].pkt.msg \in Message
           /\ PacketOK(listening[n].pkt)
           /\ listening[n].pkt.to = n
           /\ listening[n].pkt.msg.type # "app" =>
                 listening[n].pkt.relay \in neighbors[n]
<1>1. listening[n] \in Listening
    BY DEF IInv, TypeOK
<1> QED
    BY <1>1 DEF IInv, ListeningOK, Listening, Packet

\* A step that sends packets, completes futures and frees listeners.
LEMMA SendStep ==
    ASSUME IInv, UNCHANGED <<seqs, rumors, neighbors, route, bcast, processed>>,
           ackFutures' \in [PacketId -> {"absent", "empty", "full"}],
           listening' \in [Node -> Listening \cup {Idle}],
           \A n \in Node : listening'[n] = Idle \/ listening'[n] = listening[n],
           net' \subseteq Packet, NetOK'
    PROVE  IInv'
<1>1. TypeOK'
    BY DEF IInv, TypeOK
<1>2. RumorsArePrefix' /\ NeighborsOK' /\ RoutesGoToNeighbors' /\ BcastOK' /\ ProcessedOK'
    BY DEF IInv, RumorsArePrefix, NeighborsOK, RoutesGoToNeighbors, BcastOK, ProcessedOK
<1>3. ListeningOK'
  <2> SUFFICES ASSUME NEW n \in Node, (listening[n] # Idle)'
               PROVE  (/\ PacketOK(listening[n].pkt)
                       /\ listening[n].pkt.to = n
                       /\ listening[n].pkt.msg.type # "app" =>
                             listening[n].pkt.relay \in neighbors[n])'
      BY DEF ListeningOK
  <2>1. listening'[n] = listening[n] /\ listening[n] # Idle
      OBVIOUS
  <2>2. PacketOK(listening[n].pkt)
      BY <2>1, ListeningType
  <2>3. PacketOK(listening[n].pkt)'
      BY Zenon, <2>1, <2>2 DEF PacketOK, GenuineMessage, Genuine, Direct
  <2> QED
      BY <2>1, <2>3, ListeningType
<1> QED
    BY <1>1, <1>2, <1>3 DEF IInv

\* Freeing the listener of n keeps the type of listening.
LEMMA FreeListener ==
    ASSUME IInv, NEW n \in Node, listening' = [listening EXCEPT ![n] = Idle]
    PROVE  /\ listening' \in [Node -> Listening \cup {Idle}]
           /\ \A k \in Node : listening'[k] = Idle \/ listening'[k] = listening[k]
BY DEF IInv, TypeOK

\* StatusMsgCallback answers a neighbour with well-formed packets.
LEMMA AnswerStatusOK ==
    ASSUME IInv, NEW n \in Node, NEW other \in neighbors[n], NEW view,
           AnswerStatus(n, other, view), UNCHANGED <<seqs, rumors>>
    PROVE  net' \subseteq Packet /\ NetOK'
<1> USE DEF IInv
<1>0. net \subseteq Packet
    BY DEF TypeOK
<1>1. ASSUME NEW rs \in Answers(n, view),
             Send({PacketTo(n, other, NoId, [type |-> "rumors", rumors |-> rs])})
      PROVE  net' \subseteq Packet /\ NetOK'
  <2> DEFINE m == [type |-> "rumors", rumors |-> rs]
  <2>1. m \in Message /\ GenuineMessage(m) /\ m.type = "rumors"
      BY <1>1, AnswersOK DEF Message, RumorsMessage, GenuineMessage
  <2> HIDE DEF m
  <2>2. PacketTo(n, other, NoId, m) \in Packet /\ PacketOK(PacketTo(n, other, NoId, m))
      BY <2>1, PacketToOK
  <2> QED
      BY <1>0, <1>1, <2>2, SendOK DEF m
<1>2. ASSUME NEW nei \in neighbors[n], Send({PacketTo(n, nei, NoId, StatusOf(n))})
      PROVE  net' \subseteq Packet /\ NetOK'
  <2>1. /\ PacketTo(n, nei, NoId, StatusOf(n)) \in Packet
        /\ PacketOK(PacketTo(n, nei, NoId, StatusOf(n)))
      BY <1>2, StatusOfOK, PacketToOK
  <2> QED
      BY <1>0, <1>2, <2>1, SendOK
<1>3. ASSUME Send({}) PROVE net' \subseteq Packet /\ NetOK'
    BY <1>0, <1>3, SendOK
<1> QED
    BY Zenon, <1>1, <1>2, <1>3, RandNeighExceptOK DEF AnswerStatus

\* An application message is sent towards its destination.
LEMMA UnicastStep ==
    ASSUME IInv, NEW n \in Node, NEW dest \in Node, Unicast(n, dest)
    PROVE  IInv'
<1> DEFINE p == PacketTo(n, dest, NoId, [type |-> "app"])
<1>1. p.to # None => p \in Packet /\ PacketOK(p)
  <2>1. NextHop(n, dest) \in Node \cup {None}
      BY DEF IInv, TypeOK, NextHop
  <2>2. [type |-> "app"] \in Message
      BY DEF Message, AppMessage
  <2> QED
      BY <2>1, <2>2 DEF PacketTo, Packet, PacketOK, GenuineMessage, Direct
<1>2. net' \subseteq Packet /\ NetOK'
    BY <1>1, SendOK DEF Unicast, IInv, TypeOK
<1> QED
    BY <1>2, SendStep DEF Unicast, IInv, TypeOK

\* The statusReportDaemon sends the view to a neighbour.
LEMMA StatusReportStep ==
    ASSUME IInv, NEW n \in Node, NEW nei \in Node, StatusReport(n, nei)
    PROVE  IInv'
<1>1. /\ PacketTo(n, nei, NoId, StatusOf(n)) \in Packet
      /\ PacketOK(PacketTo(n, nei, NoId, StatusOf(n)))
    BY StatusOfOK, PacketToOK DEF StatusReport, IInv
<1>2. net' \subseteq Packet /\ NetOK'
    BY <1>1, SendOK DEF StatusReport, IInv, TypeOK
<1> QED
    BY <1>2, SendStep DEF StatusReport, IInv, TypeOK

\* Only application messages are relayed: the others are for the node they reach.
LEMMA RelayStep ==
    ASSUME IInv, NEW n \in Node, Relay(n)
    PROVE  IInv'
<1> DEFINE p == listening[n].pkt
           q == [p EXCEPT !.relay = n, !.to = NextHop(n, p.dest)]
<1>1. p \in Packet /\ p.msg \in Message /\ PacketOK(p) /\ p.to = n /\ p.dest # n
    BY ListeningType DEF Relay
<1>2. p.msg.type = "app"
    BY <1>1 DEF PacketOK, Direct
<1>3. NextHop(n, p.dest) \in Node \cup {None}
  <2>1. p.dest \in Node
      BY <1>1 DEF Packet
  <2> HIDE DEF p
  <2> QED
      BY <2>1 DEF IInv, TypeOK, NextHop
<1>4. q.to # None => q \in Packet /\ q.msg = p.msg
    BY Zenon, <1>1, <1>3 DEF Packet
<1>5. q.to # None => PacketOK(q)
    BY <1>2, <1>4 DEF PacketOK, GenuineMessage, Direct
<1>6. Send({q}) /\ UNCHANGED <<seqs, rumors>>
    BY DEF Relay
<1> HIDE DEF q
<1>7. net' \subseteq Packet /\ NetOK'
    BY <1>4, <1>5, <1>6, SendOK DEF IInv, TypeOK
<1> QED
    BY <1>7, SendStep, FreeListener DEF Relay, IInv, TypeOK

\* The callback of an application message.
LEMMA AppMsgStep ==
    ASSUME IInv, NEW n \in Node, AppMsgCallback(n)
    PROVE  IInv'
<1>1. net' \subseteq Packet /\ NetOK'
    BY Zenon DEF AppMsgCallback, IInv, TypeOK, NetOK, PacketOK, GenuineMessage, Genuine, Direct
<1> QED
    BY Zenon, <1>1, SendStep, FreeListener DEF AppMsgCallback, IInv, TypeOK

\* The ack goes to the relay, which is a neighbour and, when the packet was sent
\* by Broadcast, the owner of the future; the forwarded copy to another neighbour.
LEMMA RumorsMsgDoneStep ==
    ASSUME IInv, NEW n \in Node, RumorsMsgDone(n)
    PROVE  IInv'
<1> DEFINE p == listening[n].pkt
           m == [type |-> "ack", id |-> p.id, view |-> seqs[n]]
           ack == PacketTo(n, AckTo(p), NoId, m)
<1>1. /\ p \in Packet /\ p.msg \in Message /\ PacketOK(p) /\ p.msg.type = "rumors"
      /\ p.relay \in neighbors[n]
    BY ListeningType DEF RumorsMsgDone, Handling
<1>2. p.id \in PacketId \cup {NoId} /\ (p.id # NoId => p.id[1] = p.relay)
    BY <1>1 DEF Packet, PacketOK, Direct
<1>3. m \in Message /\ GenuineMessage(m) /\ m.type = "ack" /\ m.id = p.id
  <2>1. seqs[n] \in [Node -> Nat]
      BY DEF IInv, TypeOK
  <2> QED
      BY <1>2, <2>1 DEF Message, AckMessage, Views, GenuineMessage
<1>4. ack \in Packet /\ PacketOK(ack)
  <2> HIDE DEF m
  <2> QED
      BY <1>1, <1>2, <1>3, PacketToOK DEF AckTo, IInv
<1>5. ASSUME NEW nei \in RandNeighExcept(n, p.relay)
      PROVE  /\ PacketTo(n, nei, NoId, p.msg) \in Packet
             /\ PacketOK(PacketTo(n, nei, NoId, p.msg))
    BY <1>1, RandNeighExceptOK, PacketToOK DEF IInv, PacketOK
<1>6. PICK P : /\ Send(P)
               /\ \A x \in P : x \in Packet /\ PacketOK(x)
  <2>1. CASE listening[n].isNew
    <3>1. PICK nei \in RandNeighExcept(n, p.relay) :
            Send({ack} \cup (IF nei = p.relay THEN {} ELSE {PacketTo(n, nei, NoId, p.msg)}))
        BY Zenon, <2>1 DEF RumorsMsgDone
    <3> HIDE DEF ack
    <3> QED
        BY <3>1, <1>4, <1>5
  <2>2. CASE ~listening[n].isNew
    <3>1. Send({ack})
        BY SMTT(20), <2>2 DEF RumorsMsgDone
    <3> HIDE DEF ack
    <3> QED
        BY <3>1, <1>4
  <2> QED
      BY <2>1, <2>2
<1>7. net' \subseteq Packet /\ NetOK'
    BY <1>6, SendOK DEF RumorsMsgDone, IInv, TypeOK
<1> QED
    BY Zenon, <1>7, SendStep, FreeListener DEF RumorsMsgDone, IInv, TypeOK

\* StatusMsgCallback answers the view of a neighbour.
LEMMA StatusMsgStep ==
    ASSUME IInv, NEW n \in Node, StatusMsgCallback(n)
    PROVE  IInv'
<1>1. listening[n].pkt.src \in neighbors[n]
    BY ListeningType DEF StatusMsgCallback, Handling, PacketOK, Direct
<1>2. net' \subseteq Packet /\ NetOK'
    BY <1>1, AnswerStatusOK DEF StatusMsgCallback
<1> QED
    BY Zenon, <1>2, SendStep, FreeListener DEF StatusMsgCallback, IInv, TypeOK

\* AckMsgCallback completes a future, then answers the view in the ack.
LEMMA AckMsgStep ==
    ASSUME IInv, NEW n \in Node, AckMsgCallback(n)
    PROVE  IInv'
<1>1. listening[n].pkt.src \in neighbors[n]
    BY SMTT(20), ListeningType DEF AckMsgCallback, Handling, PacketOK, Direct
<1>2. net' \subseteq Packet /\ NetOK'
    BY <1>1, AnswerStatusOK DEF AckMsgCallback
<1>3. ackFutures' \in [PacketId -> {"absent", "empty", "full"}]
    BY Zenon DEF AckMsgCallback, IInv, TypeOK
<1> QED
    BY Zenon, <1>2, <1>3, SendStep, FreeListener DEF AckMsgCallback
-----------------------------------------------------------------------------
(* Steps of the goroutines and of the listener *)

\* What was broadcast stays what was broadcast, so packets stay well-formed.
LEMMA PacketsStayOK ==
    ASSUME IInv,
           \A o \in Node : /\ seqs[o][o] =< seqs'[o][o]
                          /\ seqs'[o][o] \in Nat
                          /\ \A s \in 1..seqs[o][o] : rumors'[o][o][s] = rumors[o][o][s]
    PROVE  /\ \A p \in net : PacketOK(p)'
           /\ \A n \in Node : listening[n] # Idle /\ listening'[n] # Idle
                               /\ listening'[n].pkt = listening[n].pkt
                               => PacketOK(listening[n].pkt)'
<1>1. ASSUME NEW r \in Rumor, Genuine(r) PROVE Genuine(r)'
  <2>1. r.origin \in Node /\ r.seq \in Nat
      BY DEF Rumor
  <2>2. seqs[r.origin][r.origin] \in Nat
      BY <2>1 DEF IInv, TypeOK
  <2> QED
      BY <1>1, <2>1, <2>2 DEF Genuine
<1>2. ASSUME NEW p \in Packet, PacketOK(p) PROVE PacketOK(p)'
  <2>1. ASSUME p.msg.type = "rumors", NEW i \in 1..Len(p.msg.rumors)
        PROVE  Genuine(p.msg.rumors[i])'
    <3>1. p.msg \in RumorsMessage
        BY <2>1, MessageKinds DEF Packet
    <3>2. p.msg.rumors[i] \in Rumor
        BY <2>1, <3>1, ElementOfSeq DEF RumorsMessage
    <3> QED
        BY <1>1, <1>2, <2>1, <3>2 DEF PacketOK, GenuineMessage
  <2> QED
      BY <1>2, <2>1 DEF PacketOK, GenuineMessage, Direct
<1>3. ASSUME NEW p \in net PROVE PacketOK(p)'
    BY <1>2 DEF IInv, TypeOK, NetOK
<1>4. ASSUME NEW n \in Node, listening[n] # Idle, listening'[n].pkt = listening[n].pkt
      PROVE  PacketOK(listening[n].pkt)'
  <2> DEFINE q == listening[n].pkt
  <2>1. PICK p : p = listening[n].pkt
      OBVIOUS
  <2>2. p \in Packet /\ PacketOK(p)
      BY <1>4, <2>1, ListeningType
  <2>3. PacketOK(p)'
      BY <1>2, <2>2
  <2>4. listening'[n].pkt = p
      BY <1>4, <2>1
  <2> QED
      BY Zenon, <2>3, <2>4 DEF PacketOK, GenuineMessage, Genuine, Direct
<1> QED
    BY <1>3, <1>4

\* A step that keeps the rumors and the packets under treatment keeps the
\* conditions on packets.
LEMMA PacketsUntouched ==
    ASSUME IInv, UNCHANGED <<seqs, rumors>>,
           \A n \in Node : neighbors[n] \subseteq neighbors'[n],
           \A n \in Node : listening'[n] # Idle =>
               listening[n] # Idle /\ listening'[n].pkt = listening[n].pkt
    PROVE  ListeningOK' /\ (UNCHANGED net => NetOK')
<1>1. \A o \in Node : /\ seqs[o][o] =< seqs'[o][o]
                      /\ seqs'[o][o] \in Nat
                      /\ \A s \in 1..seqs[o][o] : rumors'[o][o][s] = rumors[o][o][s]
    BY DEF IInv, TypeOK
<1>2. /\ \A p \in net : PacketOK(p)'
      /\ \A n \in Node : listening[n] # Idle /\ listening'[n] # Idle
                          /\ listening'[n].pkt = listening[n].pkt
                          => PacketOK(listening[n].pkt)'
    BY <1>1, PacketsStayOK
<1>3. ListeningOK'
  <2> SUFFICES ASSUME NEW n \in Node, (listening[n] # Idle)'
               PROVE  (/\ PacketOK(listening[n].pkt)
                       /\ listening[n].pkt.to = n
                       /\ listening[n].pkt.msg.type # "app" =>
                             listening[n].pkt.relay \in neighbors[n])'
      BY DEF ListeningOK
  <2>1. listening[n] # Idle /\ listening'[n].pkt = listening[n].pkt
      OBVIOUS
  <2>2. PacketOK(listening[n].pkt)'
      BY <1>2, <2>1
  <2> QED
      BY <2>1, <2>2, ListeningType
<1> QED
    BY <1>2, <1>3 DEF NetOK

\* AddPeer adds a neighbour and the route to it.
LEMMA AddPeerStep ==
    ASSUME IInv, NEW n \in Node, NEW m \in Node, AddPeer(n, m)
    PROVE  IInv'
<1> USE DEF IInv
<1>1. TypeOK'
    BY DEF TypeOK, AddPeer
<1>2. ListeningOK' /\ NetOK'
    BY Zenon, PacketsUntouched DEF AddPeer, TypeOK
<1>3. NeighborsOK' /\ RoutesGoToNeighbors'
    BY Zenon DEF NeighborsOK, RoutesGoToNeighbors, AddPeer, TypeOK
<1>4. RumorsArePrefix' /\ BcastOK' /\ ProcessedOK'
    BY SMTT(20) DEF RumorsArePrefix, BcastOK, ProcessedOK, AddPeer
<1> QED
    BY <1>1, <1>2, <1>3, <1>4

\* A Broadcast call appends to the own rumors under the next sequence number.
LEMMA BroadcastStep ==
    ASSUME IInv, NEW n \in Node, NEW m \in Payload, Broadcast(n, m)
    PROVE  IInv'
<1> DEFINE s == seqs[n][n] + 1
<1>0. /\ seqs[n][n] \in Nat /\ rumors[n][n] \in Seq(Payload)
      /\ s \in 1..MaxSeq /\ MaxSeq \in Nat
      /\ seqs[n][n] = Len(rumors[n][n])
    BY GossipAssumption DEF Broadcast, IInv, TypeOK, RumorsArePrefix
<1>1. /\ seqs' = [seqs EXCEPT ![n][n] = s]
      /\ rumors' = [rumors EXCEPT ![n][n] = Append(@, m)]
      /\ bcast' = [bcast EXCEPT ![n][s] = [Dormant EXCEPT !.pc = "send"]]
      /\ UNCHANGED <<neighbors, route, ackFutures, listening, processed, net>>
    BY DEF Broadcast
<1>2. /\ Append(rumors[n][n], m) \in Seq(Payload)
      /\ Len(Append(rumors[n][n], m)) = s
      /\ \A i \in 1..seqs[n][n] : Append(rumors[n][n], m)[i] = rumors[n][n][i]
    BY <1>0, AppendProperties
<1>3. TypeOK'
  <2>1. [Dormant EXCEPT !.pc = "send"] \in Goroutine
      BY DEF Dormant, Goroutine
  <2>2. bcast' \in [Node -> [1..MaxSeq -> Goroutine]]
      BY <1>0, <1>1, <2>1 DEF IInv, TypeOK
  <2>3. seqs' \in [Node -> [Node -> Nat]]
      BY <1>0, <1>1 DEF IInv, TypeOK
  <2>4. rumors' \in [Node -> [Node -> Seq(Payload)]]
      BY SMTT(20), <1>1, <1>2 DEF IInv, TypeOK
  <2> QED
      BY <1>1, <2>2, <2>3, <2>4 DEF IInv, TypeOK
<1>4. RumorsArePrefix'
  <2> SUFFICES ASSUME NEW k \in Node, NEW o \in Node
               PROVE  (/\ seqs[k][o] = Len(rumors[k][o])
                       /\ seqs[k][o] =< seqs[o][o]
                       /\ \A i \in 1..seqs[k][o] : rumors[k][o][i] = rumors[o][o][i])'
      BY DEF RumorsArePrefix
  <2>0. /\ seqs[k][o] \in Nat /\ seqs[o][o] \in Nat
        /\ seqs[k][o] = Len(rumors[k][o])
        /\ seqs[k][o] =< seqs[o][o]
        /\ \A i \in 1..seqs[k][o] : rumors[k][o][i] = rumors[o][o][i]
      BY DEF IInv, TypeOK, RumorsArePrefix
  <2>1. seqs'[n][n] = s /\ rumors'[n][n] = Append(rumors[n][n], m)
      BY Zenon, <1>1 DEF IInv, TypeOK
  <2>2. \A x, y \in Node : x # n \/ y # n =>
            seqs'[x][y] = seqs[x][y] /\ rumors'[x][y] = rumors[x][y]
      BY Zenon, <1>1 DEF IInv, TypeOK
  <2>3. CASE o # n
      BY <2>0, <2>2, <2>3
  <2>4. CASE o = n /\ k = n
      BY SMTT(20), <1>2, <2>1, <2>4, <1>0
  <2>5. CASE o = n /\ k # n
    <3>1. seqs'[k][o] = seqs[k][o] /\ rumors'[k][o] = rumors[k][o]
        BY <2>2, <2>5
    <3>2. \A i \in 1..seqs[k][o] : i \in 1..seqs[n][n]
        BY <2>0, <2>5
    <3> QED
        BY <1>0, <1>2, <2>0, <2>1, <2>5, <3>1, <3>2
  <2> QED
      BY <2>3, <2>4, <2>5
<1>5. \A o \in Node : /\ seqs[o][o] =< seqs'[o][o]
                      /\ seqs'[o][o] \in Nat
                      /\ \A i \in 1..seqs[o][o] : rumors'[o][o][i] = rumors[o][o][i]
    BY <1>0, <1>1, <1>2 DEF IInv, TypeOK
<1>6. NetOK'
    BY Zenon, <1>1, <1>5, PacketsStayOK DEF NetOK
<1>7. ListeningOK'
  <2> SUFFICES ASSUME NEW k \in Node, (listening[k] # Idle)'
               PROVE  (/\ PacketOK(listening[k].pkt)
                       /\ listening[k].pkt.to = k
                       /\ listening[k].pkt.msg.type # "app" =>
                             listening[k].pkt.relay \in neighbors[k])'
      BY DEF ListeningOK
  <2>1. PacketOK(listening[k].pkt)'
      BY Zenon, <1>1, <1>5, PacketsStayOK
  <2> QED
      BY <1>1, <2>1, ListeningType
<1>8. NeighborsOK' /\ RoutesGoToNeighbors' /\ ProcessedOK'
    BY <1>1 DEF IInv, TypeOK, NeighborsOK, RoutesGoToNeighbors, ProcessedOK
<1>9. BcastOK'
  <2> SUFFICES ASSUME NEW k \in Node, NEW t \in 1..MaxSeq
               PROVE  (/\ bcast[k][t].pc # "none" <=> t =< seqs[k][k]
                       /\ TriedOK(bcast[k][t])
                       /\ Unprocessed(bcast[k][t]) =>
                             \A i \in 1..Len(processed[k][k]) :
                                processed[k][k][i].seq # t)'
      BY SMTT(20) DEF BcastOK
  <2>1. CASE k = n /\ t = s
    <3>1. bcast'[k][t] = [pc |-> "send", tried |-> 0, pre |-> None]
        BY Zenon, <1>1, <2>1 DEF IInv, TypeOK, Dormant
    <3>2. bcast[k][t].pc = "none"
        BY <1>0, <2>1 DEF IInv, BcastOK
    <3>3. seqs'[k][k] = s /\ processed' = processed
        BY SMTT(20), <1>1, <2>1 DEF IInv, TypeOK
    <3>4. \A i \in 1..Len(processed[k][k]) : processed[k][k][i].seq # t
        BY SMTT(20), <3>2 DEF IInv, BcastOK, TriedOK, Unprocessed
    <3> QED
        BY <1>0, <2>1, <3>1, <3>3, <3>4 DEF TriedOK
  <2>2. CASE ~(k = n /\ t = s)
    <3>1. bcast'[k][t] = bcast[k][t] /\ processed' = processed
        BY <1>1, <2>2 DEF IInv, TypeOK
    <3>2. seqs[n][n] \in Nat
        BY SMTT(20) DEF IInv, TypeOK
    <3>3. CASE k = n
      <4>1. seqs'[k][k] = s /\ t # s
          BY SMTT(20), <1>1, <2>2, <3>3 DEF IInv, TypeOK
      <4> QED
          BY <3>1, <3>2, <3>3, <4>1, GossipAssumption DEF IInv, BcastOK, TriedOK, Unprocessed
    <3>4. CASE k # n
      <4>1. seqs'[k] = seqs[k]
          BY Zenon, <1>1, <3>4 DEF IInv, TypeOK
      <4> QED
          BY <3>1, <4>1 DEF IInv, BcastOK, TriedOK, Unprocessed
    <3> QED
        BY <3>3, <3>4
  <2> QED
      BY SMTT(20), <2>1, <2>2
<1> QED
    BY <1>3, <1>4, <1>6, <1>7, <1>8, <1>9 DEF IInv
\* The message of a Broadcast call is the s-th rumor of its node.
LEMMA OwnSeq ==
    ASSUME IInv, NEW n \in Node, NEW s \in 1..MaxSeq, bcast[n][s].pc # "none"
    PROVE  /\ s \in 1..seqs[n][n]
           /\ s \in 1..Len(rumors[n][n])
           /\ rumors[n][n][s] \in Payload
<1>1. s =< seqs[n][n]
    BY DEF IInv, BcastOK
<1>2. rumors[n][n] \in Seq(Payload) /\ seqs[n][n] \in Nat
    BY DEF IInv, TypeOK
<1>3. seqs[n][n] = Len(rumors[n][n])
    BY DEF IInv, RumorsArePrefix
<1>4. s \in 1..seqs[n][n]
    BY <1>1, <1>2, GossipAssumption
<1>5. \A q \in Seq(Payload) : \A i \in 1..Len(q) : q[i] \in Payload
    BY ElementOfSeq
<1> QED
    BY <1>2, <1>3, <1>4, <1>5

\* A step of the goroutine of n's s-th Broadcast call that leaves it in state b.
LEMMA GoroutineStep ==
    ASSUME IInv, NEW n \in Node, NEW s \in 1..MaxSeq, NEW b \in Goroutine,
           bcast' = [bcast EXCEPT ![n][s] = b],
           bcast[n][s].pc # "none", b.pc # "none",
           TriedOK(b),
           UNCHANGED <<seqs, rumors, neighbors, route>>,
           ackFutures' \in [PacketId -> {"absent", "empty", "full"}],
           listening' \in [Node -> Listening \cup {Idle}],
           \A k \in Node : listening'[k] # Idle =>
               listening[k] # Idle /\ listening'[k].pkt = listening[k].pkt,
           \/ UNCHANGED processed /\ (Unprocessed(b) => Unprocessed(bcast[n][s]))
           \/ /\ processed' = [processed EXCEPT ![n][n] = Append(@, OwnEntry(n, s))]
              /\ ~Unprocessed(b),
           net' \subseteq Packet, NetOK'
    PROVE  IInv'
<1>1. ListeningOK'
    BY PacketsUntouched
<1>2. RumorsArePrefix' /\ NeighborsOK' /\ RoutesGoToNeighbors'
    BY DEF IInv, RumorsArePrefix, NeighborsOK, RoutesGoToNeighbors
<1>3. s =< seqs[n][n]
    BY DEF IInv, BcastOK
<1>4. OwnEntry(n, s) \in ProcessedMsg /\ OwnEntry(n, s).seq = s
  <2>1. rumors[n][n][s] \in Payload /\ s \in Nat
      BY OwnSeq, GossipAssumption
  <2> QED
      BY <2>1 DEF OwnEntry, ProcessedMsg
<1> DEFINE old == processed[n][n]
           new == Append(old, OwnEntry(n, s))
<1>5. /\ old \in Seq(ProcessedMsg)
      /\ new \in Seq(ProcessedMsg)
      /\ Len(new) = Len(old) + 1 /\ Len(old) \in Nat
      /\ \A i \in 1..Len(old) : new[i] = old[i]
      /\ new[Len(old) + 1] = OwnEntry(n, s)
  <2>1. old \in Seq(ProcessedMsg) /\ OwnEntry(n, s) \in ProcessedMsg
      BY <1>4 DEF IInv, TypeOK
  <2> HIDE DEF old
  <2> QED
      BY <2>1, AppendProperties, LenProperties
<1>6. /\ processed' \in [Node -> [Node -> Seq(ProcessedMsg)]]
      /\ \A k, o \in Node : k # o => processed'[k][o] = processed[k][o]
  <2>1. processed \in [Node -> [Node -> Seq(ProcessedMsg)]]
      BY DEF IInv, TypeOK
  <2>2. \/ processed' = processed
        \/ processed' = [processed EXCEPT ![n][n] = new]
      BY <2>1
  <2>3. CASE processed' = processed
      BY <2>1, <2>3
  <2>4. CASE processed' = [processed EXCEPT ![n][n] = new]
    <3>1. new \in Seq(ProcessedMsg)
        BY <1>5
    <3> HIDE DEF new
    <3>2. processed' \in [Node -> [Node -> Seq(ProcessedMsg)]]
        BY <2>1, <2>4, <3>1
    <3> QED
        BY <2>1, <2>4, <3>2
  <2> QED
      BY <2>2, <2>3, <2>4
<1>7. TypeOK'
  <2>1. bcast' \in [Node -> [1..MaxSeq -> Goroutine]]
      BY DEF IInv, TypeOK
  <2> QED
      BY <1>6, <2>1 DEF IInv, TypeOK
<1>8. ProcessedOK'
    BY SMTT(20), <1>6 DEF IInv, ProcessedOK
<1>9. BcastOK'
  <2> SUFFICES ASSUME NEW k \in Node, NEW t \in 1..MaxSeq
               PROVE  (/\ bcast[k][t].pc # "none" <=> t =< seqs[k][k]
                       /\ TriedOK(bcast[k][t])
                       /\ Unprocessed(bcast[k][t]) =>
                             \A i \in 1..Len(processed[k][k]) :
                                processed[k][k][i].seq # t)'
      BY SMTT(20) DEF BcastOK
  <2>1. CASE k = n /\ t = s
    <3>1. bcast'[k][t] = b
        BY Zenon, <2>1 DEF IInv, TypeOK
    <3>2. ASSUME Unprocessed(b), NEW i \in 1..Len(processed[k][k])
          PROVE  processed'[k][k] = processed[k][k] /\ processed[k][k][i].seq # t
        BY <2>1, <3>2 DEF IInv, BcastOK
    <3>3. Unprocessed(bcast[k][t])' <=> Unprocessed(b)
        BY <3>1 DEF TriedOK, Unprocessed
    <3>4. Unprocessed(b) => processed'[k][k] = processed[k][k]
        BY SMTT(20)
    <3> QED
        BY <1>3, <2>1, <3>1, <3>2, <3>3, <3>4 DEF TriedOK
  <2>2. CASE ~(k = n /\ t = s)
    <3>1. bcast'[k][t] = bcast[k][t]
        BY SMTT(20), <2>2 DEF IInv, TypeOK
    <3>2. CASE k = n /\ processed' = [processed EXCEPT ![n][n] = Append(@, OwnEntry(n, s))]
      <4>1. processed'[k][k] = new
          BY SMTT(20), <3>2 DEF IInv, TypeOK
      <4>2. ASSUME Unprocessed(bcast[k][t]), NEW i \in 1..Len(new)
            PROVE  new[i].seq # t
        <5>1. \A j \in 1..Len(old) : old[j].seq # t
            BY <3>2, <4>2 DEF IInv, BcastOK
        <5> QED
            BY SMTT(20), <1>4, <1>5, <2>2, <3>2, <5>1
      <4>3. Unprocessed(bcast[k][t])' <=> Unprocessed(bcast[k][t])
          BY SMTT(20), <3>1 DEF TriedOK, Unprocessed
      <4> HIDE DEF new, old
      <4> QED
          BY <3>1, <4>1, <4>2, <4>3 DEF IInv, BcastOK, TriedOK
    <3>3. CASE processed'[k][k] = processed[k][k]
        BY <3>1, <3>3 DEF IInv, BcastOK, TriedOK, Unprocessed
    <3>4. k # n => processed'[k][k] = processed[k][k]
        BY DEF IInv, TypeOK
    <3> QED
        BY <3>2, <3>3, <3>4
  <2> QED
      BY SMTT(20), <2>1, <2>2
<1> QED
    BY <1>1, <1>2, <1>7, <1>8, <1>9 DEF IInv

\* What the invariant says of one goroutine.
LEMMA GoroutineOK ==
    ASSUME IInv, NEW n \in Node, NEW s \in 1..MaxSeq
    PROVE  /\ bcast[n][s] \in Goroutine
           /\ bcast[n][s].tried \in 0..2
           /\ TriedOK(bcast[n][s])
<1>1. bcast[n][s] \in Goroutine
  <2>1. bcast \in [Node -> [1..MaxSeq -> Goroutine]]
      BY DEF IInv, TypeOK
  <2> QED
      BY Zenon, <2>1
<1>2. TriedOK(bcast[n][s])
    BY DEF IInv, BcastOK
<1>3. bcast[n][s].tried \in 0..2
    BY <1>1 DEF Goroutine
<1> QED
    BY <1>1, <1>2, <1>3

\* A goroutine that moves on in its loop.
LEMMA GoroutinePc ==
    ASSUME NEW g \in Goroutine, NEW pc \in {"send", "wait", "acked"}
    PROVE  /\ [g EXCEPT !.pc = pc] \in Goroutine
           /\ [g EXCEPT !.pc = pc].pc = pc
           /\ [g EXCEPT !.pc = pc].tried = g.tried
BY DEF Goroutine

\* The goroutine of a Broadcast call on a node without neighbours.
LEMMA BroadcastAloneStep ==
    ASSUME IInv, NEW n \in Node, NEW s \in 1..MaxSeq, BroadcastAlone(n, s)
    PROVE  IInv'
<1>1. Done \in Goroutine /\ TriedOK(Done) /\ ~Unprocessed(Done) /\ Done.pc # "none"
    BY DEF Done, Goroutine, TriedOK, Unprocessed
<1>2. NetOK' /\ net' \subseteq Packet
    BY PacketsUntouched DEF IInv, TypeOK, BroadcastAlone
<1> QED
    BY Zenon, <1>1, <1>2, GoroutineStep DEF IInv, TypeOK, BroadcastAlone

\* The rumor of a Broadcast call is genuine.
LEMMA OwnRumorsOK ==
    ASSUME IInv, NEW n \in Node, NEW s \in 1..MaxSeq, bcast[n][s].pc # "none"
    PROVE  /\ OwnRumors(n, s) \in Message
           /\ OwnRumors(n, s).type = "rumors"
           /\ GenuineMessage(OwnRumors(n, s))
<1>1. rumors[n][n][s] \in Payload /\ s \in 1..seqs[n][n] /\ s \in Nat
    BY OwnSeq, GossipAssumption
<1> DEFINE r == [origin |-> n, seq |-> s, msg |-> rumors[n][n][s]]
<1>2. r \in Rumor /\ Genuine(r)
    BY <1>1 DEF Rumor, Genuine
<1>3. OwnRumors(n, s) = [type |-> "rumors", rumors |-> <<r>>]
    BY DEF OwnRumors
<1> HIDE DEF r
<1>4. /\ <<r>> \in Seq(Rumor) /\ Len(<<r>>) = 1 /\ <<r>>[1] = r
    BY <1>2
<1> QED
    BY <1>2, <1>3, <1>4 DEF Message, RumorsMessage, GenuineMessage

\* A try of the goroutine of a Broadcast call.
LEMMA BroadcastSendStep ==
    ASSUME IInv, NEW n \in Node, NEW s \in 1..MaxSeq, BroadcastSend(n, s)
    PROVE  IInv'
<1> DEFINE t == bcast[n][s].tried + 1
           id == TryId(n, s, t)
<1>1. PICK nei \in RandNeighExcept(n, bcast[n][s].pre) :
          /\ Send({PacketTo(n, nei, id, OwnRumors(n, s))})
          /\ bcast' = [bcast EXCEPT ![n][s] =
                          [pc |-> AfterSend(t), tried |-> t, pre |-> nei]]
    BY Zenon DEF BroadcastSend
<1>2. t \in 1..2 /\ bcast[n][s].pc = "send" /\ t = bcast[n][s].tried + 1
    BY DEF IInv, BcastOK, TriedOK, BroadcastSend
<1>3. nei \in neighbors[n] /\ nei \in Node
    BY <1>1, RandNeighExceptOK DEF IInv, TypeOK
<1>4. id \in PacketId /\ id # NoId /\ id[1] = n
    BY <1>2 DEF TryId, PacketId, Tries, NoId
<1> HIDE DEF t, id
<1>5. net' \subseteq Packet /\ NetOK'
  <2>1. /\ OwnRumors(n, s) \in Message /\ GenuineMessage(OwnRumors(n, s))
        /\ OwnRumors(n, s).type = "rumors"
      BY SMTT(20), <1>2, OwnRumorsOK
  <2> DEFINE p == PacketTo(n, nei, id, OwnRumors(n, s))
  <2>2. p \in Packet /\ PacketOK(p)
      BY <1>3, <1>4, <2>1, PacketToOK DEF IInv
  <2>3. Send({p})
      BY SMTT(20), <1>1
  <2> HIDE DEF p
  <2> QED
      BY Zenon, <2>2, <2>3, SendOK DEF IInv, TypeOK, BroadcastSend
<1> DEFINE b == [pc |-> AfterSend(t), tried |-> t, pre |-> nei]
<1>6. b \in Goroutine /\ TriedOK(b) /\ b.pc # "none"
      /\ (Unprocessed(b) => Unprocessed(bcast[n][s]))
  <2>1. CASE t = 1
    <3>1. b = [pc |-> "process", tried |-> 1, pre |-> nei] /\ bcast[n][s].tried = 0
        BY SMTT(20), <1>2, <2>1, GoroutineOK DEF AfterSend
    <3> QED
        BY SMTT(20), <1>2, <1>3, <3>1 DEF Goroutine, TriedOK, Unprocessed
  <2>2. CASE t = 2
    <3>1. b = [pc |-> "wait", tried |-> 2, pre |-> nei]
        BY <2>2 DEF AfterSend
    <3> QED
        BY <1>3, <3>1 DEF Goroutine, TriedOK, Unprocessed
  <2> QED
      BY SMTT(20), <1>2, <2>1, <2>2
<1>7. bcast' = [bcast EXCEPT ![n][s] = b]
    BY <1>1
<1>8. ackFutures' \in [PacketId -> {"absent", "empty", "full"}]
  <2>1. ackFutures' = [ackFutures EXCEPT ![id] = "empty"]
      BY DEF BroadcastSend, id, t
  <2> QED
      BY <1>4, <2>1 DEF IInv, TypeOK
<1> HIDE DEF b
<1> QED
    BY Zenon, <1>2, <1>5, <1>6, <1>7, <1>8, GoroutineStep DEF IInv, TypeOK, BroadcastSend

\* The last try fails at the socket.
LEMMA BroadcastSendFailsStep ==
    ASSUME IInv, NEW n \in Node, NEW s \in 1..MaxSeq, BroadcastSendFails(n, s)
    PROVE  IInv'
<1>1. Done \in Goroutine /\ TriedOK(Done) /\ ~Unprocessed(Done) /\ Done.pc # "none"
    BY DEF Done, Goroutine, TriedOK, Unprocessed
<1>2. NetOK' /\ net' \subseteq Packet
    BY PacketsUntouched DEF IInv, TypeOK, BroadcastSendFails
<1>3. ackFutures' \in [PacketId -> {"absent", "empty", "full"}]
    BY Zenon DEF IInv, TypeOK, BroadcastSendFails
<1> QED
    BY Zenon, <1>1, <1>2, <1>3, GoroutineStep DEF IInv, TypeOK, BroadcastSendFails

\* The local callback of a Broadcast call.
LEMMA BroadcastProcessStep ==
    ASSUME IInv, NEW n \in Node, NEW s \in 1..MaxSeq, BroadcastProcess(n, s)
    PROVE  IInv'
<1>1. PICK b : /\ bcast' = [bcast EXCEPT ![n][s] = b]
               /\ b \in {Done, [bcast[n][s] EXCEPT !.pc = "wait"]}
    BY Zenon DEF BroadcastProcess
<1>2. b \in Goroutine /\ TriedOK(b) /\ ~Unprocessed(b) /\ b.pc # "none"
  <2>1. /\ bcast[n][s] \in Goroutine /\ TriedOK(bcast[n][s])
        /\ bcast[n][s].pc = "process"
      BY GoroutineOK DEF BroadcastProcess
  <2> QED
      BY <1>1, <2>1, GoroutinePc DEF Done, Goroutine, TriedOK, Unprocessed
<1>3. NetOK' /\ net' \subseteq Packet
    BY PacketsUntouched DEF IInv, TypeOK, BroadcastProcess
<1> QED
    BY Zenon, <1>1, <1>2, <1>3, GoroutineStep DEF IInv, TypeOK, BroadcastProcess

\* The ack of a Broadcast call is taken out of its future.
LEMMA BroadcastAckedStep ==
    ASSUME IInv, NEW n \in Node, NEW s \in 1..MaxSeq, BroadcastAcked(n, s)
    PROVE  IInv'
<1> DEFINE b == [bcast[n][s] EXCEPT !.pc = "acked"]
<1>1. b \in Goroutine /\ TriedOK(b) /\ ~Unprocessed(b) /\ b.pc # "none"
      /\ bcast[n][s].pc # "none" /\ bcast' = [bcast EXCEPT ![n][s] = b]
  <2>1. /\ bcast[n][s] \in Goroutine /\ TriedOK(bcast[n][s])
        /\ bcast[n][s].pc = "wait"
      BY GoroutineOK DEF BroadcastAcked
  <2>2. bcast' = [bcast EXCEPT ![n][s] = b]
      BY DEF IInv, TypeOK, BroadcastAcked
  <2> QED
      BY Zenon, <2>1, <2>2, GoroutinePc DEF TriedOK, Unprocessed
<1>2. ackFutures' \in [PacketId -> {"absent", "empty", "full"}]
    BY Zenon DEF IInv, TypeOK, BroadcastAcked
<1>3. /\ listening' \in [Node -> Listening \cup {Idle}]
      /\ \A k \in Node : listening'[k] # Idle =>
            listening[k] # Idle /\ listening'[k].pkt = listening[k].pkt
  <2>1. CASE UNCHANGED listening
      BY <2>1 DEF IInv, TypeOK
  <2>2. CASE /\ listening[n] # Idle
             /\ listening' = [listening EXCEPT ![n].i = 3]
    <3>1. listening[n] \in Listening
        BY <2>2 DEF IInv, TypeOK
    <3>2. [listening[n] EXCEPT !.i = 3] \in Listening
          /\ [listening[n] EXCEPT !.i = 3].pkt = listening[n].pkt
        BY <3>1 DEF Listening
    <3> QED
        BY <2>2, <3>2 DEF IInv, TypeOK
  <2> QED
      BY <2>1, <2>2 DEF BroadcastAcked, BlockedOn
<1>4. NetOK' /\ net' \subseteq Packet
    BY <1>3, PacketsUntouched DEF IInv, TypeOK, BroadcastAcked
<1> HIDE DEF b
<1> QED
    BY Zenon, <1>1, <1>2, <1>3, <1>4, GoroutineStep DEF IInv, TypeOK, BroadcastAcked

\* The future of a try is deleted.
LEMMA BroadcastDeleteStep ==
    ASSUME IInv, NEW n \in Node, NEW s \in 1..MaxSeq, BroadcastDelete(n, s)
    PROVE  IInv'
<1> DEFINE b == IF Finished(bcast[n][s]) THEN Done
                ELSE [bcast[n][s] EXCEPT !.pc = "send"]
<1>1. b \in Goroutine /\ TriedOK(b) /\ ~Unprocessed(b) /\ b.pc # "none"
      /\ bcast[n][s].pc # "none"
  <2>1. /\ bcast[n][s] \in Goroutine /\ TriedOK(bcast[n][s])
        /\ bcast[n][s].pc \in {"wait", "acked"}
      BY GoroutineOK DEF BroadcastDelete
  <2> QED
      BY <2>1, GoroutinePc DEF Goroutine, TriedOK, Unprocessed, Finished, Done
<1>2. bcast' = [bcast EXCEPT ![n][s] = b]
    BY DEF BroadcastDelete
<1>3. ackFutures' \in [PacketId -> {"absent", "empty", "full"}]
    BY Zenon DEF IInv, TypeOK, BroadcastDelete
<1>4. NetOK' /\ net' \subseteq Packet
    BY PacketsUntouched DEF IInv, TypeOK, BroadcastDelete
<1> HIDE DEF b
<1> QED
    BY Zenon, <1>1, <1>2, <1>3, <1>4, GoroutineStep DEF IInv, TypeOK, BroadcastDelete
\* A listenDaemon picks a packet up.
LEMMA ListenStep ==
    ASSUME IInv, NEW n \in Node, NEW p \in net, Listen(n, p)
    PROVE  IInv'
<1> DEFINE l == [pkt |-> p, i |-> 1, isNew |-> FALSE]
<1>1. p \in Packet /\ PacketOK(p) /\ p.to = n /\ p.relay \in Node
    BY DEF IInv, TypeOK, NetOK, Listen, Packet
<1>2. l \in Listening /\ l # Idle /\ l.pkt = p
    BY <1>1 DEF Listening, Idle
<1>3. listening' = [listening EXCEPT ![n] = l]
    BY SMTT(20) DEF Listen
<1> HIDE DEF l
<1>4. /\ neighbors' = [neighbors EXCEPT ![n] = @ \cup ({p.relay} \ {n})]
      /\ neighbors' \in [Node -> SUBSET Node]
      /\ \A k \in Node : neighbors[k] \subseteq neighbors'[k]
      /\ \A k \in Node : k \notin neighbors'[k]
      /\ p.relay # n => p.relay \in neighbors'[n]
    BY SMTT(20), <1>1 DEF IInv, TypeOK, NeighborsOK, Listen, AddNeighbor
<1>5. net' \subseteq net
    BY DEF Listen
<1>6. TypeOK'
  <2>1. listening' \in [Node -> Listening \cup {Idle}]
      BY SMTT(20), <1>2, <1>3 DEF IInv, TypeOK
  <2> QED
      BY <1>4, <1>5, <2>1 DEF IInv, TypeOK, Listen
<1>7. \A q : PacketOK(q)' <=> PacketOK(q)
    BY DEF Listen, PacketOK, GenuineMessage, Genuine, Direct
<1>8. NetOK'
    BY SMTT(20), <1>5, <1>7 DEF IInv, NetOK
<1>9. ListeningOK'
  <2> SUFFICES ASSUME NEW k \in Node, (listening[k] # Idle)'
               PROVE  (/\ PacketOK(listening[k].pkt)
                       /\ listening[k].pkt.to = k
                       /\ listening[k].pkt.msg.type # "app" =>
                             listening[k].pkt.relay \in neighbors[k])'
      BY DEF ListeningOK
  <2>1. CASE k = n
    <3>1. listening'[k].pkt = p
        BY <1>2, <1>3, <2>1 DEF IInv, TypeOK
    <3>2. p.msg.type # "app" => p.relay # n
        BY <1>1 DEF PacketOK, Direct
    <3>3. PacketOK(listening[k].pkt)'
        BY SMTT(20), <1>1, <1>7, <3>1
    <3> QED
        BY <1>1, <1>4, <2>1, <3>1, <3>2, <3>3
  <2>2. CASE k # n
    <3>1. listening'[k] = listening[k]
        BY SMTT(20), <1>3, <2>2 DEF IInv, TypeOK
    <3>2. /\ PacketOK(listening[k].pkt)
          /\ listening[k].pkt.to = k
          /\ listening[k].pkt.msg.type # "app" =>
                listening[k].pkt.relay \in neighbors[k]
        BY SMTT(20), <3>1 DEF IInv, ListeningOK
    <3>3. PacketOK(listening[k].pkt)'
      <4>1. PICK q : q = listening[k].pkt
          OBVIOUS
      <4> QED
          BY SMTT(20), <1>7, <3>1, <3>2, <4>1
    <3> QED
        BY <1>4, <3>1, <3>2, <3>3
  <2> QED
      BY <2>1, <2>2
<1>10. RumorsArePrefix' /\ RoutesGoToNeighbors' /\ BcastOK' /\ ProcessedOK'
  <2>1. RumorsArePrefix' /\ ProcessedOK'
      BY SMTT(20) DEF IInv, RumorsArePrefix, ProcessedOK, Listen
  <2>2. RoutesGoToNeighbors'
      BY SMTT(20), <1>4 DEF IInv, RoutesGoToNeighbors, Listen
  <2>3. BcastOK'
      BY DEF IInv, BcastOK, TriedOK, Unprocessed, Listen
  <2> QED
      BY SMTT(20), <2>1, <2>2, <2>3
<1> QED
    BY <1>4, <1>6, <1>8, <1>9, <1>10 DEF IInv, NeighborsOK

\* A listener blocks on a future that is full.
LEMMA AckMsgBlocksStep ==
    ASSUME IInv, NEW n \in Node, AckMsgBlocks(n)
    PROVE  IInv'
<1>1. listening[n] # Idle /\ listening[n] \in Listening
    BY DEF IInv, TypeOK, AckMsgBlocks, Handling
<1>2. [listening[n] EXCEPT !.i = 2] \in Listening
      /\ [listening[n] EXCEPT !.i = 2].pkt = listening[n].pkt
    BY <1>1 DEF Listening
<1>3. listening' = [listening EXCEPT ![n] = [listening[n] EXCEPT !.i = 2]]
    BY DEF AckMsgBlocks
<1>4. /\ listening' \in [Node -> Listening \cup {Idle}]
      /\ \A k \in Node : listening'[k] # Idle =>
            listening[k] # Idle /\ listening'[k].pkt = listening[k].pkt
    BY <1>1, <1>2, <1>3 DEF IInv, TypeOK
<1>5. ListeningOK' /\ NetOK'
    BY <1>4, PacketsUntouched DEF AckMsgBlocks
<1>6. TypeOK'
    BY <1>4 DEF IInv, TypeOK, AckMsgBlocks
<1>7. RumorsArePrefix' /\ NeighborsOK' /\ RoutesGoToNeighbors' /\ ProcessedOK'
    BY DEF IInv, RumorsArePrefix, NeighborsOK, RoutesGoToNeighbors, ProcessedOK,
           AckMsgBlocks
<1>8. BcastOK'
    BY DEF IInv, BcastOK, TriedOK, Unprocessed, AckMsgBlocks
<1> QED
    BY <1>5, <1>6, <1>7, <1>8 DEF IInv
\* n stores and processes the rumor of o that follows the ones it has.
NewRumor(n, o) ==
    LET k == seqs[n][o] + 1
        msg == rumors[o][o][k]
    IN
    /\ n # o
    /\ k =< seqs[o][o]
    /\ seqs' = [seqs EXCEPT ![n][o] = k]
    /\ rumors' = [rumors EXCEPT ![n][o] = Append(@, msg)]
    /\ \E w \in neighbors[n] : route' = [route EXCEPT ![n][o] = w]
    /\ processed' = [processed EXCEPT ![n][o] = Append(@, [seq |-> k, msg |-> msg])]

\* The listener goes on with the next rumor of a packet.
LEMMA LoopTurn ==
    ASSUME NEW l \in Listening
    PROVE  /\ [l EXCEPT !.i = @ + 1] \in Listening
           /\ [l EXCEPT !.i = @ + 1].pkt = l.pkt
           /\ [l EXCEPT !.i = @ + 1, !.isNew = TRUE] \in Listening
           /\ [l EXCEPT !.i = @ + 1, !.isNew = TRUE].pkt = l.pkt
<1>1. ASSUME NEW k \in Nat \ {0}
      PROVE  [l EXCEPT !.i = k] \in Listening /\ [l EXCEPT !.i = k].pkt = l.pkt
    BY DEF Listening
<1>2. ASSUME NEW y \in Listening
      PROVE  [y EXCEPT !.isNew = TRUE] \in Listening /\ [y EXCEPT !.isNew = TRUE].pkt = y.pkt
    BY Zenon DEF Listening
<1>3. l.i + 1 \in Nat \ {0}
    BY SMTT(20) DEF Listening
<1> QED
    BY Zenon, <1>1, <1>2, <1>3

\* A turn of the loop of RumorsMsgCallback skips a rumor or stores a genuine one.
LEMMA RumorsMsgCases ==
    ASSUME IInv, NEW n \in Node, RumorsMsgCallback(n)
    PROVE  /\ listening' \in [Node -> Listening \cup {Idle}]
           /\ \A k \in Node : listening'[k] # Idle =>
                 listening[k] # Idle /\ listening'[k].pkt = listening[k].pkt
           /\ \/ UNCHANGED <<seqs, rumors, route, processed>>
              \/ \E o \in Node : NewRumor(n, o)
<1> DEFINE l == listening[n]
           rs == l.pkt.msg.rumors
           r == rs[l.i]
<1>1. /\ l # Idle /\ l \in Listening /\ l.i \in Nat \ {0} /\ l.i =< Len(rs)
      /\ l.pkt.msg \in Message /\ l.pkt.msg.type = "rumors"
      /\ PacketOK(l.pkt) /\ l.pkt.relay \in neighbors[n]
    BY Zenon, ListeningType DEF RumorsMsgCallback, Handling, Listening
<1>2. PICK l2 \in Listening : l2.pkt = l.pkt /\ listening' = [listening EXCEPT ![n] = l2]
  <2>1. /\ [l EXCEPT !.i = @ + 1] \in Listening
        /\ [l EXCEPT !.i = @ + 1].pkt = l.pkt
        /\ [l EXCEPT !.i = @ + 1, !.isNew = TRUE] \in Listening
        /\ [l EXCEPT !.i = @ + 1, !.isNew = TRUE].pkt = l.pkt
      BY Zenon, <1>1, LoopTurn
  <2>2. \/ listening' = [listening EXCEPT ![n] = [l EXCEPT !.i = @ + 1]]
        \/ listening' = [listening EXCEPT ![n] = [l EXCEPT !.i = @ + 1, !.isNew = TRUE]]
      BY Zenon DEF RumorsMsgCallback, IInv, TypeOK
  <2> QED
      BY Zenon, <2>1, <2>2
<1>3. /\ listening' \in [Node -> Listening \cup {Idle}]
      /\ \A k \in Node : listening'[k] # Idle =>
            listening[k] # Idle /\ listening'[k].pkt = listening[k].pkt
    BY SMTT(20), <1>1, <1>2 DEF IInv, TypeOK
<1>4. CASE ~Expected(n, r)
    BY Zenon, <1>3, <1>4 DEF RumorsMsgCallback
<1>5. CASE Expected(n, r)
  <2>1. /\ seqs' = [seqs EXCEPT ![n][r.origin] = r.seq]
        /\ rumors' = [rumors EXCEPT ![n][r.origin] = Append(@, r.msg)]
        /\ route' = [route EXCEPT ![n][r.origin] = l.pkt.relay]
        /\ processed' = [processed EXCEPT ![n][r.origin] =
                                Append(@, [seq |-> r.seq, msg |-> r.msg])]
      BY Zenon, <1>5 DEF RumorsMsgCallback
  <2>2. rs \in Seq(Rumor) /\ \A i \in 1..Len(rs) : Genuine(rs[i])
      BY SMTT(20), <1>1, MessageKinds DEF RumorsMessage, PacketOK, GenuineMessage
  <2>3. l.i \in 1..Len(rs)
      BY <1>1, <2>2, LenProperties
  <2> HIDE DEF rs
  <2>4. r \in Rumor /\ Genuine(r)
      BY <2>2, <2>3, ElementOfSeq
  <2>5. r.seq = seqs[n][r.origin] + 1
      BY <1>5 DEF Expected
  <2> HIDE DEF r
  <2>6. PICK o \in Node : o = r.origin
      BY <2>4 DEF Rumor
  <2>7. /\ r.seq =< seqs[o][o] /\ r.msg = rumors[o][o][r.seq]
      BY SMTT(20), <2>4, <2>6 DEF Genuine, IInv, TypeOK, Rumor
  <2>8. n # o
      BY <2>5, <2>6, <2>7 DEF IInv, TypeOK
  <2>9. NewRumor(n, o)
      BY Zenon, <1>1, <2>1, <2>5, <2>6, <2>7, <2>8 DEF NewRumor
  <2> QED
      BY <1>3, <2>9
<1> QED
    BY <1>4, <1>5
\* A new rumor leaves what the origins have as it was, and what the nodes have
\* of the origins a prefix of it.
LEMMA NewRumorOK ==
    ASSUME IInv, NEW n \in Node, NEW o \in Node, NewRumor(n, o)
    PROVE  /\ seqs' \in [Node -> [Node -> Nat]]
           /\ rumors' \in [Node -> [Node -> Seq(Payload)]]
           /\ route' \in [Node -> [Node -> Node \cup {None}]]
           /\ processed' \in [Node -> [Node -> Seq(ProcessedMsg)]]
           /\ \A k \in Node : /\ seqs'[k][k] = seqs[k][k]
                             /\ rumors'[k][k] = rumors[k][k]
                             /\ processed'[k][k] = processed[k][k]
           /\ RumorsArePrefix'
           /\ ProcessedOK'
<1> DEFINE sq == seqs[n][o] + 1
           msg == rumors[o][o][sq]
           e == [seq |-> sq, msg |-> msg]
           mine == Append(rumors[n][o], msg)
           done == Append(processed[n][o], e)
<1>1. /\ n # o /\ sq =< seqs[o][o] /\ seqs[n][o] \in Nat /\ seqs[o][o] \in Nat
      /\ rumors[n][o] \in Seq(Payload) /\ rumors[o][o] \in Seq(Payload)
      /\ processed[n][o] \in Seq(ProcessedMsg)
    BY SMTT(20) DEF NewRumor, IInv, TypeOK
<1>2. /\ Len(rumors[o][o]) = seqs[o][o] /\ Len(rumors[n][o]) = seqs[n][o]
      /\ Len(processed[n][o]) = seqs[n][o]
      /\ \A s \in 1..seqs[n][o] : rumors[n][o][s] = rumors[o][o][s]
    BY SMTT(20), <1>1 DEF IInv, RumorsArePrefix, ProcessedOK
<1>3. sq \in Nat \ {0} /\ msg \in Payload /\ e \in ProcessedMsg
  <2>1. sq \in Nat \ {0} /\ sq \in 1..Len(rumors[o][o])
      BY <1>1, <1>2
  <2> HIDE DEF sq
  <2>2. msg \in Payload
      BY SMTT(20), <1>1, <2>1, ElementOfSeq
  <2> QED
      BY <2>1, <2>2 DEF ProcessedMsg
<1>4. /\ seqs' = [seqs EXCEPT ![n][o] = sq]
      /\ rumors' = [rumors EXCEPT ![n][o] = mine]
      /\ processed' = [processed EXCEPT ![n][o] = done]
    BY SMTT(20) DEF NewRumor
<1> HIDE DEF e
<1>5. /\ mine \in Seq(Payload) /\ Len(mine) = sq
      /\ \A s \in 1..sq : mine[s] = rumors[o][o][s]
      /\ done \in Seq(ProcessedMsg) /\ Len(done) = sq
  <2>1. /\ mine \in Seq(Payload) /\ Len(mine) = Len(rumors[n][o]) + 1
        /\ \A i \in 1..Len(rumors[n][o]) : mine[i] = rumors[n][o][i]
        /\ mine[Len(rumors[n][o]) + 1] = msg
      BY SMTT(20), <1>1, <1>3, AppendProperties
  <2>2. done \in Seq(ProcessedMsg) /\ Len(done) = Len(processed[n][o]) + 1
      BY <1>1, <1>3, AppendProperties
  <2> HIDE DEF mine, done
  <2>3. ASSUME NEW s \in 1..sq PROVE mine[s] = rumors[o][o][s]
    <3>1. CASE s = sq
        BY SMTT(20), <1>2, <2>1, <3>1
    <3>2. CASE s \in 1..seqs[n][o]
        BY <1>2, <2>1, <3>2
    <3>3. s = sq \/ s \in 1..seqs[n][o]
      <4>1. PICK a \in Nat : a = seqs[n][o]
          BY <1>1
      <4> QED
          BY <4>1
    <3> QED
        BY SMTT(20), <3>1, <3>2, <3>3
  <2> QED
      BY SMTT(20), <1>2, <2>1, <2>2, <2>3
<1> HIDE DEF mine, done, msg
<1>6. /\ seqs' \in [Node -> [Node -> Nat]]
      /\ seqs'[n][o] = sq
      /\ \A i, j \in Node : ~(i = n /\ j = o) => seqs'[i][j] = seqs[i][j]
  <2> HIDE DEF sq
  <2> QED
      BY SMTT(20), <1>3, <1>4 DEF IInv, TypeOK
<1>7. /\ rumors' \in [Node -> [Node -> Seq(Payload)]]
      /\ rumors'[n][o] = mine
      /\ \A i, j \in Node : ~(i = n /\ j = o) => rumors'[i][j] = rumors[i][j]
    BY SMTT(20), <1>4, <1>5 DEF IInv, TypeOK
<1>8. /\ processed' \in [Node -> [Node -> Seq(ProcessedMsg)]]
      /\ processed'[n][o] = done
      /\ \A i, j \in Node : ~(i = n /\ j = o) => processed'[i][j] = processed[i][j]
    BY <1>4, <1>5 DEF IInv, TypeOK
<1>9. route' \in [Node -> [Node -> Node \cup {None}]]
  <2>1. PICK w \in neighbors[n] : route' = [route EXCEPT ![n][o] = w]
      BY Zenon DEF NewRumor
  <2>2. w \in Node
      BY DEF IInv, TypeOK
  <2> QED
      BY Zenon, <2>1, <2>2 DEF IInv, TypeOK
<1>10. /\ seqs'[n][o] = sq
       /\ rumors'[n][o] = mine
       /\ processed'[n][o] = done
       /\ \A i, j \in Node : ~(i = n /\ j = o) =>
             /\ seqs'[i][j] = seqs[i][j]
             /\ rumors'[i][j] = rumors[i][j]
             /\ processed'[i][j] = processed[i][j]
    BY Zenon, <1>6, <1>7, <1>8 DEF IInv, TypeOK
<1> HIDE DEF sq
<1>11. RumorsArePrefix'
  <2> SUFFICES ASSUME NEW i \in Node, NEW j \in Node
               PROVE  (/\ seqs[i][j] = Len(rumors[i][j])
                       /\ seqs[i][j] =< seqs[j][j]
                       /\ \A s \in 1..seqs[i][j] : rumors[i][j][s] = rumors[j][j][s])'
      BY SMTT(20) DEF RumorsArePrefix
  <2>1. seqs'[j][j] = seqs[j][j] /\ rumors'[j][j] = rumors[j][j]
      BY SMTT(20), <1>1, <1>10
  <2>2. CASE i = n /\ j = o
    <3>1. seqs'[i][j] = sq /\ rumors'[i][j] = mine
        BY SMTT(20), <1>10, <2>2
    <3> QED
        BY SMTT(20), <1>1, <1>5, <2>1, <2>2, <3>1
  <2>3. CASE ~(i = n /\ j = o)
    <3>1. seqs'[i][j] = seqs[i][j] /\ rumors'[i][j] = rumors[i][j]
        BY SMTT(20), <1>10, <2>3
    <3>2. /\ seqs[i][j] = Len(rumors[i][j])
          /\ seqs[i][j] =< seqs[j][j]
          /\ \A s \in 1..seqs[i][j] : rumors[i][j][s] = rumors[j][j][s]
        BY DEF IInv, RumorsArePrefix
    <3> QED
        BY SMTT(20), <2>1, <3>1, <3>2
  <2> QED
      BY SMTT(20), <2>2, <2>3
<1>12. ProcessedOK'
  <2> SUFFICES ASSUME NEW i \in Node, NEW j \in Node, i # j
               PROVE  Len(processed'[i][j]) = seqs'[i][j]
      BY SMTT(20) DEF ProcessedOK
  <2>1. CASE i = n /\ j = o
      BY SMTT(20), <1>5, <1>10, <2>1
  <2>2. CASE ~(i = n /\ j = o)
      BY SMTT(20), <1>10, <2>2 DEF IInv, ProcessedOK
  <2> QED
      BY <2>1, <2>2
<1>13. \A i \in Node : /\ seqs'[i][i] = seqs[i][i]
                     /\ rumors'[i][i] = rumors[i][i]
                     /\ processed'[i][i] = processed[i][i]
    BY SMTT(20), <1>1, <1>10
<1> QED
    BY SMTT(20), <1>6, <1>7, <1>8, <1>9, <1>11, <1>12, <1>13

\* A turn of the loop of RumorsMsgCallback.
LEMMA RumorsMsgStep ==
    ASSUME IInv, NEW n \in Node, RumorsMsgCallback(n)
    PROVE  IInv'
<1>1. UNCHANGED <<neighbors, bcast, ackFutures, net>>
    BY Zenon DEF RumorsMsgCallback
<1>2. /\ listening' \in [Node -> Listening \cup {Idle}]
      /\ \A k \in Node : listening'[k] # Idle =>
            listening[k] # Idle /\ listening'[k].pkt = listening[k].pkt
    BY SMTT(20), RumorsMsgCases
<1>3. CASE UNCHANGED <<seqs, rumors, route, processed>>
  <2>1. ListeningOK' /\ NetOK'
      BY SMTT(20), <1>1, <1>2, <1>3, PacketsUntouched
  <2>2. TypeOK'
      BY SMTT(20), <1>1, <1>2, <1>3 DEF IInv, TypeOK
  <2>3. RumorsArePrefix' /\ NeighborsOK' /\ RoutesGoToNeighbors' /\ ProcessedOK'
      BY SMTT(20), <1>1, <1>3 DEF IInv, RumorsArePrefix, NeighborsOK, RoutesGoToNeighbors,
                        ProcessedOK
  <2>4. BcastOK'
      BY SMTT(20), <1>1, <1>3 DEF IInv, BcastOK, TriedOK, Unprocessed
  <2> QED
      BY <2>1, <2>2, <2>3, <2>4 DEF IInv
<1>4. ASSUME NEW o \in Node, NewRumor(n, o) PROVE IInv'
  <2>1. /\ TypeOK'
        /\ RumorsArePrefix' /\ ProcessedOK'
        /\ \A k \in Node : /\ seqs'[k][k] = seqs[k][k]
                          /\ rumors'[k][k] = rumors[k][k]
                          /\ processed'[k][k] = processed[k][k]
    <3>1. /\ seqs' \in [Node -> [Node -> Nat]]
          /\ rumors' \in [Node -> [Node -> Seq(Payload)]]
          /\ route' \in [Node -> [Node -> Node \cup {None}]]
          /\ processed' \in [Node -> [Node -> Seq(ProcessedMsg)]]
        BY SMTT(20), <1>4, NewRumorOK
    <3>2. TypeOK'
        BY Zenon, <1>1, <1>2, <3>1 DEF IInv, TypeOK
    <3> QED
        BY SMTT(20), <1>4, <3>2, NewRumorOK
  <2>2. /\ \A p \in net : PacketOK(p)'
        /\ \A k \in Node : listening[k] # Idle /\ listening'[k] # Idle
                            /\ listening'[k].pkt = listening[k].pkt
                            => PacketOK(listening[k].pkt)'
    <3>1. \A k \in Node : /\ seqs[k][k] =< seqs'[k][k]
                          /\ seqs'[k][k] \in Nat
                          /\ \A s \in 1..seqs[k][k] : rumors'[k][k][s] = rumors[k][k][s]
      <4>1. \A k \in Node : seqs[k][k] \in Nat
          BY DEF IInv, TypeOK
      <4>2. \A i \in Nat : i =< i
          OBVIOUS
      <4> QED
          BY <2>1, <4>1, <4>2
    <3> QED
        BY SMTT(20), <3>1, PacketsStayOK
  <2>3. NetOK'
      BY SMTT(20), <1>1, <2>2 DEF NetOK
  <2>4. ListeningOK'
    <3> SUFFICES ASSUME NEW k \in Node, (listening[k] # Idle)'
                 PROVE  (/\ PacketOK(listening[k].pkt)
                         /\ listening[k].pkt.to = k
                         /\ listening[k].pkt.msg.type # "app" =>
                               listening[k].pkt.relay \in neighbors[k])'
        BY DEF ListeningOK
    <3>1. listening[k] # Idle /\ listening'[k].pkt = listening[k].pkt
        BY <1>2
    <3>2. PacketOK(listening[k].pkt)'
        BY <2>2, <3>1
    <3> QED
        BY <1>1, <3>1, <3>2 DEF IInv, ListeningOK
  <2>5. NeighborsOK' /\ RoutesGoToNeighbors'
    <3>1. NeighborsOK'
        BY <1>1 DEF IInv, NeighborsOK
    <3>2. PICK w \in neighbors[n] : route' = [route EXCEPT ![n][o] = w]
        BY Zenon, <1>4 DEF NewRumor
    <3>3. /\ route'[n][o] = w
          /\ \A i, j \in Node : ~(i = n /\ j = o) => route'[i][j] = route[i][j]
        BY SMTT(20), <3>2 DEF IInv, TypeOK
    <3> QED
        BY <1>1, <3>1, <3>3 DEF IInv, RoutesGoToNeighbors
  <2>6. BcastOK'
      BY <1>1, <2>1 DEF IInv, BcastOK, TriedOK, Unprocessed
  <2> QED
      BY SMTT(20), <2>1, <2>3, <2>4, <2>5, <2>6 DEF IInv
<1> QED
    BY <1>3, <1>4, RumorsMsgCases
-----------------------------------------------------------------------------
(* The inductive invariant *)

\* Every step of every daemon, goroutine and caller keeps the invariant.
LEMMA NextIInv == IInv /\ [Next]_vars => IInv'
<1> SUFFICES ASSUME IInv, [Next]_vars PROVE IInv'
    OBVIOUS
<1>1. ASSUME NEW n \in Node, NEW m \in Node, AddPeer(n, m) PROVE IInv'
    BY <1>1, AddPeerStep
<1>2. ASSUME NEW n \in Node, NEW m \in Node, Unicast(n, m) PROVE IInv'
    BY <1>2, UnicastStep
<1>3. ASSUME NEW n \in Node, NEW m \in Node, StatusReport(n, m) PROVE IInv'
    BY <1>3, StatusReportStep
<1>4. ASSUME NEW n \in Node, NEW m \in Payload, Broadcast(n, m) PROVE IInv'
    BY <1>4, BroadcastStep
<1>5. ASSUME NEW n \in Node, Goroutines(n) PROVE IInv'
  <2>1. PICK s \in 1..MaxSeq : \/ BroadcastAlone(n, s)
                              \/ BroadcastSend(n, s)
                              \/ BroadcastSendFails(n, s)
                              \/ BroadcastProcess(n, s)
                              \/ BroadcastAcked(n, s)
                              \/ BroadcastDelete(n, s)
      BY <1>5 DEF Goroutines
  <2> QED
      BY <2>1, BroadcastAloneStep, BroadcastSendStep, BroadcastSendFailsStep,
         BroadcastProcessStep, BroadcastAckedStep, BroadcastDeleteStep
<1>6. ASSUME NEW n \in Node, ListenDaemon(n) PROVE IInv'
  <2>1. CASE Callbacks(n)
      BY <2>1, RelayStep, AppMsgStep, RumorsMsgStep, RumorsMsgDoneStep,
         StatusMsgStep, AckMsgStep, AckMsgBlocksStep DEF Callbacks
  <2>2. ASSUME NEW p \in net, Listen(n, p) PROVE IInv'
      BY <2>2, ListenStep
  <2> QED
      BY <1>6, <2>1, <2>2 DEF ListenDaemon
<1>7. CASE UNCHANGED vars
  <2> USE <1>7 DEF vars
  <2>1. TypeOK' /\ RumorsArePrefix' /\ NeighborsOK' /\ RoutesGoToNeighbors'
        /\ ProcessedOK'
      BY SMTT(20) DEF IInv, TypeOK, RumorsArePrefix, NeighborsOK, RoutesGoToNeighbors,
             ProcessedOK
  <2>2. NetOK' /\ ListeningOK'
      BY SMTT(20), PacketsUntouched DEF IInv, TypeOK
  <2>3. BcastOK'
      BY DEF IInv, BcastOK, TriedOK, Unprocessed
  <2> QED
      BY SMTT(20), <2>1, <2>2, <2>3 DEF IInv
<1> QED
    BY <1>1, <1>2, <1>3, <1>4, <1>5, <1>6, <1>7 DEF Next

\* The inductive invariant holds in every reachable state.
THEOREM Invariance == Spec => []IInv
BY InitIInv, NextIInv, PTL DEF Spec

\* Every variable of the Messager keeps its type.
THEOREM TypeCorrect == Spec => []TypeOK
<1>1. IInv => TypeOK
    BY DEF IInv
<1> QED
    BY <1>1, Invariance, PTL

\* Whatever is lost, duplicated or reordered, a node stores of an origin a prefix
\* of what the origin broadcast (RumorsMsgCallback, StatusMsgCallback).
THEOREM StoredRumorsArePrefix == Spec => []RumorsArePrefix
<1>1. IInv => RumorsArePrefix
    BY DEF IInv
<1> QED
    BY <1>1, Invariance, PTL

\* Every routing entry names a neighbour (listenDaemon, RumorsMsgCallback, AddPeer).
THEOREM NextHopsAreNeighbors == Spec => []RoutesGoToNeighbors
<1>1. IInv => RoutesGoToNeighbors
    BY SMTT(20) DEF IInv
<1> QED
    BY <1>1, Invariance, PTL

\* No gossip packet is ever relayed, and an ack goes to the node whose future it
\* completes (RumorsMsgCallback, AckMsgCallback).
THEOREM GossipStaysDirect == Spec => []GossipIsDirect
<1>1. IInv => GossipIsDirect
    BY DEF IInv, NetOK, PacketOK, Direct, GossipIsDirect
<1> QED
    BY <1>1, Invariance, PTL
-----------------------------------------------------------------------------
(* The Messager implements the broadcast service *)

\* A step that neither broadcasts nor runs a callback is no step of the service.
LEMMA ServiceStutters ==
    ASSUME UNCHANGED processed, \A o \in Node : rumors'[o][o] = rumors[o][o]
    PROVE  UNCHANGED Service!vars
<1>1. [o \in Node |-> rumors'[o][o]] = [o \in Node |-> rumors[o][o]]
    OBVIOUS
<1> QED
    BY <1>1 DEF Service!vars

\* A call of Broadcast is a broadcast of the service.
LEMMA BroadcastRefines ==
    ASSUME IInv, NEW n \in Node, NEW m \in Payload, Broadcast(n, m)
    PROVE  Service!Broadcast(n, m)
<1>1. rumors' = [rumors EXCEPT ![n][n] = Append(@, m)] /\ UNCHANGED processed
    BY DEF Broadcast
<1>2. \A o \in Node : rumors'[o][o] = IF o = n THEN Append(rumors[n][n], m)
                                                ELSE rumors[o][o]
    BY <1>1 DEF IInv, TypeOK
<1>3. [o \in Node |-> rumors'[o][o]] =
        [[o \in Node |-> rumors[o][o]] EXCEPT ![n] = Append(@, m)]
    BY Zenon, <1>2
<1> QED
    BY <1>1, <1>3 DEF Service!Broadcast

\* The local callback of a Broadcast call is a delivery of the own message.
LEMMA OwnRefines ==
    ASSUME IInv, NEW n \in Node, NEW s \in 1..MaxSeq,
           bcast[n][s].pc # "none", Unprocessed(bcast[n][s]),
           processed' = [processed EXCEPT ![n][n] = Append(@, OwnEntry(n, s))],
           UNCHANGED rumors
    PROVE  Service!Next
<1> DEFINE snt == [o \in Node |-> rumors[o][o]]
<1>1. s \in 1..Len(snt[n])
    BY OwnSeq
<1>2. \A i \in 1..Len(processed[n][n]) : processed[n][n][i].seq # s
    BY DEF IInv, BcastOK
<1>3. Service!Entry(n, s) = OwnEntry(n, s)
    BY DEF Service!Entry, OwnEntry
<1>4. Service!DeliverOwn(n, s)
    BY <1>1, <1>2, <1>3 DEF Service!DeliverOwn
<1> QED
    BY <1>1, <1>4 DEF Service!Next

\* A rumor stored by RumorsMsgCallback is the next delivery from its origin.
LEMMA NewRumorRefines ==
    ASSUME IInv, NEW n \in Node, NEW o \in Node, NewRumor(n, o)
    PROVE  Service!Next
<1>1. UNCHANGED [k \in Node |-> rumors[k][k]]
    BY SMTT(20), NewRumorOK
<1>2. /\ n # o /\ seqs[n][o] = Len(processed[n][o])
      /\ seqs[n][o] + 1 =< Len(rumors[o][o]) /\ seqs[n][o] \in Nat
    BY SMTT(20) DEF NewRumor, IInv, ProcessedOK, RumorsArePrefix, TypeOK
<1>3. processed' = [processed EXCEPT ![n][o] =
                       Append(@, Service!Entry(o, Len(@) + 1))]
    BY <1>2 DEF NewRumor, Service!Entry
<1>4. Len(processed[n][o]) < Len([k \in Node |-> rumors[k][k]][o])
  <2>1. [k \in Node |-> rumors[k][k]][o] = rumors[o][o] /\ rumors[o][o] \in Seq(Payload)
      BY DEF IInv, TypeOK
  <2> QED
      BY <1>2, <2>1, LenProperties
<1>5. Service!Deliver(n, o)
    BY <1>1, <1>2, <1>3, <1>4 DEF Service!Deliver
<1> QED
    BY SMTT(20), <1>5 DEF Service!Next

\* Every step of the Messager is a step of the service or changes nothing of it.
LEMMA NextRefines == IInv /\ [Next]_vars => [Service!Next]_(Service!vars)
<1> SUFFICES ASSUME IInv, [Next]_vars PROVE Service!Next \/ UNCHANGED Service!vars
    OBVIOUS
<1>1. CASE UNCHANGED <<rumors, processed>>
    BY <1>1, ServiceStutters
<1>2. ASSUME NEW n \in Node, NEW m \in Payload, Broadcast(n, m) PROVE Service!Next
    BY <1>2, BroadcastRefines DEF Service!Next
<1>3. ASSUME NEW n \in Node, NEW s \in 1..MaxSeq, BroadcastAlone(n, s)
      PROVE  Service!Next
  <2>1. bcast[n][s].pc # "none" /\ Unprocessed(bcast[n][s])
      BY <1>3 DEF BroadcastAlone, Unprocessed
  <2> QED
      BY Zenon, <1>3, <2>1, OwnRefines DEF BroadcastAlone
<1>4. ASSUME NEW n \in Node, NEW s \in 1..MaxSeq, BroadcastProcess(n, s)
      PROVE  Service!Next
  <2>1. bcast[n][s].pc # "none" /\ Unprocessed(bcast[n][s])
      BY <1>4 DEF BroadcastProcess, Unprocessed
  <2> QED
      BY Zenon, <1>4, <2>1, OwnRefines DEF BroadcastProcess
<1>5. ASSUME NEW n \in Node, RumorsMsgCallback(n)
      PROVE  Service!Next \/ UNCHANGED <<rumors, processed>>
    BY SMTT(20), <1>5, RumorsMsgCases, NewRumorRefines
<1>6. ASSUME NEW n \in Node, Goroutines(n)
      PROVE  Service!Next \/ UNCHANGED <<rumors, processed>>
    BY SMTT(20), <1>3, <1>4, <1>6 DEF Goroutines, BroadcastSend, BroadcastSendFails,
                           BroadcastAcked, BroadcastDelete
<1>7. ASSUME NEW n \in Node, ListenDaemon(n)
      PROVE  Service!Next \/ UNCHANGED <<rumors, processed>>
    BY <1>5, <1>7 DEF ListenDaemon, Callbacks, Listen, Relay, AppMsgCallback,
          RumorsMsgDone, StatusMsgCallback, AckMsgCallback, AckMsgBlocks
<1>8. ASSUME NEW n \in Node, NEW m \in Node,
             AddPeer(n, m) \/ Unicast(n, m) \/ StatusReport(n, m)
      PROVE  UNCHANGED <<rumors, processed>>
    BY <1>8 DEF AddPeer, Unicast, StatusReport
<1>9. CASE UNCHANGED vars
    BY <1>1, <1>9 DEF vars
<1> QED
    BY <1>1, <1>2, <1>6, <1>7, <1>8, <1>9 DEF Next

\* The Messager implements the broadcast service: other nodes get the messages of
\* an origin in order and at most once, the origin its own ones at most once.
THEOREM Refinement == Spec => ImplementsFifoBroadcast
<1>1. Init => Service!Init
    BY DEF Init, Service!Init
<1> QED
    BY <1>1, NextRefines, Invariance, PTL DEF Spec, ImplementsFifoBroadcast, Service!Spec
=============================================================================
