------------------------------- MODULE Paxos -------------------------------
(***************************************************************************)
(* One step of MultiPaxos, peer/impl/consensus.go: propose, the callbacks  *)
(* of acceptor and proposer, the learnerRoutine, and the end of the step   *)
(* when enough TLC messages have come in.                                  *)
(*                                                                         *)
(* Threads: one per Propose call (named by the value it proposes), the     *)
(* learner of each node, and the callbacks, which run in the listener or,  *)
(* for a node's own broadcasts, in goroutines.  An action is a section     *)
(* under the lock mu with the broadcast that follows it, or a select on a  *)
(* channel.  Messages travel by Broadcast as FifoBroadcast specifies it:   *)
(* those of another node in order, a node's own in any order.              *)
(***************************************************************************)
EXTENDS Naturals, Sequences, FiniteSets, Bags

CONSTANTS
    Node,          \* peers
    Value,         \* values, each proposed by one Propose call
    NoValue,       \* no value (a nil AcceptedValue)
    Home,          \* Home[v]: the node whose Propose call has v
    PaxosID,       \* PaxosID[n]: first proposal ID of n
    Threshold,     \* PaxosThreshold(TotalPeers)
    MaxRetry       \* bound: MaxRetry[n] timeouts of n

TotalPeers == Cardinality(Node)

ASSUME PaxosAssumption ==
    /\ IsFiniteSet(Node)
    /\ NoValue \notin Value
    /\ Home \in [Value -> Node]
    /\ PaxosID \in [Node -> 1..TotalPeers]
    /\ \A m, n \in Node : PaxosID[m] = PaxosID[n] => m = n
    /\ Threshold \in 1..TotalPeers
    /\ 2 * Threshold > TotalPeers
    /\ MaxRetry \in [Node -> Nat]

VARIABLES
    queue,         \* queue[o][n]: broadcasts of o that n has not processed
    own,           \* own[n]: own broadcasts that n has not processed, a bag
    maxID,         \* proposalMaxID, of the acceptor
    accepted,      \* acceptedID and acceptedValue, of the acceptor
    proposalID,    \* proposalID, of the proposer
    phase,         \* phase of the proposer
    thread,        \* thread[v]: the Propose call for v
    promiseCh,     \* channel of the step from PaxosPromiseCallback to propose
    blocked,       \* blocked[n]: promises a callback waits to send, holding mu
    acceptCh,      \* channel from PaxosAcceptCallback to the learner
    accepts,       \* accepts[n][v]: accepts of v counted by the learner
    learned,       \* learned[n]: value the learner broadcasts a TLC message for
    signal,        \* signal[n]: learnerSignalPropose holds a value
    tlcs,          \* tlcs[n]: values of the TLC messages received by n
    left           \* nodes that have advanced to the next step

net == <<queue, own>>
acceptor == <<maxID, accepted>>
proposer == <<proposalID, phase, thread>>
promises == <<promiseCh, blocked>>
learner == <<acceptCh, accepts, learned, signal>>
clock == <<tlcs, left>>
vars == <<net, acceptor, proposer, promises, learner, clock>>

Accepted == [id : Nat, val : Value \cup {NoValue}]
NotAccepted == [id |-> 0, val |-> NoValue]

Prepare == [type : {"prepare"}, id : Nat, src : Node]
Promise == [type : {"promise"}, id : Nat, accepted : Accepted]
Proposal == [type : {"propose"}, id : Nat, val : Value]
Accept == [type : {"accept"}, id : Nat, val : Value]
TLCMessage == [type : {"tlc"}, val : Value]
Message == Prepare \cup Promise \cup Proposal \cup Accept \cup TLCMessage

\* i: turns of the loop that collects promises; timer: the timer of the phase is
\* running; best: highestAcceptID and proposedValue; depth: calls of propose that
\* have yet to return.
Thread == [pc : {"idle", "phase1", "collect", "timeout1", "phase2", "listen", "wait",
                 "timeout2", "return", "done"},
           i : 0..Threshold, timer : BOOLEAN, promised : BOOLEAN,
           best : Accepted, depth : Nat]

\* propose(v, step) is called: no promise is known.
Called(v, pc, depth) ==
    [pc |-> pc, i |-> 0, timer |-> FALSE, promised |-> FALSE,
     best |-> [id |-> 0, val |-> v], depth |-> depth]

Init ==
    /\ queue = [o \in Node |-> [n \in Node |-> <<>>]]
    /\ own = [n \in Node |-> EmptyBag]
    /\ maxID = [n \in Node |-> 0]
    /\ accepted = [n \in Node |-> NotAccepted]
    /\ proposalID = PaxosID
    /\ phase = [n \in Node |-> "none"]
    /\ thread = [v \in Value |-> Called(v, "idle", 0)]
    /\ promiseCh = [n \in Node |-> <<>>]
    /\ blocked = [n \in Node |-> {}]
    /\ acceptCh = [n \in Node |-> <<>>]
    /\ accepts = [n \in Node |-> [v \in Value |-> 0]]
    /\ learned = [n \in Node |-> NoValue]
    /\ signal = [n \in Node |-> FALSE]
    /\ tlcs = [n \in Node |-> <<>>]
    /\ left = {}

-----------------------------------------------------------------------------
(* Messages *)

\* n broadcasts m; the nodes outside dests ignore it.  q and w are the queues and
\* own messages after what n has just processed.
Post(q, w, n, dests, m) ==
    /\ queue' = [q EXCEPT ![n] = [d \in Node |->
                    IF d \in dests \ {n} THEN Append(@[d], m) ELSE @[d]]]
    /\ own' = [w EXCEPT ![n] = IF n \in dests THEN @ (+) SetToBag({m}) ELSE @]

Broadcast(n, m) == Post(queue, own, n, Node, m)

\* No callback holds mu while it waits for room in promiseCh.
Unlocked(n) == blocked[n] = {}

-----------------------------------------------------------------------------
(* Propose and propose *)

SetThread(v, t) == thread' = [thread EXCEPT ![v] = t]

\* Propose goes on only when no proposal of the node is under way.
Propose(v) ==
    LET n == Home[v] IN
    /\ thread[v].pc = "idle"
    /\ Unlocked(n)
    /\ n \notin left
    /\ phase[n] = "none"
    /\ phase' = [phase EXCEPT ![n] = "one"]
    /\ SetThread(v, Called(v, "phase1", 1))
    /\ UNCHANGED <<net, acceptor, proposalID, promises, learner, clock>>

\* The step is over: propose returns.
GiveUp(v) ==
    /\ Unlocked(Home[v])
    /\ Home[v] \in left
    /\ thread[v].pc \in {"phase1", "timeout1", "phase2", "listen", "timeout2"}
    /\ SetThread(v, Called(v, "return", thread[v].depth))
    /\ UNCHANGED <<net, acceptor, proposalID, phase, promises, learner, clock>>

\* A turn of phase one starts: prepare is broadcast, the timer started.
PhaseOne(v) ==
    LET n == Home[v] IN
    /\ thread[v].pc = "phase1"
    /\ Unlocked(n)
    /\ n \notin left
    /\ phase' = [phase EXCEPT ![n] = "one"]
    /\ Broadcast(n, [type |-> "prepare", id |-> proposalID[n], src |-> n])
    /\ SetThread(v, [thread[v] EXCEPT !.pc = "collect", !.i = 0, !.timer = TRUE,
                                      !.promised = TRUE])
    /\ UNCHANGED <<acceptor, proposalID, promises, learner, clock>>

\* Mutant of Turn: the loop stops one turn short.
TurnShort(t) ==
    LET done == t.i + 2 >= Threshold IN
    [t EXCEPT !.i = IF done THEN 0 ELSE @ + 1,
              !.timer = @ /\ ~done,
              !.pc = IF ~done THEN "collect" ELSE IF t.promised THEN "phase2" ELSE "phase1"]

\* The loop turns; after Threshold turns phase two follows, or phase one again.
Turn(t) ==
    LET done == t.i + 1 = Threshold IN
    [t EXCEPT !.i = IF done THEN 0 ELSE @ + 1,
              !.timer = @ /\ ~done,
              !.pc = IF ~done THEN "collect" ELSE IF t.promised THEN "phase2" ELSE "phase1"]

\* Mutant of CollectPromise: the accepted value of a promise is not adopted.
CollectPromiseBlind(v) ==
    LET n == Home[v] IN
    /\ thread[v].pc = "collect"
    /\ promiseCh[n] # <<>>
    /\ promiseCh' = [promiseCh EXCEPT ![n] = Tail(@)]
    /\ SetThread(v, Turn(thread[v]))
    /\ UNCHANGED <<net, acceptor, proposalID, phase, blocked, learner, clock>>

\* A promise is taken from the channel, whatever its ID; a blocked callback then
\* sends its own and releases mu.
CollectPromise(v) ==
    LET n == Home[v]
        p == Head(promiseCh[n]).accepted
    IN
    /\ thread[v].pc = "collect"
    /\ promiseCh[n] # <<>>
    /\ \/ blocked[n] = {} /\ promiseCh' = [promiseCh EXCEPT ![n] = Tail(@)]
       \/ \E m \in blocked[n] : promiseCh' = [promiseCh EXCEPT ![n] = Append(Tail(@), m)]
    /\ blocked' = [blocked EXCEPT ![n] = {}]
    /\ SetThread(v, Turn([thread[v] EXCEPT !.best = IF p.id > @.id THEN p ELSE @]))
    /\ UNCHANGED <<net, acceptor, proposalID, phase, learner, clock>>

Retries(n) == (proposalID[n] - PaxosID[n]) \div TotalPeers

\* The timer of a phase fires, once.  Every later ID is bounded.
Timeout(v) ==
    LET t == thread[v] IN
    /\ t.pc \in {"collect", "wait"}
    /\ t.timer
    /\ Home[v] \in left \/ Retries(Home[v]) < MaxRetry[Home[v]]
    /\ SetThread(v, [t EXCEPT !.pc = IF @ = "wait" THEN "timeout2" ELSE "timeout1",
                              !.timer = FALSE])
    /\ UNCHANGED <<net, acceptor, proposalID, phase, promises, learner, clock>>

\* Mutant of NextID: after a timeout of phase two propose returns.
NextIDGiveUp(v) ==
    LET n == Home[v]
        t == thread[v]
    IN
    /\ t.pc \in {"timeout1", "timeout2"}
    /\ Unlocked(n)
    /\ n \notin left
    /\ proposalID' = [proposalID EXCEPT ![n] = @ + TotalPeers]
    /\ SetThread(v, IF t.pc = "timeout1" THEN Turn([t EXCEPT !.promised = FALSE])
                                         ELSE Called(v, "return", t.depth))
    /\ UNCHANGED <<net, acceptor, phase, promises, learner, clock>>

\* Phase one has timed out: the next ID, and on with the loop.  Phase two has timed
\* out: the next ID, and propose calls itself.
NextID(v) ==
    LET n == Home[v]
        t == thread[v]
    IN
    /\ t.pc \in {"timeout1", "timeout2"}
    /\ Unlocked(n)
    /\ n \notin left
    /\ proposalID' = [proposalID EXCEPT ![n] = @ + TotalPeers]
    /\ SetThread(v, IF t.pc = "timeout1" THEN Turn([t EXCEPT !.promised = FALSE])
                                         ELSE Called(v, "phase1", t.depth + 1))
    /\ UNCHANGED <<net, acceptor, phase, promises, learner, clock>>

\* Phase two: the proposal is broadcast, the timer started.
PhaseTwo(v) ==
    LET n == Home[v] IN
    /\ thread[v].pc = "phase2"
    /\ Unlocked(n)
    /\ n \notin left
    /\ phase' = [phase EXCEPT ![n] = "two"]
    /\ Broadcast(n, [type |-> "propose", id |-> proposalID[n], val |-> thread[v].best.val])
    /\ SetThread(v, [thread[v] EXCEPT !.pc = "listen", !.timer = TRUE])
    /\ UNCHANGED <<acceptor, proposalID, promises, learner, clock>>

\* The signal channel of the step is looked up.
Listen(v) ==
    /\ thread[v].pc = "listen"
    /\ Unlocked(Home[v])
    /\ Home[v] \notin left
    /\ SetThread(v, [thread[v] EXCEPT !.pc = "wait"])
    /\ UNCHANGED <<net, acceptor, proposalID, phase, promises, learner, clock>>

\* The learner has reached consensus.
Signalled(v) ==
    /\ thread[v].pc = "wait"
    /\ signal[Home[v]]
    /\ signal' = [signal EXCEPT ![Home[v]] = FALSE]
    /\ SetThread(v, Called(v, "return", thread[v].depth))
    /\ UNCHANGED <<net, acceptor, proposalID, phase, promises, acceptCh, accepts,
                   learned, clock>>

\* Mutant of Return: the deferred function leaves the phase as it is.
ReturnKeepsPhase(v) ==
    LET t == thread[v] IN
    /\ t.pc = "return"
    /\ Unlocked(Home[v])
    /\ SetThread(v, [t EXCEPT !.pc = IF t.depth = 1 THEN "done" ELSE @, !.depth = @ - 1])
    /\ UNCHANGED <<net, acceptor, proposalID, phase, promises, learner, clock>>

\* Each call of propose, on return, ends the proposal of the node.
Return(v) ==
    LET n == Home[v]
        t == thread[v]
    IN
    /\ t.pc = "return"
    /\ Unlocked(n)
    /\ phase' = [phase EXCEPT ![n] = IF n \in left THEN @ ELSE "none"]
    /\ SetThread(v, [t EXCEPT !.pc = IF t.depth = 1 THEN "done" ELSE @, !.depth = @ - 1])
    /\ UNCHANGED <<net, acceptor, proposalID, promises, learner, clock>>

-----------------------------------------------------------------------------
(* Callbacks: n processes m, after which the messages in flight are q and w *)

PaxosPrepareCallback(n, m, q, w) ==
    /\ m.type = "prepare"
    /\ n \notin left
    /\ m.id > maxID[n]
    /\ maxID' = [maxID EXCEPT ![n] = m.id]
    /\ Post(q, w, n, {m.src}, [type |-> "promise", id |-> m.id, accepted |-> accepted[n]])
    /\ UNCHANGED <<accepted, proposer, promises, learner, clock>>

PaxosProposeCallback(n, m, q, w) ==
    /\ m.type = "propose"
    /\ n \notin left
    /\ m.id = maxID[n]
    /\ accepted' = [accepted EXCEPT ![n] = [id |-> m.id, val |-> m.val]]
    /\ Post(q, w, n, Node, [type |-> "accept", id |-> m.id, val |-> m.val])
    /\ UNCHANGED <<maxID, proposer, promises, learner, clock>>

\* The promise goes to the proposer, or the callback waits for room with mu held.
PaxosPromiseCallback(n, m, q, w) ==
    /\ m.type = "promise"
    /\ n \notin left
    /\ phase[n] = "one"
    /\ queue' = q /\ own' = w
    /\ IF Len(promiseCh[n]) < TotalPeers
       THEN /\ promiseCh' = [promiseCh EXCEPT ![n] = Append(@, m)]
            /\ UNCHANGED blocked
       ELSE /\ blocked' = [blocked EXCEPT ![n] = {m}]
            /\ UNCHANGED promiseCh
    /\ UNCHANGED <<acceptor, proposer, learner, clock>>

\* Mutant of PaxosAcceptCallback: the learner goes on after it has learned a value.
PaxosAcceptCallbackForever(n, m, q, w) ==
    /\ m.type = "accept"
    /\ n \notin left
    /\ Len(acceptCh[n]) < TotalPeers
    /\ queue' = q /\ own' = w
    /\ acceptCh' = [acceptCh EXCEPT ![n] = Append(@, m)]
    /\ UNCHANGED <<acceptor, proposer, promises, accepts, learned, signal, clock>>

\* The accept goes to the learner if there is room; a learner that has learned a
\* value reads no more.
PaxosAcceptCallback(n, m, q, w) ==
    /\ m.type = "accept"
    /\ n \notin left
    /\ learned[n] = NoValue
    /\ Len(acceptCh[n]) < TotalPeers
    /\ queue' = q /\ own' = w
    /\ acceptCh' = [acceptCh EXCEPT ![n] = Append(@, m)]
    /\ UNCHANGED <<acceptor, proposer, promises, accepts, learned, signal, clock>>

TLCCallback(n, m, q, w) ==
    /\ m.type = "tlc"
    /\ n \notin left
    /\ queue' = q /\ own' = w
    /\ tlcs' = [tlcs EXCEPT ![n] = Append(@, m.val)]
    /\ UNCHANGED <<acceptor, proposer, promises, learner, left>>

\* A callback that does nothing.
Ignore(n, m, q, w) ==
    /\ \/ n \in left
       \/ m.type = "prepare" /\ m.id <= maxID[n]
       \/ m.type = "propose" /\ m.id # maxID[n]
       \/ m.type = "promise" /\ phase[n] # "one"
       \/ m.type = "accept" /\ (learned[n] # NoValue \/ Len(acceptCh[n]) = TotalPeers)
    /\ queue' = q /\ own' = w
    /\ UNCHANGED <<acceptor, proposer, promises, learner, clock>>

Callback(n, m, q, w) ==
    \/ PaxosPrepareCallback(n, m, q, w)
    \/ PaxosProposeCallback(n, m, q, w)
    \/ PaxosPromiseCallback(n, m, q, w)
    \/ PaxosAcceptCallback(n, m, q, w)
    \/ TLCCallback(n, m, q, w)
    \/ Ignore(n, m, q, w)

\* The next message of another node, or any message of n itself, is processed.
Deliver(n, o) ==
    /\ Unlocked(n)
    /\ queue[o][n] # <<>>
    /\ Callback(n, Head(queue[o][n]), [queue EXCEPT ![o][n] = Tail(@)], own)

DeliverOwn(n) ==
    /\ Unlocked(n)
    /\ \E m \in BagToSet(own[n]) :
          Callback(n, m, queue, [own EXCEPT ![n] = @ (-) SetToBag({m})])

-----------------------------------------------------------------------------
(* Learner and clock *)

\* learnerRoutine takes an accept; with enough of them for one value it signals
\* the proposer, if in phase two, and broadcasts a TLC message.
Learn(n) ==
    LET val == Head(acceptCh[n]).val
        count == accepts[n][val] + 1
    IN
    /\ acceptCh[n] # <<>>
    /\ accepts' = [accepts EXCEPT ![n][val] = count]
    /\ IF count < Threshold
       THEN /\ acceptCh' = [acceptCh EXCEPT ![n] = Tail(@)]
            /\ UNCHANGED <<net, learned, signal>>
       ELSE /\ acceptCh' = [acceptCh EXCEPT ![n] = <<>>]
            /\ learned' = [learned EXCEPT ![n] = val]
            /\ signal' = [signal EXCEPT ![n] = phase[n] = "two"]
            /\ Broadcast(n, [type |-> "tlc", val |-> val])
    /\ UNCHANGED <<acceptor, proposer, promises, clock>>

\* tlcDaemon has collected enough TLC messages of the step.
TLCReached(n) == Len(tlcs[n]) >= Threshold

\* Mutant of AdvanceClock: more than Threshold TLC messages are asked for.
AdvanceClockLate(n) ==
    /\ Unlocked(n)
    /\ n \notin left
    /\ Len(tlcs[n]) > Threshold
    /\ left' = left \cup {n}
    /\ UNCHANGED <<net, acceptor, proposer, promises, learner, tlcs>>

\* advanceClockAsStep, which tlcDaemon calls; the channel of promises that a running
\* propose call holds stays as it is.
AdvanceClock(n) ==
    /\ Unlocked(n)
    /\ n \notin left
    /\ TLCReached(n)
    /\ left' = left \cup {n}
    /\ proposalID' = [proposalID EXCEPT ![n] = PaxosID[n]]
    /\ maxID' = [maxID EXCEPT ![n] = 0]
    /\ accepted' = [accepted EXCEPT ![n] = NotAccepted]
    /\ acceptCh' = [acceptCh EXCEPT ![n] = <<>>]
    /\ phase' = [phase EXCEPT ![n] = "none"]
    /\ UNCHANGED <<net, thread, promises, accepts, learned, signal, tlcs>>

-----------------------------------------------------------------------------
\* The steps of propose that do not wait for a timer.
Running(v) ==
    \/ GiveUp(v) \/ PhaseOne(v) \/ CollectPromise(v) \/ NextID(v) \/ PhaseTwo(v)
    \/ Listen(v) \/ Signalled(v) \/ Return(v)

Next ==
    \/ \E v \in Value : Propose(v) \/ Timeout(v) \/ Running(v)
    \/ \E n, o \in Node : Deliver(n, o)
    \/ \E n \in Node : DeliverOwn(n) \/ Learn(n) \/ AdvanceClock(n)

Spec == Init /\ [][Next]_vars

\* Goroutines and the listener are scheduled, and every broadcast arrives; that a
\* timer fires, or that Propose is called, is not assumed.
Fairness ==
    /\ \A v \in Value : WF_vars(Running(v))
    /\ \A n, o \in Node : WF_vars(Deliver(n, o))
    /\ \A n \in Node : WF_vars(DeliverOwn(n)) /\ WF_vars(Learn(n)) /\ WF_vars(AdvanceClock(n))

FairSpec == Spec /\ Fairness

-----------------------------------------------------------------------------
(* Properties *)

\* Type invariant of MultiPaxos for one step: the channels hold at most TotalPeers
\* messages, one callback at a time waits with mu held, and a learner counts no
\* value beyond the threshold.
TypeOK ==
    /\ queue \in [Node -> [Node -> Seq(Message)]]
    /\ \A n \in Node : BagToSet(own[n]) \subseteq Message
    /\ maxID \in [Node -> Nat]
    /\ accepted \in [Node -> Accepted]
    /\ proposalID \in [Node -> Nat]
    /\ phase \in [Node -> {"none", "one", "two"}]
    /\ thread \in [Value -> Thread]
    /\ promiseCh \in [Node -> Seq(Promise)]
    /\ \A n \in Node : Len(promiseCh[n]) <= TotalPeers
    /\ blocked \in [Node -> SUBSET Promise]
    /\ \A n \in Node : Cardinality(blocked[n]) <= 1
    /\ acceptCh \in [Node -> Seq(Accept)]
    /\ \A n \in Node : Len(acceptCh[n]) <= TotalPeers
    /\ accepts \in [Node -> [Value -> 0..Threshold]]
    /\ learned \in [Node -> Value \cup {NoValue}]
    /\ signal \in [Node -> BOOLEAN]
    /\ tlcs \in [Node -> Seq(Value)]
    /\ left \subseteq Node

\* No two learners broadcast TLC messages (onConsensusReachAtStep) for different
\* values of the step.
Agreement ==
    \A m, n \in Node : learned[m] # NoValue /\ learned[n] # NoValue => learned[m] = learned[n]

\* What propose counts on when phase one is over: "majority of the nodes promise that
\* they will not accept proposal with ID smaller than this.proposalID".  A node that
\* has advanced accepts nothing more of the step.
PromisedQuorum ==
    \A v \in Value :
        LET n == Home[v] IN
        thread[v].pc = "phase2" /\ n \notin left =>
            Cardinality({m \in Node : m \in left \/ maxID[m] >= proposalID[n]}) >= Threshold

\* A Propose call returns only when its node has learned a value or has advanced,
\* whatever timeouts and calls of propose by itself came before.
ReturnsWithConsensus ==
    \A v \in Value : thread[v].pc \in {"return", "done"} =>
        Home[v] \in left \/ learned[Home[v]] # NoValue

\* A node is in a phase only as long as one of its propose calls runs: what makes
\* Propose answer ErrOnProposing ends, also when propose has called itself.
PhaseIsOwned ==
    \A n \in Node : phase[n] # "none" =>
        \E v \in Value : Home[v] = n /\ thread[v].pc \notin {"idle", "done"}

\* A value is learned only when Threshold peers have accepted it: the "threshold of
\* peers needed to have a consensus" of Configuration.PaxosThreshold.
LearnedByMajority ==
    \A n \in Node : learned[n] # NoValue =>
        Cardinality({m \in Node : m \in left \/ accepted[m].val = learned[n]}) >= Threshold

\* A proposer that needs mu is never kept from it by a PaxosPromiseCallback that
\* waits, with mu held, for this proposer to make room in promiseCh.
NoLockCycle ==
    \A v \in Value : thread[v].pc \in {"phase1", "timeout1", "phase2"} => Unlocked(Home[v])

\* Without timeouts, once a proposal is under way every node advances to the next
\* step, whatever rival proposals there are.
EveryNodeAdvances == (\E v \in Value : thread[v].pc # "idle") ~> left = Node
=============================================================================
