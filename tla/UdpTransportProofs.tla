-------------------------- MODULE UdpTransportProofs --------------------------
(***************************************************************************)
(* UdpClient implements Transport, for every set of threads, bound, delay  *)
(* and combination of faults: its initial states are Transport's, and each *)
(* of its steps is a step of Transport or changes nothing it shows.        *)
(***************************************************************************)
EXTENDS UdpTransport, UdpClientProofs

\* A call has no answer until a reply is taken from the buffer.
AnswerInv == \A t \in Threads : pc[t] \notin {"idle", "receiveStats"} => answer[t] = {}

RInv == IInv /\ AnswerInv

USE DEF sock, mutexes, network, local, vars, Goto, Return, ReturnUnlocked, Finish, Count

LEMMA AnswerStep ==
    ASSUME IInv, AnswerInv, Next
    PROVE  AnswerInv'
<1> USE DEF AnswerInv
<1>1. ASSUME NEW t \in Threads, Start(t)
      PROVE  AnswerInv'
  BY <1>1 DEF Start, IInv, TypeOK
<1>2. ASSUME NEW t \in Threads, Receive(t)
      PROVE  AnswerInv'
  BY <1>2 DEF Receive, IInv, TypeOK
<1>3. ASSUME NEW t \in Threads, SendStats(t) \/ ReceiveStats(t)
      PROVE  AnswerInv'
  <2>1. pc \in [Threads -> Labels]
    BY DEF IInv, TypeOK
  <2>2. CASE SendStats(t)
    BY <2>1, <2>2 DEF SendStats
  <2>3. CASE ReceiveStats(t)
    BY <2>1, <2>3 DEF ReceiveStats
  <2> QED  BY <1>3, <2>2, <2>3
<1>4. ASSUME NEW t \in Threads, LockReceive(t)
      PROVE  AnswerInv'
  <2>1. pc[t] = "lockReceive" /\ answer' = answer
    BY <1>4 DEF LockReceive
  <2>2. ASSUME NEW u \in Threads, u # t PROVE pc'[u] = pc[u]
    BY <1>4, <2>2 DEF LockReceive, IInv, TypeOK
  <2> QED  BY <2>1, <2>2
<1>5. ASSUME NEW t \in Threads, LockSend(t) \/ AlreadyConnected(t) \/ OpenSocket(t)
                                \/ Connected(t) \/ CloseSocket(t) \/ Disconnected(t)
      PROVE  AnswerInv'
  BY <1>5 DEF LockSend, AlreadyConnected, OpenSocket, Connected, CloseSocket, Disconnected, IInv, TypeOK
<1>6. ASSUME NEW t \in Threads, SendCheck(t) \/ Transmit(t) \/ ReceiveCheck(t) \/ Expire(t) \/ Reset(t)
      PROVE  AnswerInv'
  BY <1>6 DEF SendCheck, Transmit, ReceiveCheck, Expire, Reset, IInv, TypeOK
<1>7. ASSUME NEW t \in Threads, Fail(t)
      PROVE  AnswerInv'
  BY <1>7 DEF Fail, SocketFails, SetupFails, SendFails, ReceiveFails, IInv, TypeOK
<1>8. ASSUME NEW r \in wire, Deliver(r) \/ Lose(r)
      PROVE  AnswerInv'
  BY <1>8 DEF Deliver, Lose
<1> HIDE DEF AnswerInv
<1> QED  BY <1>1, <1>2, <1>3, <1>4, <1>5, <1>6, <1>7, <1>8 DEF Next, Proceed

LEMMA RInvariance == Spec => []RInv
<1>1. Init => AnswerInv
  BY DEF Init, AnswerInv
<1>2. RInv /\ [Next]_vars => AnswerInv'
  <2>1. RInv /\ UNCHANGED vars => AnswerInv'
    BY DEF AnswerInv, RInv
  <2> QED  BY <2>1, AnswerStep DEF RInv
<1>3. RInv <=> IInv /\ AnswerInv
  BY DEF RInv
<1> HIDE DEF vars
<1> QED  BY Invariance, <1>1, <1>2, <1>3, PTL DEF Spec

-----------------------------------------------------------------------------
(***************************************************************************)
(* The buffer.                                                             *)
(***************************************************************************)
\* What is buffered, by its place in the queue.
LEMMA InBuffer ==
    ASSUME NEW r
    PROVE  r \in Buffered <=> \E i \in 1..Len(queue) : queue[i].mark = "intact" /\ queue[i].reply_to = r
  BY DEF Buffered

\* An empty buffer holds no reply.
LEMMA EmptyBuffer ==
    ASSUME queue' = <<>>
    PROVE  Buffered' = {}
  BY DEF Buffered

\* Without its head, the buffer holds what it held or all but the head's reply.
LEMMA WithoutHead ==
    ASSUME queue \in Seq(Datagram), queue # <<>>, queue' = Tail(queue)
    PROVE  Buffered = Buffered' \cup Deserialized(Head(queue))
<1>1. Len(queue') = Len(queue) - 1 /\ \A i \in 1..Len(queue') : queue'[i] = queue[i + 1]
  OBVIOUS
<1>2. ASSUME NEW r \in Buffered PROVE r \in Buffered' \cup Deserialized(Head(queue))
  <2>1. PICK i \in 1..Len(queue) : queue[i].mark = "intact" /\ queue[i].reply_to = r
    BY <1>2, InBuffer
  <2>2. CASE i = 1
    BY <2>1, <2>2 DEF Deserialized
  <2>3. CASE i # 1
    <3>1. i - 1 \in 1..Len(queue') /\ queue'[i - 1] = queue[i]
      BY <1>1, <2>3
    <3> QED  BY <3>1, <2>1 DEF Buffered
  <2> QED  BY <2>2, <2>3
<1>3. ASSUME NEW r \in Buffered' PROVE r \in Buffered
  <2>1. PICK i \in 1..Len(queue') : queue'[i].mark = "intact" /\ queue'[i].reply_to = r
    BY <1>3 DEF Buffered
  <2>2. i + 1 \in 1..Len(queue) /\ queue'[i] = queue[i + 1]
    BY <1>1
  <2> QED  BY <2>1, <2>2, InBuffer
<1>4. Deserialized(Head(queue)) \subseteq Buffered
  <2>1. 1 \in 1..Len(queue) /\ Head(queue) = queue[1]
    OBVIOUS
  <2> QED  BY <2>1 DEF Deserialized, Buffered
<1> QED  BY <1>2, <1>3, <1>4

\* A datagram that arrives adds at most the reply it carries.
LEMMA WithOneMore ==
    ASSUME NEW d \in Datagram, queue \in Seq(Datagram), queue' = Append(queue, d)
    PROVE  Buffered' \subseteq Buffered \cup {d.reply_to}
<1> SUFFICES ASSUME NEW r \in Buffered' PROVE r \in Buffered \cup {d.reply_to}
  OBVIOUS
<1>1. PICK i \in 1..Len(queue') : queue'[i].mark = "intact" /\ queue'[i].reply_to = r
  BY DEF Buffered
<1>2. CASE i = Len(queue) + 1
  BY <1>1, <1>2
<1>3. CASE i # Len(queue) + 1
  <2>1. i \in 1..Len(queue) /\ queue'[i] = queue[i]
    BY <1>3
  <2> QED  BY <1>1, <2>1 DEF Buffered
<1> QED  BY <1>2, <1>3

-----------------------------------------------------------------------------
(***************************************************************************)
(* The steps.  Each leaves a thread in a phase, and the abstract step      *)
(* follows from the phases before and after.                               *)
(***************************************************************************)
Phases == [t \in Threads |-> Phase(t)]

\* A thread's step changes no other's phase.
LEMMA OnePhase ==
    ASSUME NEW t \in Threads,
           \A u \in Threads \ {t} : pc'[u] = pc[u] /\ op'[u] = op[u] /\ outcome'[u] = outcome[u]
    PROVE  Phases' = [Phases EXCEPT ![t] = Phase(t)']
<1>1. \A u \in Threads \ {t} : Phase(u)' = Phase(u)
  BY DEF Phase, AfterSend
<1> QED  BY <1>1 DEF Phases

\* A thread that keeps its phase keeps them all.
LEMMA SamePhase ==
    ASSUME NEW t \in Threads, Phase(t)' = Phase(t),
           \A u \in Threads \ {t} : pc'[u] = pc[u] /\ op'[u] = op[u] /\ outcome'[u] = outcome[u]
    PROVE  Phases' = Phases
<1>1. Phases' = [Phases EXCEPT ![t] = Phase(t)']
  BY OnePhase
<1> QED  BY <1>1 DEF Phases

Still == UNCHANGED <<connected, wire, queue, calls, answer>>

\* A step that keeps the phases, the link and the network shows nothing.
LEMMA Stutter ==
    ASSUME Phases' = Phases, Still
    PROVE  UNCHANGED Abstract!tvars
<1>1. Buffered' = Buffered
  BY DEF Still, Buffered
<1> QED  BY <1>1 DEF Still, Phases, Abstract!tvars

\* A call that is over without a reply gives up.
LEMMA GivesUp ==
    ASSUME NEW t \in Threads, Phase(t) # "idle", Phase(t)' = "idle", Still,
           \A u \in Threads \ {t} : pc'[u] = pc[u] /\ op'[u] = op[u] /\ outcome'[u] = outcome[u]
    PROVE  Abstract!TNext
<1>1. Phases' = [Phases EXCEPT ![t] = "idle"]
  BY OnePhase
<1>2. Buffered' = Buffered
  BY DEF Still, Buffered
<1>3. Abstract!GiveUp(t)
  BY <1>1, <1>2 DEF Still, Phases, Abstract!GiveUp
<1> QED  BY <1>3 DEF Abstract!TNext

\* A step that loses replies and does nothing else.
LEMMA Forgets ==
    ASSUME wire' \cup Buffered' \subseteq wire \cup Buffered, Phases' = Phases,
           UNCHANGED <<connected, calls, answer>>
    PROVE  Abstract!TNext
<1>1. Abstract!Forget
  BY DEF Phases, Abstract!Forget
<1> QED  BY <1>1 DEF Abstract!TNext

\* A step that changes connected_ and does nothing else.
LEMMA SetsLink ==
    ASSUME connected' = ~connected, Phases' = Phases, UNCHANGED <<wire, queue, calls, answer>>
    PROVE  Abstract!TNext
<1>1. Buffered' = Buffered
  BY DEF Buffered
<1>2. Abstract!SetLink
  BY <1>1 DEF Phases, Abstract!SetLink
<1> QED  BY <1>2 DEF Abstract!TNext

LEMMA StartStep ==
    ASSUME RInv, NEW t \in Threads, Start(t)
    PROVE  Abstract!TNext
<1> USE DEF RInv, IInv, TypeOK
<1>1. PICK o \in Ops : op' = [op EXCEPT ![t] = o] /\ pc' = [pc EXCEPT ![t] = FirstStep(o)]
  BY DEF Start
<1>2. Phase(t) = "idle"
  BY DEF Start, Phase
<1>3. Phase(t)' \in {"idle", "asking", "awaiting"}
  BY DEF Phase
<1>4. Phases' = [Phases EXCEPT ![t] = Phase(t)']
  BY <1>1, OnePhase DEF Start
<1>5. Buffered' = Buffered
  BY DEF Start, Buffered
<1>6. Abstract!Begin(t)
  BY <1>2, <1>3, <1>4, <1>5 DEF Start, Phases, Abstract!Begin
<1> QED  BY <1>6 DEF Abstract!TNext

LEMMA LockStep ==
    ASSUME RInv, NEW t \in Threads, LockSend(t) \/ LockReceive(t)
    PROVE  UNCHANGED Abstract!tvars
<1> USE DEF RInv, IInv, TypeOK
<1>1. Phase(t)' = Phase(t)
  BY DEF LockSend, LockReceive, Phase, BothLocks
<1>2. Phases' = Phases
  BY <1>1, SamePhase DEF LockSend, LockReceive
<1> QED  BY <1>2, Stutter DEF Still, LockSend, LockReceive

\* connect(), up to the assignment of connected_.
LEMMA ConnectStep ==
    ASSUME RInv, NEW t \in Threads,
           AlreadyConnected(t) \/ OpenSocket(t) \/ SocketFails(t) \/ SetupFails(t) \/ Connected(t)
    PROVE  [Abstract!TNext]_Abstract!tvars
<1> USE DEF RInv, IInv, TypeOK
<1>1. Phase(t) = "idle" /\ Phase(t)' = "idle"
  BY DEF AlreadyConnected, OpenSocket, SocketFails, SetupFails, Connected, Phase
<1>2. Phases' = Phases
  BY <1>1, SamePhase DEF AlreadyConnected, OpenSocket, SocketFails, SetupFails, Connected
<1>3. CASE AlreadyConnected(t) \/ OpenSocket(t) \/ SocketFails(t)
  BY <1>2, <1>3, Stutter DEF Still, AlreadyConnected, OpenSocket, SocketFails
<1>4. CASE SetupFails(t)
  <2>1. Buffered' = {}
    BY <1>4, EmptyBuffer DEF SetupFails, Close
  <2> QED  BY <1>2, <1>4, <2>1, Forgets DEF SetupFails
<1>5. CASE Connected(t)
  <2>1. connected' = ~connected
    BY <1>5 DEF Connected, SocketInv
  <2> QED  BY <1>2, <1>5, <2>1, SetsLink DEF Connected
<1> QED  BY <1>3, <1>4, <1>5

LEMMA DisconnectStep ==
    ASSUME RInv, NEW t \in Threads, CloseSocket(t) \/ Disconnected(t)
    PROVE  [Abstract!TNext]_Abstract!tvars
<1> USE DEF RInv, IInv, TypeOK
<1>1. Phase(t) = "idle" /\ Phase(t)' = "idle"
  BY DEF CloseSocket, Disconnected, Phase
<1>2. Phases' = Phases
  BY <1>1, SamePhase DEF CloseSocket, Disconnected
<1>3. CASE CloseSocket(t)
  <2>1. queue' = queue \/ queue' = <<>>
    BY <1>3 DEF CloseSocket, Close
  <2>2. Buffered' \subseteq Buffered
    BY <2>1, EmptyBuffer DEF Buffered
  <2> QED  BY <1>2, <1>3, <2>2, Forgets DEF CloseSocket
<1>4. CASE Disconnected(t) /\ connected
  BY <1>2, <1>4, SetsLink DEF Disconnected
<1>5. CASE Disconnected(t) /\ ~connected
  BY <1>2, <1>5, Stutter DEF Still, Disconnected
<1> QED  BY <1>3, <1>4, <1>5

LEMMA SendStep ==
    ASSUME RInv, NEW t \in Threads,
           SendCheck(t) \/ Transmit(t) \/ SendFails(t) \/ SendStats(t)
    PROVE  [Abstract!TNext]_Abstract!tvars
<1> USE DEF RInv, IInv, TypeOK
<1>1. \A u \in Threads \ {t} : pc'[u] = pc[u] /\ op'[u] = op[u] /\ outcome'[u] = outcome[u]
  BY DEF SendCheck, Transmit, SendFails, SendStats
<1>2. ~BothLocks(op[t])
  BY DEF SendCheck, Transmit, SendFails, SendStats, MutexInv, SendSection
<1>3. CASE SendCheck(t) /\ connected
  <2>1. Phase(t)' = Phase(t)
    BY <1>2, <1>3 DEF SendCheck, Phase, BothLocks
  <2>2. Phases' = Phases
    BY <1>1, <2>1, SamePhase
  <2> QED  BY <1>3, <2>2, Stutter DEF Still, SendCheck
<1>4. CASE SendCheck(t) /\ ~connected
  <2>1. Phase(t) = "asking" /\ Phase(t)' = "idle"
    BY <1>2, <1>4 DEF SendCheck, Phase, AfterSend, Counters
  <2> QED  BY <1>1, <1>4, <2>1, GivesUp DEF Still, SendCheck
<1>5. CASE SendFails(t)
  <2>1. Phase(t) = "asking" /\ Phase(t)' = "idle"
    BY <1>2, <1>5 DEF SendFails, Phase, AfterSend, Counters
  <2> QED  BY <1>1, <1>5, <2>1, GivesUp DEF Still, SendFails
<1>6. CASE Transmit(t)
  <2>1. Phase(t) = "asking" /\ Phase(t)' \in {"idle", "awaiting"}
    BY <1>2, <1>6 DEF Transmit, Phase, AfterSend
  <2>2. Phases' = [Phases EXCEPT ![t] = Phase(t)']
    BY <1>1, OnePhase
  <2>3. connected
    BY <1>6 DEF Transmit, SocketInv
  <2>4. Buffered' = Buffered
    BY <1>6 DEF Transmit, Buffered
  <2>5. Abstract!Send(t)
    BY <1>6, <2>1, <2>2, <2>3, <2>4 DEF Transmit, Current, Phases, Abstract!Send
  <2> QED  BY <2>5 DEF Abstract!TNext
<1>7. CASE SendStats(t)
  <2>1. Phase(t)' = Phase(t)
    BY <1>2, <1>7 DEF SendStats, Phase, AfterSend, BothLocks
  <2>2. Phases' = Phases
    BY <1>1, <2>1, SamePhase
  <2> QED  BY <1>7, <2>2, Stutter DEF Still, SendStats
<1> QED  BY <1>3, <1>4, <1>5, <1>6, <1>7

LEMMA ReceiveStep ==
    ASSUME RInv, NEW t \in Threads, Receive(t)
    PROVE  Abstract!TNext
<1> USE DEF RInv, IInv, TypeOK
<1>1. ~BothLocks(op[t]) /\ connected /\ answer[t] = {}
  BY DEF Receive, MutexInv, ReceiveSection, SocketInv, AnswerInv
<1>2. Phase(t) = "awaiting" /\ Phase(t)' = "idle"
  BY <1>1 DEF Receive, Phase
<1>3. Phases' = [Phases EXCEPT ![t] = "idle"]
  BY <1>2, OnePhase DEF Receive
<1>4. Buffered = Buffered' \cup Deserialized(Head(queue))
  BY WithoutHead DEF Receive
<1>5. CASE Deserialized(Head(queue)) = {}
  <2>1. Buffered' = Buffered /\ answer' = answer
    BY <1>1, <1>4, <1>5 DEF Receive
  <2>2. Abstract!GiveUp(t)
    BY <1>2, <1>3, <2>1 DEF Receive, Phases, Abstract!GiveUp
  <2> QED  BY <2>2 DEF Abstract!TNext
<1>6. CASE Deserialized(Head(queue)) # {}
  <2>1. PICK r \in Buffered : Deserialized(Head(queue)) = {r}
    BY <1>4, <1>6 DEF Deserialized
  <2>2. answer' = [answer EXCEPT ![t] = {r}] /\ wire' = wire
    BY <2>1 DEF Receive
  <2>3. wire' \cup Buffered' \in {wire \cup Buffered, (wire \cup Buffered) \ {r}}
    <3>1. CASE r \in wire \cup Buffered'
      BY <1>4, <2>1, <2>2, <3>1
    <3>2. CASE r \notin wire \cup Buffered'
      BY <1>4, <2>1, <2>2, <3>2
    <3> QED  BY <3>1, <3>2
  <2>4. Abstract!Take(t)
    BY <1>1, <1>2, <1>3, <2>1, <2>2, <2>3 DEF Receive, Phases, Abstract!Take
  <2> QED  BY <2>4 DEF Abstract!TNext
<1> QED  BY <1>5, <1>6

LEMMA ListenStep ==
    ASSUME RInv, NEW t \in Threads,
           ReceiveCheck(t) \/ Expire(t) \/ ReceiveFails(t) \/ ReceiveStats(t) \/ Reset(t)
    PROVE  [Abstract!TNext]_Abstract!tvars
<1> USE DEF RInv, IInv, TypeOK
<1>1. \A u \in Threads \ {t} : pc'[u] = pc[u] /\ op'[u] = op[u] /\ outcome'[u] = outcome[u]
  BY DEF ReceiveCheck, Expire, ReceiveFails, ReceiveStats, Reset
<1>2. Still
  BY DEF Still, ReceiveCheck, Expire, ReceiveFails, ReceiveStats, Reset
<1>3. pc[t] \in ReceiveSection => ~BothLocks(op[t])
  BY DEF MutexInv
<1>4. CASE (ReceiveCheck(t) /\ connected) \/ ReceiveStats(t) \/ Reset(t)
  <2>1. Phase(t)' = Phase(t)
    BY <1>3, <1>4 DEF ReceiveCheck, ReceiveStats, Reset, Phase, ReceiveSection, BothLocks
  <2>2. Phases' = Phases
    BY <1>1, <2>1, SamePhase
  <2> QED  BY <1>2, <2>2, Stutter
<1>5. CASE (ReceiveCheck(t) /\ ~connected) \/ Expire(t) \/ ReceiveFails(t)
  <2>1. Phase(t) = "awaiting" /\ Phase(t)' = "idle"
    BY <1>3, <1>5 DEF ReceiveCheck, Expire, ReceiveFails, Phase, ReceiveSection
  <2> QED  BY <1>1, <1>2, <2>1, GivesUp
<1> QED  BY <1>4, <1>5

LEMMA NetworkStep ==
    ASSUME RInv, NEW r \in wire, Deliver(r) \/ Lose(r)
    PROVE  Abstract!TNext
<1> USE DEF RInv, IInv, TypeOK
<1>1. Phases' = Phases
  BY DEF Deliver, Lose, Phases, Phase, AfterSend
<1>2. wire' \subseteq wire
  BY DEF Deliver, Lose
<1>3. Buffered' \subseteq Buffered \cup {r}
  <2>1. CASE queue' = queue
    BY <2>1 DEF Buffered
  <2>2. CASE queue' # queue
    <3>1. PICK m \in Arrivals : queue' = Append(queue, [reply_to |-> r, mark |-> m])
      BY <2>2 DEF Deliver, Lose
    <3>2. [reply_to |-> r, mark |-> m] \in Datagram
      BY DEF Datagram, Arrivals, Marks
    <3> QED  BY <3>1, <3>2, WithOneMore
  <2> QED  BY <2>1, <2>2
<1>4. UNCHANGED <<connected, calls, answer>>
  BY DEF Deliver, Lose
<1> QED  BY <1>1, <1>2, <1>3, <1>4, Forgets

-----------------------------------------------------------------------------
\* UdpClient implements Transport: whatever the threads, the network and the
\* kernel do, a call ends with a reply that is pending or with none, no reply
\* comes out of nothing, and none over a closed link (udp_client.cpp:138-211).
THEOREM Refinement == Spec => TransportSpec
<1>1. Init => Abstract!TInit
  <2> SUFFICES ASSUME Init PROVE Abstract!TInit
    OBVIOUS
  <2>1. Buffered = {} /\ \A t \in Threads : Phase(t) = "idle"
    BY DEF Init, Buffered, Phase
  <2> QED  BY <2>1 DEF Init, Abstract!TInit
<1>2. RInv /\ [Next]_vars => [Abstract!TNext]_Abstract!tvars
  <2> SUFFICES ASSUME RInv, [Next]_vars PROVE [Abstract!TNext]_Abstract!tvars
    OBVIOUS
  <2>1. CASE UNCHANGED vars
    <3>1. Phases' = Phases /\ Still
      BY <2>1 DEF Phases, Phase, AfterSend, Still
    <3> QED  BY <3>1, Stutter
  <2>2. CASE \E r \in wire : Deliver(r) \/ Lose(r)
    BY <2>2, NetworkStep
  <2>3. ASSUME NEW t \in Threads, Start(t) \/ Proceed(t) \/ Fail(t)
        PROVE  [Abstract!TNext]_Abstract!tvars
    BY <2>3, StartStep, LockStep, ConnectStep, DisconnectStep, SendStep, ReceiveStep, ListenStep
       DEF Proceed, Fail
  <2> HIDE DEF vars, RInv
  <2> QED  BY <2>1, <2>2, <2>3 DEF Next
<1> HIDE DEF vars
<1> QED  BY <1>1, <1>2, RInvariance, PTL DEF Spec, TransportSpec, Abstract!TSpec
=============================================================================
