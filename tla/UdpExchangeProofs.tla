--------------------------- MODULE UdpExchangeProofs ---------------------------
(***************************************************************************)
(* What becomes of the exchanges: threads that exchange, connect and       *)
(* disconnect have each exchange counted once, however many they are; and  *)
(* one thread whose glove answers within the timeout gets the reply to the *)
(* request it sent, whatever is lost or damaged.                           *)
(***************************************************************************)
EXTENDS UdpClientProofs, SequenceTheorems

USE DEF sock, mutexes, network, local, vars, Goto, Return, ReturnUnlocked, Finish, Count

Endings == {"packets_received", "timeouts", "receive_errors", "checksum_errors"}

\* Which method a place belongs to, and what it will count.
PlaceAt(t) ==
    /\ pc[t] # "idle" => op[t] \in Ops
    /\ pc[t] = "lockSend" => op[t] \in {"connect", "disconnect", "exchange"}
    /\ pc[t] \in SendSection => op[t] = "exchange"
    /\ pc[t] = "resetting" => op[t] = "reset"
    /\ pc[t] = "sendStats" => outcome[t] \in {"packets_sent", "send_errors"}
    /\ pc[t] = "receiveStats" => outcome[t] \in Endings
PlaceInv == \A t \in Threads : PlaceAt(t)

EInv == IInv /\ PlaceInv

LEMMA Types ==
    ASSUME IInv
    PROVE  /\ pc \in [Threads -> Labels] /\ op \in [Threads -> Methods]
           /\ outcome \in [Threads -> Counters] /\ calls \in [Threads -> 0..MaxCalls]
           /\ answer \in [Threads -> {{}} \cup {{r} : r \in Request}]
           /\ stats \in [Counters -> Nat] /\ queue \in Seq(Datagram) /\ wire \in SUBSET Request
  BY DEF IInv, TypeOK

\* A thread's step moves no other thread.
Alone(t) == \A u \in Threads \ {t} : pc'[u] = pc[u] /\ op'[u] = op[u] /\ outcome'[u] = outcome[u]

LEMMA PlaceKept ==
    ASSUME PlaceInv, NEW t \in Threads, Alone(t), PlaceAt(t)'
    PROVE  PlaceInv'
<1> SUFFICES ASSUME NEW u \in Threads PROVE PlaceAt(u)'
  BY DEF PlaceInv
<1>1. CASE u = t
  BY <1>1
<1>2. CASE u # t
  BY <1>2 DEF Alone, PlaceInv, PlaceAt
<1> QED  BY <1>1, <1>2

\* Each step of a thread is that thread's alone.
LEMMA OneMoves ==
    ASSUME IInv, NEW t \in Threads, Start(t) \/ Proceed(t) \/ Fail(t)
    PROVE  Alone(t)
<1> USE Types DEF Alone
<1>1. CASE Start(t)
  BY <1>1 DEF Start
<1>2. CASE LockSend(t) \/ LockReceive(t)
  BY <1>2 DEF LockSend, LockReceive
<1>3. CASE AlreadyConnected(t) \/ OpenSocket(t) \/ Connected(t) \/ SocketFails(t) \/ SetupFails(t)
  BY <1>3 DEF AlreadyConnected, OpenSocket, Connected, SocketFails, SetupFails
<1>4. CASE CloseSocket(t) \/ Disconnected(t)
  BY <1>4 DEF CloseSocket, Disconnected
<1>5. CASE SendCheck(t) \/ Transmit(t) \/ SendFails(t)
  BY <1>5 DEF SendCheck, Transmit, SendFails
<1>6. CASE SendStats(t)
  BY <1>6 DEF SendStats
<1>7. CASE ReceiveCheck(t) \/ Receive(t)
  BY <1>7 DEF ReceiveCheck, Receive
<1>8. CASE Expire(t) \/ ReceiveFails(t)
  BY <1>8 DEF Expire, ReceiveFails
<1>9. CASE ReceiveStats(t) \/ Reset(t)
  BY <1>9 DEF ReceiveStats, Reset
<1> HIDE DEF Alone
<1> QED  BY <1>1, <1>2, <1>3, <1>4, <1>5, <1>6, <1>7, <1>8, <1>9 DEF Proceed, Fail

LEMMA PlaceStep ==
    ASSUME EInv, Next
    PROVE  PlaceInv'
<1> USE Types DEF EInv, PlaceInv, PlaceAt, SendSection, Endings
<1>1. ASSUME NEW t \in Threads, Start(t) PROVE PlaceAt(t)'
  <2>1. PICK o \in Ops : op' = [op EXCEPT ![t] = o] /\ pc' = [pc EXCEPT ![t] = FirstStep(o)]
    BY <1>1 DEF Start
  <2>2. o \in Methods
    BY <2>1, UdpAssumption
  <2>3. op'[t] = o /\ pc'[t] = FirstStep(o)
    BY <2>1
  <2> QED  BY <2>2, <2>3 DEF FirstStep, Methods
<1>2. ASSUME NEW t \in Threads, LockSend(t) PROVE PlaceAt(t)'
  BY <1>2 DEF LockSend, BothLocks
<1>3. ASSUME NEW t \in Threads, LockReceive(t) PROVE PlaceAt(t)'
  BY <1>3 DEF LockReceive
<1>4. ASSUME NEW t \in Threads, AlreadyConnected(t) \/ OpenSocket(t) \/ Connected(t) PROVE PlaceAt(t)'
  BY <1>4 DEF AlreadyConnected, OpenSocket, Connected
<1>5. ASSUME NEW t \in Threads, CloseSocket(t) \/ Disconnected(t) PROVE PlaceAt(t)'
  BY <1>5 DEF CloseSocket, Disconnected
<1>6. ASSUME NEW t \in Threads, SendCheck(t) \/ Transmit(t) PROVE PlaceAt(t)'
  BY <1>6 DEF SendCheck, Transmit, Counters
<1>7. ASSUME NEW t \in Threads, SendStats(t) PROVE PlaceAt(t)'
  BY <1>7 DEF SendStats, AfterSend
<1>8. ASSUME NEW t \in Threads, ReceiveCheck(t) \/ Receive(t) PROVE PlaceAt(t)'
  BY <1>8 DEF ReceiveCheck, Receive, CounterFor
<1>9. ASSUME NEW t \in Threads, Expire(t) \/ ReceiveStats(t) \/ Reset(t) PROVE PlaceAt(t)'
  BY <1>9 DEF Expire, ReceiveStats, Reset
<1>10. ASSUME NEW t \in Threads, Fail(t) PROVE PlaceAt(t)'
  BY <1>10 DEF Fail, SocketFails, SetupFails, SendFails, ReceiveFails
<1>11. ASSUME NEW r \in wire, Deliver(r) \/ Lose(r) PROVE PlaceInv'
  BY <1>11 DEF Deliver, Lose
<1>12. ASSUME NEW t \in Threads, Start(t) \/ Proceed(t) \/ Fail(t) PROVE PlaceInv'
  <2>1. PlaceAt(t)'
    <3> HIDE DEF PlaceAt
    <3> QED  BY <1>12, <1>1, <1>2, <1>3, <1>4, <1>5, <1>6, <1>7, <1>8, <1>9, <1>10 DEF Proceed
  <2> HIDE DEF PlaceAt, PlaceInv
  <2> QED  BY <1>12, <2>1, OneMoves, PlaceKept
<1> HIDE DEF PlaceInv, PlaceAt
<1> QED  BY <1>11, <1>12 DEF Next

LEMMA EInvariance == Spec => []EInv
<1>1. Init => PlaceInv
  BY DEF Init, PlaceInv, PlaceAt, SendSection
<1>2. EInv /\ [Next]_vars => PlaceInv'
  <2>1. EInv /\ UNCHANGED vars => PlaceInv'
    BY DEF EInv, PlaceInv, PlaceAt
  <2> QED  BY <2>1, PlaceStep
<1>3. EInv <=> IInv /\ PlaceInv
  BY DEF EInv
<1> HIDE DEF vars
<1> QED  BY Invariance, <1>1, <1>2, <1>3, PTL DEF Spec

-----------------------------------------------------------------------------
(***************************************************************************)
(* Every exchange is counted.                                              *)
(***************************************************************************)
\* Nobody listens without having asked, and nobody resets the counters.
ExchangesOnly == Ops \subseteq {"connect", "disconnect", "exchange"}

CountInv == IsFiniteSet(Waiting) /\ ExchangesCounted

Waits(t) == op[t] = "exchange" /\ pc[t] \in ReceiveSection \cup {"lockReceive"}

\* A step of a thread adds it to those that wait, removes it, or does neither.
LEMMA WaitingChange ==
    ASSUME NEW t \in Threads, Alone(t)
    PROVE  /\ Waits(t)' => Waiting' = Waiting \cup {t}
           /\ ~Waits(t)' => Waiting' = Waiting \ {t}
           /\ Waits(t) <=> t \in Waiting
<1>1. \A u \in Threads \ {t} : Waits(u)' <=> Waits(u)
  BY DEF Alone, Waits
<1>2. Waiting = {u \in Threads : Waits(u)} /\ Waiting' = {u \in Threads : Waits(u)'}
  BY DEF Waiting, Waits
<1> QED  BY <1>1, <1>2

\* A step that counts nothing and after which as many wait as before.
LEMMA CountKept ==
    ASSUME CountInv, NEW t \in Threads, Alone(t), stats' = stats, Waits(t)' <=> Waits(t)
    PROVE  CountInv'
<1>1. Waiting' = Waiting
  BY WaitingChange
<1> QED  BY <1>1 DEF CountInv, ExchangesCounted

\* A request that was sent: one more is waited for.
LEMMA OneMoreWaits ==
    ASSUME IInv, CountInv, NEW t \in Threads, Alone(t), ~Waits(t), Waits(t)',
           stats' = [stats EXCEPT !["packets_sent"] = @ + 1]
    PROVE  CountInv'
<1>1. Waiting' = Waiting \cup {t} /\ t \notin Waiting
  BY WaitingChange
<1>2. IsFiniteSet(Waiting') /\ Cardinality(Waiting') = Cardinality(Waiting) + 1
  BY <1>1, FS_AddElement DEF CountInv
<1>3. Cardinality(Waiting) \in Nat
  BY FS_CardinalityType DEF CountInv
<1>4. \A c \in Counters : stats[c] \in Nat
  BY Types
<1>5. /\ stats'["packets_sent"] = stats["packets_sent"] + 1
      /\ \A c \in Endings : stats'[c] = stats[c]
  BY Types DEF Counters, Endings
<1> QED  BY <1>2, <1>3, <1>4, <1>5 DEF CountInv, ExchangesCounted, Endings, Counters

\* An exchange that ends is counted as what it ended with.
LEMMA OneLessWaits ==
    ASSUME IInv, CountInv, NEW t \in Threads, Alone(t), Waits(t), ~Waits(t)',
           NEW c \in Endings, stats' = [stats EXCEPT ![c] = @ + 1]
    PROVE  CountInv'
<1>1. Waiting' = Waiting \ {t} /\ t \in Waiting
  BY WaitingChange
<1>2. IsFiniteSet(Waiting') /\ Cardinality(Waiting') = Cardinality(Waiting) - 1
  BY <1>1, FS_RemoveElement DEF CountInv
<1>3. Cardinality(Waiting) \in Nat
  BY FS_CardinalityType DEF CountInv
<1>4. \A d \in Counters : stats[d] \in Nat
  BY Types
<1>5. /\ stats'[c] = stats[c] + 1
      /\ \A d \in Counters \ {c} : stats'[d] = stats[d]
  BY Types DEF Counters, Endings
<1> QED  BY <1>2, <1>3, <1>4, <1>5 DEF CountInv, ExchangesCounted, Endings, Counters

LEMMA CountStep ==
    ASSUME ExchangesOnly, EInv, CountInv, Next
    PROVE  CountInv'
<1> USE Types DEF EInv
<1>1. ASSUME NEW t \in Threads, SendStats(t) PROVE CountInv'
  <2>1. Alone(t) /\ ~Waits(t) /\ op[t] = "exchange" /\ outcome[t] \in {"packets_sent", "send_errors"}
    BY <1>1, OneMoves DEF Proceed, SendStats, Waits, ReceiveSection, PlaceInv, PlaceAt, SendSection
  <2>2. stats' = [stats EXCEPT ![outcome[t]] = @ + 1] /\ op' = op /\ pc' = [pc EXCEPT ![t] = AfterSend(t)]
    BY <1>1 DEF SendStats
  <2>3. CASE outcome[t] = "packets_sent"
    <3>1. Waits(t)'
      BY <2>1, <2>2, <2>3 DEF AfterSend, Waits
    <3> QED  BY <2>1, <2>2, <2>3, <3>1, OneMoreWaits
  <2>4. CASE outcome[t] = "send_errors"
    <3>1. ~Waits(t)'
      BY <2>1, <2>2, <2>4 DEF AfterSend, Waits, ReceiveSection
    <3>2. Waiting' = Waiting
      BY <2>1, <3>1, WaitingChange
    <3>3. \A c \in Counters \ {"send_errors"} : stats'[c] = stats[c]
      BY <2>2, <2>4
    <3> QED  BY <3>2, <3>3 DEF CountInv, ExchangesCounted, Counters
  <2> QED  BY <2>1, <2>3, <2>4
<1>2. ASSUME NEW t \in Threads, ReceiveStats(t) PROVE CountInv'
  <2>1. Alone(t) /\ outcome[t] \in Endings /\ op[t] = "exchange" /\ Waits(t)
    BY <1>2, OneMoves DEF Proceed, ReceiveStats, Waits, ReceiveSection, PlaceInv, PlaceAt,
                          ExchangesOnly, MutexInv, IInv, BothLocks
  <2>2. ~Waits(t)'
    BY <1>2 DEF ReceiveStats, Waits, ReceiveSection
  <2>3. stats' = [stats EXCEPT ![outcome[t]] = @ + 1]
    BY <1>2 DEF ReceiveStats
  <2> QED  BY <2>1, <2>2, <2>3, OneLessWaits
<1>3. ASSUME NEW t \in Threads, Reset(t) PROVE FALSE
  BY <1>3 DEF Reset, PlaceInv, PlaceAt, ExchangesOnly
<1>4. ASSUME NEW t \in Threads, Start(t) PROVE CountInv'
  <2>1. PICK o \in Ops : op' = [op EXCEPT ![t] = o] /\ pc' = [pc EXCEPT ![t] = FirstStep(o)]
    BY <1>4 DEF Start
  <2>2. FirstStep(o) = "lockSend"
    BY <2>1 DEF FirstStep, ExchangesOnly
  <2>3. ~Waits(t) /\ ~Waits(t)'
    BY <1>4, <2>1, <2>2 DEF Start, Waits, ReceiveSection
  <2> QED  BY <1>4, <2>3, OneMoves, CountKept DEF Start
<1>5. ASSUME NEW t \in Threads, LockSend(t) \/ LockReceive(t) PROVE CountInv'
  <2>1. Waits(t)' <=> Waits(t)
    BY <1>5 DEF LockSend, LockReceive, BothLocks, Waits, ReceiveSection
  <2> QED  BY <1>5, <2>1, OneMoves, CountKept DEF Proceed, LockSend, LockReceive
<1>6. ASSUME NEW t \in Threads, AlreadyConnected(t) \/ OpenSocket(t) \/ Connected(t)
                                \/ CloseSocket(t) \/ Disconnected(t)
      PROVE  CountInv'
  <2>1. ~Waits(t) /\ ~Waits(t)' /\ stats' = stats
    BY <1>6 DEF AlreadyConnected, OpenSocket, Connected, CloseSocket, Disconnected, Waits, ReceiveSection
  <2> QED  BY <1>6, <2>1, OneMoves, CountKept DEF Proceed
<1>7. ASSUME NEW t \in Threads, SendCheck(t) \/ Transmit(t)
      PROVE  CountInv'
  <2>1. ~Waits(t) /\ ~Waits(t)' /\ stats' = stats
    BY <1>7 DEF SendCheck, Transmit, Waits, ReceiveSection
  <2> QED  BY <1>7, <2>1, OneMoves, CountKept DEF Proceed
<1>8. ASSUME NEW t \in Threads, ReceiveCheck(t) \/ Receive(t) \/ Expire(t)
      PROVE  CountInv'
  <2>1. (Waits(t)' <=> Waits(t)) /\ stats' = stats
    BY <1>8 DEF ReceiveCheck, Receive, Expire, Waits, ReceiveSection
  <2> QED  BY <1>8, <2>1, OneMoves, CountKept DEF Proceed
<1>9. ASSUME NEW t \in Threads, SocketFails(t) \/ SetupFails(t) \/ SendFails(t) \/ ReceiveFails(t)
      PROVE  CountInv'
  <2>1. (Waits(t)' <=> Waits(t)) /\ stats' = stats
    BY <1>9 DEF SocketFails, SetupFails, SendFails, ReceiveFails, Waits, ReceiveSection
  <2> QED  BY <1>9, <2>1, OneMoves, CountKept DEF Fail
<1>10. ASSUME NEW r \in wire, Deliver(r) \/ Lose(r) PROVE CountInv'
  BY <1>10 DEF Deliver, Lose, CountInv, ExchangesCounted, Waiting
<1> HIDE DEF EInv
<1> QED  BY <1>1, <1>2, <1>3, <1>4, <1>5, <1>6, <1>7, <1>8, <1>9, <1>10 DEF Next, Proceed, Fail

\* Among threads that only exchange, connect and disconnect, each request that
\* was sent is waiting for its end or has been counted with it once, however many
\* threads there are and whatever fails (udp_client.cpp:206-259).
THEOREM Counting == ExchangesOnly => (Spec => []ExchangesCounted)
<1>1. Init => CountInv
  <2> SUFFICES ASSUME Init PROVE CountInv
    OBVIOUS
  <2>1. Waiting = {}
    BY DEF Init, Waiting, ReceiveSection
  <2>2. IsFiniteSet(Waiting) /\ Cardinality(Waiting) = 0
    BY <2>1, FS_EmptySet
  <2> QED  BY <2>2 DEF Init, CountInv, ExchangesCounted, ZeroStats, Counters
<1>2. ExchangesOnly /\ EInv /\ CountInv /\ [Next]_vars => CountInv'
  <2>1. CountInv /\ UNCHANGED vars => CountInv'
    BY DEF CountInv, ExchangesCounted, Waiting
  <2> QED  BY <2>1, CountStep
<1>3. CountInv => ExchangesCounted
  BY DEF CountInv
<1> SUFFICES ASSUME ExchangesOnly PROVE Spec => []ExchangesCounted
  OBVIOUS
<1>4. EInv /\ CountInv /\ [Next]_vars => CountInv'
  BY <1>2
<1> HIDE DEF vars
<1> QED  BY EInvariance, <1>1, <1>3, <1>4, PTL DEF Spec

-----------------------------------------------------------------------------
(***************************************************************************)
(* Replies stay in step with requests.                                     *)
(***************************************************************************)
\* One thread has the client for itself, the glove answers before the timeout,
\* and neither the network repeats a reply nor recv() fails.
InStep ==
    /\ \E t \in Threads : Threads = {t}
    /\ ReplyDelay < ReceiveTimeout
    /\ {"duplicate", "receiveError"} \cap Faults = {}

\* A thread between a send that worked and the end of the exchange.
Asked(t) ==
    /\ op[t] = "exchange"
    /\ \/ pc[t] = "sendStats" /\ outcome[t] = "packets_sent"
       \/ pc[t] \in {"lockReceive", "receiveCheck", "receiving"}

\* Where its reply is: still to come, in the buffer, or nowhere.
OnItsWay(t) ==
    \/ wire = {Current(t)} /\ queue = <<>>
    \/ wire = {} /\ queue = <<>>
    \/ wire = {} /\ Len(queue) = 1 /\ Head(queue).reply_to = Current(t)

ReplyAt(t) ==
    /\ Asked(t) => OnItsWay(t) /\ connected
    /\ ~Asked(t) => wire = {} /\ queue = <<>>
    /\ op[t] = "exchange" /\ answer[t] # {} => answer[t] = {Current(t)}

ReplyInv == \A t \in Threads : ReplyAt(t)

LEMMA TailOfOne ==
    ASSUME NEW S, NEW q \in Seq(S), Len(q) = 1
    PROVE  Tail(q) = <<>>
<1>1. Tail(q) \in Seq(S) /\ Len(Tail(q)) = 0
  OBVIOUS
<1> QED  BY <1>1, EmptySeq

LEMMA ReplyStep ==
    ASSUME InStep, EInv, ReplyInv, NEW t \in Threads,
           Start(t) \/ Proceed(t) \/ Fail(t) \/ \E r \in wire : Deliver(r) \/ Lose(r)
    PROVE  ReplyAt(t)'
<1> USE Types DEF EInv, ReplyInv, ReplyAt, Current
<1>1. CASE Start(t)
  <2>1. PICK o \in Ops : op' = [op EXCEPT ![t] = o] /\ pc' = [pc EXCEPT ![t] = FirstStep(o)]
    BY <1>1 DEF Start
  <2>2. o \in Methods
    BY <2>1, UdpAssumption
  <2>3. op'[t] = o /\ pc'[t] = FirstStep(o)
    BY <2>1
  <2>4. ~Asked(t) /\ ~Asked(t)'
    BY <1>1, <2>2, <2>3 DEF Start, Asked, FirstStep, Methods
  <2> QED  BY <1>1, <2>4 DEF Start
<1>2. CASE LockSend(t) \/ LockReceive(t)
  <2>1. Asked(t)' <=> Asked(t)
    BY <1>2 DEF LockSend, LockReceive, BothLocks, Asked
  <2>2. UNCHANGED <<connected, wire, queue, op, calls, answer>>
    BY <1>2 DEF LockSend, LockReceive
  <2> QED  BY <2>1, <2>2 DEF OnItsWay
<1>3. CASE AlreadyConnected(t) \/ OpenSocket(t) \/ Connected(t) \/ SocketFails(t) \/ SetupFails(t)
  <2>1. ~Asked(t) /\ ~Asked(t)'
    BY <1>3 DEF AlreadyConnected, OpenSocket, Connected, SocketFails, SetupFails, Asked
  <2> QED  BY <1>3, <2>1 DEF AlreadyConnected, OpenSocket, Connected, SocketFails, SetupFails, Close
<1>4. CASE CloseSocket(t) \/ Disconnected(t)
  <2>1. ~Asked(t) /\ ~Asked(t)'
    BY <1>4 DEF CloseSocket, Disconnected, Asked
  <2> QED  BY <1>4, <2>1 DEF CloseSocket, Disconnected, Close
<1>5. CASE SendCheck(t) \/ SendFails(t)
  <2>1. ~Asked(t) /\ ~Asked(t)'
    BY <1>5 DEF SendCheck, SendFails, Asked, Counters
  <2> QED  BY <1>5, <2>1 DEF SendCheck, SendFails
<1>6. CASE Transmit(t)
  <2>1. ~Asked(t) /\ Asked(t)' /\ connected
    BY <1>6 DEF Transmit, Asked, PlaceInv, PlaceAt, SendSection, IInv, SocketInv, Counters
  <2>2. wire' = {Current(t)}' /\ queue' = <<>>
    BY <1>6, <2>1 DEF Transmit
  <2> QED  BY <1>6, <2>1, <2>2 DEF Transmit, OnItsWay
<1>7. CASE SendStats(t)
  <2>1. Asked(t)' <=> Asked(t)
    BY <1>7 DEF SendStats, AfterSend, Asked
  <2> QED  BY <1>7, <2>1 DEF SendStats, OnItsWay
<1>8. CASE ReceiveCheck(t)
  <2>1. Asked(t)' <=> Asked(t)
    BY <1>8 DEF ReceiveCheck, Asked
  <2> QED  BY <1>8, <2>1 DEF ReceiveCheck, OnItsWay
<1>9. CASE Receive(t)
  <2>1. Asked(t) /\ ~Asked(t)'
    <3>1. queue # <<>> /\ pc'[t] = "receiveStats"
      BY <1>9 DEF Receive
    <3> QED  BY <3>1 DEF Asked
  <2>2. wire = {} /\ Len(queue) = 1 /\ Head(queue).reply_to = Current(t)
    BY <1>9, <2>1 DEF Receive, OnItsWay
  <2>3. queue' = <<>> /\ wire' = {}
    <3>1. queue' = Tail(queue) /\ wire' = wire
      BY <1>9 DEF Receive
    <3>2. Tail(queue) = <<>>
      BY <2>2, TailOfOne
    <3> QED  BY <2>2, <3>1, <3>2
  <2>4. answer'[t] = Deserialized(Head(queue)) /\ calls' = calls
    BY <1>9 DEF Receive
  <2> QED  BY <2>1, <2>2, <2>3, <2>4 DEF Deserialized
<1>10. CASE Expire(t)
  <2>1. ~Asked(t)' /\ UNCHANGED <<wire, queue, calls, answer, op>>
    BY <1>10 DEF Expire, Asked
  <2>2. queue = <<>> /\ Current(t) \notin wire
    BY <1>10, UdpAssumption DEF Expire, Expires, InStep
  <2>3. wire = {}
    BY <2>2 DEF OnItsWay
  <2> QED  BY <2>1, <2>2, <2>3
<1>11. CASE ReceiveFails(t)
  <2>1. socket_fd \in kernel
    <3>1. pc[t] = "receiving"
      BY <1>11 DEF ReceiveFails
    <3> QED  BY <3>1, SocketHeld DEF SocketStable
  <2> QED  BY <1>11, <2>1 DEF ReceiveFails, InStep
<1>12. CASE ReceiveStats(t) \/ Reset(t)
  <2>1. ~Asked(t) /\ ~Asked(t)'
    BY <1>12 DEF ReceiveStats, Reset, Asked
  <2> QED  BY <1>12, <2>1 DEF ReceiveStats, Reset
<1>13. CASE \E r \in wire : Deliver(r) \/ Lose(r)
  <2>1. PICK r \in wire : Deliver(r) \/ Lose(r)
    BY <1>13
  <2>2. Asked(t)' <=> Asked(t)
    BY <2>1 DEF Deliver, Lose, Asked
  <2>3. Asked(t) /\ wire = {Current(t)} /\ queue = <<>> /\ r = Current(t)
    BY <2>1 DEF OnItsWay
  <2>4. wire' = {}
    BY <2>1, <2>3 DEF Deliver, Lose, InStep
  <2>5. UNCHANGED <<connected, calls, answer, op>>
    BY <2>1 DEF Deliver, Lose
  <2>6. queue' = queue \/ \E m \in Arrivals : queue' = Append(queue, [reply_to |-> r, mark |-> m])
    BY <2>1 DEF Deliver, Lose
  <2>7. queue' = <<>> \/ (Len(queue') = 1 /\ Head(queue').reply_to = r)
    <3>1. CASE queue' = queue
      BY <2>3, <3>1
    <3>2. CASE \E m \in Arrivals : queue' = Append(queue, [reply_to |-> r, mark |-> m])
      <4>1. PICK m \in Arrivals : queue' = Append(queue, [reply_to |-> r, mark |-> m])
        BY <3>2
      <4>2. [reply_to |-> r, mark |-> m] \in Datagram
        BY DEF Datagram, Arrivals, Marks
      <4>3. Len(queue') = 1 /\ Head(queue') = [reply_to |-> r, mark |-> m]
        BY <2>3, <4>1, <4>2
      <4> QED  BY <4>3
    <3> QED  BY <2>6, <3>1, <3>2
  <2> QED  BY <2>2, <2>3, <2>4, <2>5, <2>7 DEF OnItsWay
<1> HIDE DEF EInv, ReplyInv, ReplyAt, Current
<1> QED  BY <1>1, <1>2, <1>3, <1>4, <1>5, <1>6, <1>7, <1>8, <1>9, <1>10, <1>11, <1>12, <1>13
            DEF Proceed, Fail

\* One thread with a prompt glove is never handed the reply to another request
\* than the one it just sent, across any number of losses, damaged frames, failed
\* sends and reconnections (udp_client.cpp:170-211, udp_client.hpp:85-90).
THEOREM InStepReplies == InStep => (Spec => []RepliesMatch)
<1> SUFFICES ASSUME InStep PROVE Spec => []RepliesMatch
  OBVIOUS
<1>1. Init => ReplyInv
  BY DEF Init, ReplyInv, ReplyAt, Asked
<1>2. EInv /\ ReplyInv /\ [Next]_vars => ReplyInv'
  <2>1. ASSUME ReplyInv, UNCHANGED vars PROVE ReplyInv'
    <3> SUFFICES ASSUME NEW t \in Threads PROVE ReplyAt(t)'
      BY DEF ReplyInv
    <3>1. Asked(t)' <=> Asked(t)
      BY <2>1 DEF Asked
    <3>2. OnItsWay(t)' <=> OnItsWay(t)
      BY <2>1 DEF OnItsWay, Current
    <3> QED  BY <2>1, <3>1, <3>2 DEF ReplyInv, ReplyAt, Current
  <2>2. ASSUME EInv, ReplyInv, Next PROVE ReplyInv'
    <3>1. PICK one \in Threads : Threads = {one}
      BY DEF InStep
    <3>2. Start(one) \/ Proceed(one) \/ Fail(one) \/ \E r \in wire : Deliver(r) \/ Lose(r)
      BY <2>2, <3>1 DEF Next
    <3>3. ReplyAt(one)'
      BY <2>2, <3>2, ReplyStep
    <3> QED  BY <3>1, <3>3 DEF ReplyInv
  <2> QED  BY <2>1, <2>2
<1>3. ReplyInv => RepliesMatch
  BY DEF ReplyInv, ReplyAt, RepliesMatch
<1> HIDE DEF vars
<1> QED  BY EInvariance, <1>1, <1>2, <1>3, PTL DEF Spec

\* The same of each step: the only reply an exchange ever takes in is its own.  It
\* is the guard Polling puts on Transport's Take where it is in step
\* (udp_client.cpp:206-211).
TakesOwn ==
    \A t \in Threads : op[t] = "exchange" /\ answer'[t] # answer[t]
                          => answer'[t] \in {{}, {<<t, calls[t]>>}}

THEOREM InStepTakes == InStep => (Spec => [][TakesOwn]_vars)
<1>1. ASSUME IInv, RepliesMatch', [Next]_vars
      PROVE  [TakesOwn]_vars
  <2> SUFFICES ASSUME Next, NEW t \in Threads, op[t] = "exchange", answer'[t] # answer[t]
               PROVE  answer'[t] \in {{}, {<<t, calls[t]>>}}
    BY <1>1 DEF TakesOwn
  <2>1. answer \in [Threads -> {{}} \cup {{r} : r \in Request}]
    BY <1>1 DEF IInv, TypeOK
  <2>2. ASSUME NEW u \in Threads, Start(u)
        PROVE  answer'[t] = {}
    BY <2>1, <2>2 DEF Start
  <2>3. ASSUME NEW u \in Threads, Receive(u)
        PROVE  answer'[t] \in {{}, {<<t, calls[t]>>}}
    <3>1. op' = op /\ calls' = calls
      BY <2>3 DEF Receive
    <3> QED  BY <1>1, <3>1 DEF RepliesMatch, Current
  <2>4. ASSUME NEW u \in Threads, Proceed(u) \/ Fail(u), ~Receive(u)
        PROVE  answer' = answer
    BY <2>4 DEF Proceed, Fail, LockSend, LockReceive, AlreadyConnected, OpenSocket, Connected,
                CloseSocket, Disconnected, SendCheck, Transmit, SendStats, ReceiveCheck, Expire,
                ReceiveStats, Reset, SocketFails, SetupFails, SendFails, ReceiveFails
  <2>5. ASSUME NEW r \in wire, Deliver(r) \/ Lose(r)
        PROVE  answer' = answer
    BY <2>5 DEF Deliver, Lose
  <2> HIDE DEF vars
  <2> QED  BY <2>2, <2>3, <2>4, <2>5 DEF Next
<1> HIDE DEF vars
<1> QED  BY <1>1, Invariance, InStepReplies, PTL DEF Spec
=============================================================================
