--------------------------- MODULE UdpClientProofs ----------------------------
(***************************************************************************)
(* For every set of threads, bound, delay, timeout and combination of      *)
(* faults: UdpClient keeps its types, never leaks a descriptor, and never  *)
(* closes the socket under a thread that is sending or receiving; and no   *)
(* circle of threads waits for its mutexes.                                *)
(***************************************************************************)
EXTENDS UdpClient, TLAPS, FiniteSetTheorems

\* Who owns the send mutex, by place: connect() and disconnect() already hold it
\* while they wait for the receive mutex.
HoldsSend(t) == \/ pc[t] \in SendSection \cup BothSection
                \/ pc[t] = "lockReceive" /\ BothLocks(op[t])
HoldsReceive(t) == pc[t] \in ReceiveSection \cup BothSection

\* Mutual exclusion: the owner recorded in a mutex is the thread whose place in
\* the code lies under it (the lock_guards of udp_client.cpp).
MutexInv ==
    \A t \in Threads :
        /\ HoldsSend(t) => send_mutex = {t}
        /\ HoldsReceive(t) => receive_mutex = {t}
        /\ pc[t] \in SendSection \cup ReceiveSection => ~BothLocks(op[t])

\* connected_ and socket_fd_ agree, except in the two places between which
\* connect() and disconnect() change one after the other.
SocketInv ==
    /\ NoDescriptorLeak
    /\ \A t \in Threads :
          /\ pc[t] = "settingUp" => ~connected /\ socket_fd # 0
          /\ pc[t] = "closed" => socket_fd = 0
          /\ pc[t] \in {"sending", "receiving"} => connected
    /\ (\A t \in Threads : pc[t] \notin {"settingUp", "closed"})
          => (connected <=> socket_fd # 0)

\* A thread inside a call has numbered it.
CallInv == \A t \in Threads : pc[t] # "idle" => calls[t] >= 1

IInv == TypeOK /\ CallInv /\ MutexInv /\ SocketInv


USE DEF sock, mutexes, network, local, vars, Goto, Return, ReturnUnlocked, Finish, Count

LEMMA InitInv == Init => IInv
<1> SUFFICES ASSUME Init PROVE IInv
  OBVIOUS
<1>1. TypeOK
  <2>1. queue \in Seq(Datagram) /\ stats \in [Counters -> Nat] /\ outcome \in [Threads -> Counters]
    BY DEF Init, Counters, ZeroStats
  <2>2. calls \in [Threads -> 0..MaxCalls]
    BY UdpAssumption DEF Init
  <2>3. QED
    BY <2>1, <2>2 DEF Init, TypeOK, Labels, Methods
<1>2. CallInv /\ MutexInv /\ SocketInv
  BY DEF Init, CallInv, MutexInv, HoldsSend, HoldsReceive, SendSection, ReceiveSection,
         BothSection, SocketInv, NoDescriptorLeak
<1>3. QED
  BY <1>1, <1>2 DEF IInv

\* connect() finds no descriptor left over: the one it opens is its only one.
LEMMA NothingOpen ==
    ASSUME IInv, NEW t \in Threads, OpenSocket(t)
    PROVE  kernel = {} /\ 1..(Cardinality(kernel) + 1) = {1}
<1>1. kernel = {}
  BY DEF OpenSocket, IInv, MutexInv, HoldsSend, BothSection, SocketInv, NoDescriptorLeak
<1>2. Cardinality(kernel) = 0
  BY <1>1, FS_EmptySet
<1>3. QED
  BY <1>1, <1>2

LEMMA TypeStep ==
    ASSUME IInv, Next
    PROVE  TypeOK'
<1> USE UdpAssumption DEF IInv, TypeOK, Labels, Methods, Counters
<1>1. ASSUME NEW t \in Threads, Start(t)
      PROVE  TypeOK'
  <2>1. PICK o \in Ops : op' = [op EXCEPT ![t] = o] /\ pc' = [pc EXCEPT ![t] = FirstStep(o)]
    BY <1>1 DEF Start
  <2>2. o \in Methods /\ FirstStep(o) \in Labels
    BY <2>1 DEF FirstStep
  <2>3. op' \in [Threads -> Methods] /\ pc' \in [Threads -> Labels]
    BY <2>1, <2>2
  <2>4. calls' \in [Threads -> 0..MaxCalls]
    BY <1>1 DEF Start
  <2>5. answer' \in [Threads -> {{}} \cup {{r} : r \in Request}]
    BY <1>1 DEF Start
  <2>6. QED
    BY <1>1, <2>3, <2>4, <2>5 DEF Start
<1>2. ASSUME NEW t \in Threads, LockSend(t)
      PROVE  TypeOK'
  BY <1>2 DEF LockSend
<1>3. ASSUME NEW t \in Threads, LockReceive(t)
      PROVE  TypeOK'
  BY <1>3 DEF LockReceive
<1>4. ASSUME NEW t \in Threads, AlreadyConnected(t)
      PROVE  TypeOK'
  BY <1>4 DEF AlreadyConnected
<1>5. ASSUME NEW t \in Threads, OpenSocket(t)
      PROVE  TypeOK'
  <2>1. PICK fd \in 1..(Cardinality(kernel) + 1) : socket_fd' = fd /\ kernel' = kernel \cup {fd}
    BY <1>5 DEF OpenSocket
  <2>2. fd \in Nat \ {0}
    BY <1>5, <2>1, NothingOpen
  <2>3. socket_fd' \in Nat /\ kernel' \in SUBSET (Nat \ {0})
    BY <2>1, <2>2
  <2>4. QED
    BY <1>5, <2>3 DEF OpenSocket
<1>6. ASSUME NEW t \in Threads, SocketFails(t)
      PROVE  TypeOK'
  BY <1>6 DEF SocketFails
<1>7. ASSUME NEW t \in Threads, Connected(t)
      PROVE  TypeOK'
  BY <1>7 DEF Connected
<1>8. ASSUME NEW t \in Threads, SetupFails(t)
      PROVE  TypeOK'
  <2>1. queue' = <<>> /\ kernel' = kernel \ {socket_fd}
    BY <1>8 DEF SetupFails, Close
  <2>2. queue' \in Seq(Datagram) /\ kernel' \in SUBSET (Nat \ {0})
    BY <2>1
  <2>3. QED
    BY <1>8, <2>2 DEF SetupFails
<1>9. ASSUME NEW t \in Threads, CloseSocket(t)
      PROVE  TypeOK'
  <2>1. CASE socket_fd = 0
    BY <1>9, <2>1 DEF CloseSocket
  <2>2. CASE socket_fd # 0
    <3>1. queue' = <<>> /\ kernel' = kernel \ {socket_fd}
      BY <1>9, <2>2 DEF CloseSocket, Close
    <3>2. queue' \in Seq(Datagram) /\ kernel' \in SUBSET (Nat \ {0})
      BY <3>1
    <3>3. QED
      BY <1>9, <3>2 DEF CloseSocket
  <2>3. QED
    BY <2>1, <2>2
<1>10. ASSUME NEW t \in Threads, Disconnected(t)
      PROVE  TypeOK'
  BY <1>10 DEF Disconnected
<1>11. ASSUME NEW t \in Threads, SendCheck(t)
      PROVE  TypeOK'
  BY <1>11 DEF SendCheck
<1>12. ASSUME NEW t \in Threads, Transmit(t)
      PROVE  TypeOK'
  <2>1. calls[t] \in 1..MaxCalls
    BY <1>12 DEF Transmit, IInv, CallInv
  <2>2. wire' \in SUBSET Request
    BY <1>12, <2>1 DEF Transmit, IInv, Current, Request
  <2>3. QED
    BY <1>12, <2>2 DEF Transmit
<1>13. ASSUME NEW t \in Threads, SendFails(t)
      PROVE  TypeOK'
  BY <1>13 DEF SendFails
<1>14. ASSUME NEW t \in Threads, SendStats(t)
      PROVE  TypeOK'
  <2>1. stats' \in [Counters -> Nat]
    BY <1>14 DEF SendStats
  <2>2. AfterSend(t) \in Labels
    BY DEF AfterSend
  <2>3. pc' \in [Threads -> Labels]
    BY <1>14, <2>2 DEF SendStats
  <2>4. QED
    BY <1>14, <2>1, <2>3 DEF SendStats
<1>15. ASSUME NEW t \in Threads, ReceiveCheck(t)
      PROVE  TypeOK'
  BY <1>15 DEF ReceiveCheck
<1>16. ASSUME NEW t \in Threads, Receive(t)
      PROVE  TypeOK'
  <2>1. Head(queue) \in Datagram /\ Tail(queue) \in Seq(Datagram)
    BY <1>16 DEF Receive
  <2>2. Deserialized(Head(queue)) \in {{}} \cup {{r} : r \in Request}
    BY <2>1 DEF Deserialized, Datagram
  <2>3. answer' \in [Threads -> {{}} \cup {{r} : r \in Request}]
    BY <1>16, <2>2 DEF Receive
  <2>4. CounterFor(Head(queue)) \in Counters
    BY DEF CounterFor
  <2>5. outcome' \in [Threads -> Counters]
    BY <1>16, <2>4 DEF Receive
  <2>6. pc' \in [Threads -> Labels]
    BY <1>16 DEF Receive
  <2>7. QED
    BY <1>16, <2>1, <2>3, <2>5, <2>6 DEF Receive
<1>17. ASSUME NEW t \in Threads, Expire(t)
      PROVE  TypeOK'
  BY <1>17 DEF Expire
<1>18. ASSUME NEW t \in Threads, ReceiveFails(t)
      PROVE  TypeOK'
  BY <1>18 DEF ReceiveFails
<1>19. ASSUME NEW t \in Threads, ReceiveStats(t)
      PROVE  TypeOK'
  <2>1. stats' \in [Counters -> Nat]
    BY <1>19 DEF ReceiveStats
  <2>2. pc' \in [Threads -> Labels]
    BY <1>19 DEF ReceiveStats
  <2>3. QED
    BY <1>19, <2>1, <2>2 DEF ReceiveStats
<1>20. ASSUME NEW t \in Threads, Reset(t)
      PROVE  TypeOK'
  BY <1>20 DEF Reset, ZeroStats
<1>21. ASSUME NEW r \in wire, Deliver(r)
      PROVE  TypeOK'
  <2>1. PICK m \in Arrivals : queue' = IF socket_fd \in kernel /\ Len(queue) < MaxQueue
                   THEN Append(queue, [reply_to |-> r, mark |-> m]) ELSE queue
    BY <1>21 DEF Deliver
  <2>2. [reply_to |-> r, mark |-> m] \in Datagram
    BY DEF Datagram, Arrivals, Marks
  <2>3. queue' \in Seq(Datagram)
    BY <2>1, <2>2
  <2>4. QED
    BY <1>21, <2>3 DEF Deliver
<1>22. ASSUME NEW r \in wire, Lose(r)
      PROVE  TypeOK'
  BY <1>22 DEF Lose
<1>23. QED
  BY <1>1, <1>2, <1>3, <1>4, <1>5, <1>6, <1>7, <1>8, <1>9, <1>10, <1>11,
     <1>12, <1>13, <1>14, <1>15, <1>16, <1>17, <1>18, <1>19, <1>20, <1>21, <1>22 DEF Next, Proceed, Fail

LEMMA CallStep ==
    ASSUME IInv, Next
    PROVE  CallInv'
<1> USE DEF IInv, TypeOK, CallInv
<1>1. ASSUME NEW t \in Threads, Start(t)
      PROVE  CallInv'
  BY <1>1 DEF Start, FirstStep
<1>2. ASSUME NEW t \in Threads, LockSend(t)
      PROVE  CallInv'
  BY <1>2 DEF LockSend
<1>3. ASSUME NEW t \in Threads, LockReceive(t)
      PROVE  CallInv'
  BY <1>3 DEF LockReceive
<1>4. ASSUME NEW t \in Threads, AlreadyConnected(t)
      PROVE  CallInv'
  BY <1>4 DEF AlreadyConnected
<1>5. ASSUME NEW t \in Threads, OpenSocket(t)
      PROVE  CallInv'
  BY <1>5 DEF OpenSocket
<1>6. ASSUME NEW t \in Threads, SocketFails(t)
      PROVE  CallInv'
  BY <1>6 DEF SocketFails
<1>7. ASSUME NEW t \in Threads, Connected(t)
      PROVE  CallInv'
  BY <1>7 DEF Connected
<1>8. ASSUME NEW t \in Threads, SetupFails(t)
      PROVE  CallInv'
  BY <1>8 DEF SetupFails, Close
<1>9. ASSUME NEW t \in Threads, CloseSocket(t)
      PROVE  CallInv'
  BY <1>9 DEF CloseSocket, Close
<1>10. ASSUME NEW t \in Threads, Disconnected(t)
      PROVE  CallInv'
  BY <1>10 DEF Disconnected
<1>11. ASSUME NEW t \in Threads, SendCheck(t)
      PROVE  CallInv'
  BY <1>11 DEF SendCheck
<1>12. ASSUME NEW t \in Threads, Transmit(t)
      PROVE  CallInv'
  BY <1>12 DEF Transmit
<1>13. ASSUME NEW t \in Threads, SendFails(t)
      PROVE  CallInv'
  BY <1>13 DEF SendFails
<1>14. ASSUME NEW t \in Threads, SendStats(t)
      PROVE  CallInv'
  BY <1>14 DEF SendStats, AfterSend
<1>15. ASSUME NEW t \in Threads, ReceiveCheck(t)
      PROVE  CallInv'
  BY <1>15 DEF ReceiveCheck
<1>16. ASSUME NEW t \in Threads, Receive(t)
      PROVE  CallInv'
  BY <1>16 DEF Receive
<1>17. ASSUME NEW t \in Threads, Expire(t)
      PROVE  CallInv'
  BY <1>17 DEF Expire
<1>18. ASSUME NEW t \in Threads, ReceiveFails(t)
      PROVE  CallInv'
  BY <1>18 DEF ReceiveFails
<1>19. ASSUME NEW t \in Threads, ReceiveStats(t)
      PROVE  CallInv'
  BY <1>19 DEF ReceiveStats
<1>20. ASSUME NEW t \in Threads, Reset(t)
      PROVE  CallInv'
  BY <1>20 DEF Reset
<1>21. ASSUME NEW r \in wire, Deliver(r)
      PROVE  CallInv'
  BY <1>21 DEF Deliver
<1>22. ASSUME NEW r \in wire, Lose(r)
      PROVE  CallInv'
  BY <1>22 DEF Lose
<1> HIDE DEF IInv, TypeOK, CallInv
<1>23. QED
  BY <1>1, <1>2, <1>3, <1>4, <1>5, <1>6, <1>7, <1>8, <1>9, <1>10, <1>11,
     <1>12, <1>13, <1>14, <1>15, <1>16, <1>17, <1>18, <1>19, <1>20, <1>21, <1>22 DEF Next, Proceed, Fail

LEMMA MutexStep ==
    ASSUME IInv, Next
    PROVE  MutexInv'
<1> USE DEF IInv, TypeOK, MutexInv, HoldsSend, HoldsReceive, SendSection, ReceiveSection,
            BothSection, BothLocks
<1>1. ASSUME NEW t \in Threads, Start(t)
      PROVE  MutexInv'
  BY <1>1 DEF Start, FirstStep
<1>2. ASSUME NEW t \in Threads, LockSend(t)
      PROVE  MutexInv'
  BY <1>2 DEF LockSend
<1>3. ASSUME NEW t \in Threads, LockReceive(t)
      PROVE  MutexInv'
  BY <1>3 DEF LockReceive
<1>4. ASSUME NEW t \in Threads, AlreadyConnected(t)
      PROVE  MutexInv'
  BY <1>4 DEF AlreadyConnected
<1>5. ASSUME NEW t \in Threads, OpenSocket(t)
      PROVE  MutexInv'
  BY <1>5 DEF OpenSocket
<1>6. ASSUME NEW t \in Threads, SocketFails(t)
      PROVE  MutexInv'
  BY <1>6 DEF SocketFails
<1>7. ASSUME NEW t \in Threads, Connected(t)
      PROVE  MutexInv'
  BY <1>7 DEF Connected
<1>8. ASSUME NEW t \in Threads, SetupFails(t)
      PROVE  MutexInv'
  BY <1>8 DEF SetupFails, Close
<1>9. ASSUME NEW t \in Threads, CloseSocket(t)
      PROVE  MutexInv'
  BY <1>9 DEF CloseSocket, Close
<1>10. ASSUME NEW t \in Threads, Disconnected(t)
      PROVE  MutexInv'
  BY <1>10 DEF Disconnected
<1>11. ASSUME NEW t \in Threads, SendCheck(t)
      PROVE  MutexInv'
  BY <1>11 DEF SendCheck
<1>12. ASSUME NEW t \in Threads, Transmit(t)
      PROVE  MutexInv'
  BY <1>12 DEF Transmit
<1>13. ASSUME NEW t \in Threads, SendFails(t)
      PROVE  MutexInv'
  BY <1>13 DEF SendFails
<1>14. ASSUME NEW t \in Threads, SendStats(t)
      PROVE  MutexInv'
  BY <1>14 DEF SendStats, AfterSend
<1>15. ASSUME NEW t \in Threads, ReceiveCheck(t)
      PROVE  MutexInv'
  BY <1>15 DEF ReceiveCheck
<1>16. ASSUME NEW t \in Threads, Receive(t)
      PROVE  MutexInv'
  BY <1>16 DEF Receive
<1>17. ASSUME NEW t \in Threads, Expire(t)
      PROVE  MutexInv'
  BY <1>17 DEF Expire
<1>18. ASSUME NEW t \in Threads, ReceiveFails(t)
      PROVE  MutexInv'
  BY <1>18 DEF ReceiveFails
<1>19. ASSUME NEW t \in Threads, ReceiveStats(t)
      PROVE  MutexInv'
  BY <1>19 DEF ReceiveStats
<1>20. ASSUME NEW t \in Threads, Reset(t)
      PROVE  MutexInv'
  BY <1>20 DEF Reset
<1>21. ASSUME NEW r \in wire, Deliver(r)
      PROVE  MutexInv'
  BY <1>21 DEF Deliver
<1>22. ASSUME NEW r \in wire, Lose(r)
      PROVE  MutexInv'
  BY <1>22 DEF Lose
<1> HIDE DEF IInv, TypeOK, MutexInv, HoldsSend, HoldsReceive, SendSection, ReceiveSection, BothSection, BothLocks
<1>23. QED
  BY <1>1, <1>2, <1>3, <1>4, <1>5, <1>6, <1>7, <1>8, <1>9, <1>10, <1>11,
     <1>12, <1>13, <1>14, <1>15, <1>16, <1>17, <1>18, <1>19, <1>20, <1>21, <1>22 DEF Next, Proceed, Fail

LEMMA SocketStep ==
    ASSUME IInv, Next
    PROVE  SocketInv'
<1> USE DEF IInv, TypeOK, SocketInv, NoDescriptorLeak, MutexInv, HoldsSend, HoldsReceive,
            SendSection, ReceiveSection, BothSection, BothLocks
<1>1. ASSUME NEW t \in Threads, Start(t)
      PROVE  SocketInv'
  BY <1>1 DEF Start, FirstStep
<1>2. ASSUME NEW t \in Threads, LockSend(t)
      PROVE  SocketInv'
  BY <1>2 DEF LockSend
<1>3. ASSUME NEW t \in Threads, LockReceive(t)
      PROVE  SocketInv'
  BY <1>3 DEF LockReceive
<1>4. ASSUME NEW t \in Threads, AlreadyConnected(t)
      PROVE  SocketInv'
  BY <1>4 DEF AlreadyConnected
<1>5. ASSUME NEW t \in Threads, OpenSocket(t)
      PROVE  SocketInv'
  <2>1. PICK fd \in 1..(Cardinality(kernel) + 1) : socket_fd' = fd /\ kernel' = kernel \cup {fd}
    BY <1>5 DEF OpenSocket
  <2>2. kernel = {} /\ 1..(Cardinality(kernel) + 1) = {1}
    BY <1>5, NothingOpen
  <2>3. fd = 1
    BY <2>1, <2>2
  <2>4. socket_fd' # 0 /\ kernel' = {socket_fd'} \ {0}
    BY <2>1, <2>2, <2>3
  <2>5. QED
    BY <1>5, <2>4 DEF OpenSocket
<1>6. ASSUME NEW t \in Threads, SocketFails(t)
      PROVE  SocketInv'
  BY <1>6 DEF SocketFails
<1>7. ASSUME NEW t \in Threads, Connected(t)
      PROVE  SocketInv'
  BY <1>7 DEF Connected
<1>8. ASSUME NEW t \in Threads, SetupFails(t)
      PROVE  SocketInv'
  BY <1>8 DEF SetupFails, Close
<1>9. ASSUME NEW t \in Threads, CloseSocket(t)
      PROVE  SocketInv'
  BY <1>9 DEF CloseSocket, Close
<1>10. ASSUME NEW t \in Threads, Disconnected(t)
      PROVE  SocketInv'
  BY <1>10 DEF Disconnected
<1>11. ASSUME NEW t \in Threads, SendCheck(t)
      PROVE  SocketInv'
  BY <1>11 DEF SendCheck
<1>12. ASSUME NEW t \in Threads, Transmit(t)
      PROVE  SocketInv'
  BY <1>12 DEF Transmit
<1>13. ASSUME NEW t \in Threads, SendFails(t)
      PROVE  SocketInv'
  BY <1>13 DEF SendFails
<1>14. ASSUME NEW t \in Threads, SendStats(t)
      PROVE  SocketInv'
  BY <1>14 DEF SendStats, AfterSend
<1>15. ASSUME NEW t \in Threads, ReceiveCheck(t)
      PROVE  SocketInv'
  BY <1>15 DEF ReceiveCheck
<1>16. ASSUME NEW t \in Threads, Receive(t)
      PROVE  SocketInv'
  BY <1>16 DEF Receive
<1>17. ASSUME NEW t \in Threads, Expire(t)
      PROVE  SocketInv'
  BY <1>17 DEF Expire
<1>18. ASSUME NEW t \in Threads, ReceiveFails(t)
      PROVE  SocketInv'
  BY <1>18 DEF ReceiveFails
<1>19. ASSUME NEW t \in Threads, ReceiveStats(t)
      PROVE  SocketInv'
  BY <1>19 DEF ReceiveStats
<1>20. ASSUME NEW t \in Threads, Reset(t)
      PROVE  SocketInv'
  BY <1>20 DEF Reset
<1>21. ASSUME NEW r \in wire, Deliver(r)
      PROVE  SocketInv'
  BY <1>21 DEF Deliver
<1>22. ASSUME NEW r \in wire, Lose(r)
      PROVE  SocketInv'
  BY <1>22 DEF Lose
<1> HIDE DEF IInv, TypeOK, SocketInv, NoDescriptorLeak, MutexInv, HoldsSend, HoldsReceive, SendSection, ReceiveSection, BothSection, BothLocks
<1>23. QED
  BY <1>1, <1>2, <1>3, <1>4, <1>5, <1>6, <1>7, <1>8, <1>9, <1>10, <1>11,
     <1>12, <1>13, <1>14, <1>15, <1>16, <1>17, <1>18, <1>19, <1>20, <1>21, <1>22 DEF Next, Proceed, Fail

LEMMA Invariance == Spec => []IInv
<1>1. IInv /\ [Next]_vars => IInv'
  <2> SUFFICES ASSUME IInv, [Next]_vars PROVE IInv'
    OBVIOUS
  <2>1. CASE Next
    BY <2>1, TypeStep, CallStep, MutexStep, SocketStep DEF IInv
  <2>2. CASE UNCHANGED vars
    BY <2>2 DEF IInv, TypeOK, CallInv, MutexInv, HoldsSend, HoldsReceive, SocketInv,
                NoDescriptorLeak, Request
  <2>3. QED
    BY <2>1, <2>2
<1>2. QED
  BY InitInv, <1>1, PTL DEF Spec

\* Every variable of the client keeps its type, whatever the threads call and
\* whatever fails (src/udp_client.cpp).
THEOREM TypeCorrect == Spec => []TypeOK
<1>1. IInv => TypeOK
  BY DEF IInv
<1>2. QED
  BY Invariance, <1>1, PTL

LEMMA SocketHeld == IInv => SocketStable
<1> SUFFICES ASSUME IInv, NEW t \in Threads, pc[t] \in {"sending", "receiving"}
             PROVE  connected /\ socket_fd \in kernel
  BY DEF SocketStable
<1>1. connected
  BY DEF IInv, SocketInv
<1>2. ASSUME NEW u \in Threads PROVE pc[u] \notin {"settingUp", "closed"}
  <2>1. SUFFICES ASSUME pc[u] \in {"settingUp", "closed"} PROVE FALSE
    OBVIOUS
  <2>2. HoldsSend(u) /\ HoldsReceive(u) /\ u # t
    BY <2>1 DEF HoldsSend, HoldsReceive, BothSection
  <2>3. send_mutex = {u} /\ receive_mutex = {u}
    BY <2>2 DEF IInv, MutexInv
  <2>4. HoldsSend(t) \/ HoldsReceive(t)
    BY DEF HoldsSend, HoldsReceive, SendSection, ReceiveSection
  <2> QED  BY <2>2, <2>3, <2>4 DEF IInv, MutexInv
<1>3. socket_fd # 0
  BY <1>1, <1>2 DEF IInv, SocketInv
<1> QED  BY <1>1, <1>3 DEF IInv, SocketInv, NoDescriptorLeak

\* send() and recv() always run on the open, connected socket that was checked
\* just before, for any number of threads that connect and disconnect meanwhile
\* (udp_client.cpp:127-136 takes both mutexes).
THEOREM SocketSafety == Spec => []SocketStable
<1>1. QED
  BY Invariance, SocketHeld, PTL

\* No failure path of connect(), and no race, leaks a socket or leaves a closed
\* one behind (udp_client.cpp:48-136).
THEOREM DescriptorSafety == Spec => []NoDescriptorLeak
<1>1. IInv => NoDescriptorLeak
  BY DEF IInv, SocketInv
<1>2. QED
  BY Invariance, <1>1, PTL

-----------------------------------------------------------------------------
\* The converse of MutexInv: a mutex that is held is held by a thread at a place
\* under it, from where it will be released.
OwnerInv == /\ \A t \in send_mutex : HoldsSend(t)
            /\ \A t \in receive_mutex : HoldsReceive(t)

\* A thread that finds the mutex it needs next locked.
Blocked(t) == \/ pc[t] = "lockSend" /\ send_mutex # {}
              \/ pc[t] = "lockReceive" /\ receive_mutex # {}

\* A thread whose next step needs no mutex, or one that is free.  In send() and
\* recv() it waits for the kernel alone, at most for the socket's timeout.
Advances(t) == \/ pc[t] \in SendSection \cup ReceiveSection \cup BothSection
               \/ pc[t] = "lockReceive" /\ receive_mutex = {}

\* Whoever waits for a mutex waits, in the end, for a thread that can go on:
\* connect() and disconnect() wait for the receive mutex with the send mutex held,
\* but no receiver ever waits for the send mutex (udp_client.cpp:49-50, 128-129,
\* 139, 171).
NoDeadlock == (\E t \in Threads : Blocked(t))
                 => \E u \in send_mutex \cup receive_mutex : Advances(u)

\* Each step keeps the owners where they are.
LEMMA OwnerStep ==
    ASSUME IInv, OwnerInv, [Next]_vars
    PROVE  OwnerInv'
<1>0. /\ pc \in [Threads -> Labels] /\ op \in [Threads -> Methods]
      /\ send_mutex \subseteq Threads /\ receive_mutex \subseteq Threads
      /\ MutexInv
  BY DEF IInv, TypeOK
<1> USE <1>0 DEF MutexInv, OwnerInv, HoldsSend, HoldsReceive, SendSection,
            ReceiveSection, BothSection, BothLocks
<1>1. ASSUME NEW t \in Threads, Start(t)
      PROVE  OwnerInv'
  BY <1>1 DEF Start, FirstStep
<1>2. ASSUME NEW t \in Threads, LockSend(t)
      PROVE  OwnerInv'
  BY <1>2 DEF LockSend
<1>3. ASSUME NEW t \in Threads, LockReceive(t)
      PROVE  OwnerInv'
  BY <1>3 DEF LockReceive
<1>4. ASSUME NEW t \in Threads, AlreadyConnected(t)
      PROVE  OwnerInv'
  BY <1>4 DEF AlreadyConnected
<1>5. ASSUME NEW t \in Threads, OpenSocket(t)
      PROVE  OwnerInv'
  BY <1>5 DEF OpenSocket
<1>6. ASSUME NEW t \in Threads, SocketFails(t)
      PROVE  OwnerInv'
  BY <1>6 DEF SocketFails
<1>7. ASSUME NEW t \in Threads, Connected(t)
      PROVE  OwnerInv'
  BY <1>7 DEF Connected
<1>8. ASSUME NEW t \in Threads, SetupFails(t)
      PROVE  OwnerInv'
  BY <1>8 DEF SetupFails, Close
<1>9. ASSUME NEW t \in Threads, CloseSocket(t)
      PROVE  OwnerInv'
  BY <1>9 DEF CloseSocket, Close
<1>10. ASSUME NEW t \in Threads, Disconnected(t)
      PROVE  OwnerInv'
  BY <1>10 DEF Disconnected
<1>11. ASSUME NEW t \in Threads, SendCheck(t)
      PROVE  OwnerInv'
  BY <1>11 DEF SendCheck
<1>12. ASSUME NEW t \in Threads, Transmit(t)
      PROVE  OwnerInv'
  BY <1>12 DEF Transmit
<1>13. ASSUME NEW t \in Threads, SendFails(t)
      PROVE  OwnerInv'
  BY <1>13 DEF SendFails
<1>14. ASSUME NEW t \in Threads, SendStats(t)
      PROVE  OwnerInv'
  BY <1>14 DEF SendStats, AfterSend
<1>15. ASSUME NEW t \in Threads, ReceiveCheck(t)
      PROVE  OwnerInv'
  BY <1>15 DEF ReceiveCheck
<1>16. ASSUME NEW t \in Threads, Receive(t)
      PROVE  OwnerInv'
  BY <1>16 DEF Receive
<1>17. ASSUME NEW t \in Threads, Expire(t)
      PROVE  OwnerInv'
  BY <1>17 DEF Expire
<1>18. ASSUME NEW t \in Threads, ReceiveFails(t)
      PROVE  OwnerInv'
  BY <1>18 DEF ReceiveFails
<1>19. ASSUME NEW t \in Threads, ReceiveStats(t)
      PROVE  OwnerInv'
  BY <1>19 DEF ReceiveStats
<1>20. ASSUME NEW t \in Threads, Reset(t)
      PROVE  OwnerInv'
  BY <1>20 DEF Reset
<1>21. ASSUME NEW r \in wire, Deliver(r)
      PROVE  OwnerInv'
  BY <1>21 DEF Deliver
<1>22. ASSUME NEW r \in wire, Lose(r)
      PROVE  OwnerInv'
  BY <1>22 DEF Lose
<1>23. CASE UNCHANGED vars
  BY <1>23
<1> HIDE DEF MutexInv, OwnerInv, HoldsSend, HoldsReceive, SendSection,
             ReceiveSection, BothSection, BothLocks
<1> QED
  BY <1>1, <1>2, <1>3, <1>4, <1>5, <1>6, <1>7, <1>8, <1>9, <1>10, <1>11,
     <1>12, <1>13, <1>14, <1>15, <1>16, <1>17, <1>18, <1>19, <1>20, <1>21, <1>22, <1>23 DEF Next, Proceed, Fail

\* The owners of the mutexes are where they can release them, throughout.
LEMMA OwnerInvariance == Spec => []OwnerInv
<1>1. Init => OwnerInv
  BY DEF Init, OwnerInv
<1> QED  BY <1>1, OwnerStep, Invariance, PTL DEF Spec

\* No circle of waiting threads, however many connect, disconnect, send and receive
\* at once: the part of CallsReturn that is not about fairness (udp_client.cpp:48-211).
THEOREM DeadlockFreedom == Spec => []NoDeadlock
<1>1. ASSUME IInv, OwnerInv
      PROVE  NoDeadlock
  <2>1. ASSUME NEW u \in receive_mutex
        PROVE  Advances(u)
    BY <1>1 DEF OwnerInv, HoldsReceive, Advances
  <2>2. ASSUME NEW t \in send_mutex
        PROVE  Advances(t) \/ receive_mutex # {}
    <3>1. HoldsSend(t)
      BY <1>1 DEF OwnerInv
    <3> QED  BY <3>1 DEF HoldsSend, Advances
  <2>3. ASSUME send_mutex \cup receive_mutex # {}
        PROVE  \E u \in send_mutex \cup receive_mutex : Advances(u)
    <3>1. CASE receive_mutex # {}
      BY <2>1, <3>1
    <3>2. CASE receive_mutex = {}
      BY <2>2, <2>3, <3>2
    <3> QED  BY <3>1, <3>2
  <2> QED  BY <2>3 DEF NoDeadlock, Blocked
<1> QED  BY <1>1, Invariance, OwnerInvariance, PTL
=============================================================================
