------------------------------ MODULE UdpClient ------------------------------
(***************************************************************************)
(* UdpClient (src/udp_client.cpp): one UDP socket shared by every thread   *)
(* that talks to the glove.  The threads interleave between the two        *)
(* mutexes, the system calls and the statistics; the glove and the network *)
(* between them are external, and answer, lose, repeat or damage what they *)
(* carry.                                                                  *)
(*                                                                         *)
(* std::optional is a set of at most one element, and so is the owner of a *)
(* mutex.  The socket descriptor -1 is 0.                                  *)
(***************************************************************************)
EXTENDS Naturals, Sequences, FiniteSets

CONSTANTS
    Threads,          \* threads that share the client
    Ops,              \* the methods these threads call
    MaxCalls,         \* bound: calls made by each thread
    MaxQueue,         \* datagrams the kernel's socket buffer holds
    ReplyDelay,       \* how long the glove may take to answer, in ms
    ReceiveTimeout,   \* UdpConfig::receive_timeout, in ms
    Faults            \* what may go wrong in the network and the kernel

Methods    == {"connect", "disconnect", "receive", "exchange", "reset"}
FaultKinds == {"lose", "duplicate", "damage", "malform", "sendError", "receiveError",
               "socketError", "setupError"}

ASSUME UdpAssumption ==
    /\ Ops \subseteq Methods
    /\ Faults \subseteq FaultKinds
    /\ MaxCalls \in Nat /\ MaxQueue \in Nat
    /\ ReplyDelay \in Nat /\ ReceiveTimeout \in Nat

VARIABLES
    socket_fd,     \* the descriptor, 0 when there is none
    connected,     \* the atomic flag connected_
    kernel,        \* descriptors the process holds open
    send_mutex, receive_mutex,
    wire,          \* requests the glove may still answer
    queue,         \* datagrams in the socket buffer, oldest first
    stats,         \* NetworkStatistics
    pc, op,        \* where each thread is, and in which method
    calls,         \* calls each thread has started
    outcome,       \* the counter the call in progress will increment
    answer         \* what the last call returned

local   == <<pc, op, calls, outcome, answer>>
mutexes == <<send_mutex, receive_mutex>>
network == <<wire, queue>>
sock    == <<socket_fd, connected, kernel>>
vars    == <<sock, mutexes, network, stats, local>>

Request  == Threads \X (1..MaxCalls)
Marks    == {"intact", "damaged", "malformed"}
Datagram == [reply_to : Request, mark : Marks]
Counters == {"packets_sent", "packets_received", "send_errors",
             "receive_errors", "timeouts", "checksum_errors"}
ZeroStats == [c \in Counters |-> 0]

\* The mark a damaged reply carries tells its two fates in the documents
\* apart: a wrong checksum, or a frame that is not one at all.
Arrivals == {"intact"} \cup {"damaged" : f \in Faults \cap {"damage"}}
                       \cup {"malformed" : f \in Faults \cap {"malform"}}

Current(t)     == <<t, calls[t]>>
BothLocks(o)   == o \in {"connect", "disconnect"}
FirstStep(o)   == CASE o = "receive" -> "lockReceive"
                    [] o = "reset"   -> "resetting"
                    [] OTHER         -> "lockSend"

Init ==
    /\ socket_fd = 0 /\ connected = FALSE /\ kernel = {}
    /\ send_mutex = {} /\ receive_mutex = {}
    /\ wire = {} /\ queue = <<>>
    /\ stats = ZeroStats
    /\ pc = [t \in Threads |-> "idle"]
    /\ op = [t \in Threads |-> "reset"]
    /\ calls = [t \in Threads |-> 0]
    /\ outcome = [t \in Threads |-> "packets_sent"]
    /\ answer = [t \in Threads |-> {}]

Goto(t, label) == pc' = [pc EXCEPT ![t] = label]

(***************************************************************************)
(* A call begins; LockSend and LockReceive are the lock_guards.            *)
(***************************************************************************)
Start(t) ==
    /\ pc[t] = "idle" /\ calls[t] < MaxCalls
    /\ \E o \in Ops : op' = [op EXCEPT ![t] = o] /\ Goto(t, FirstStep(o))
    /\ calls' = [calls EXCEPT ![t] = @ + 1]
    /\ answer' = [answer EXCEPT ![t] = {}]
    /\ UNCHANGED <<sock, mutexes, network, stats, outcome>>

LockSend(t) ==
    /\ pc[t] = "lockSend" /\ send_mutex = {}
    /\ send_mutex' = {t}
    /\ Goto(t, IF BothLocks(op[t]) THEN "lockReceive" ELSE "sendCheck")
    /\ UNCHANGED <<sock, receive_mutex, network, stats, op, calls, outcome, answer>>

\* Mutants of LockReceive: a shared lock, and a disconnect() that does not wait
\* for the receiver.
LockReceiveShared(t) ==
    /\ pc[t] = "lockReceive"
    /\ receive_mutex' = receive_mutex \cup {t}
    /\ Goto(t, CASE op[t] = "connect"    -> "connecting"
                 [] op[t] = "disconnect" -> "closing"
                 [] OTHER                -> "receiveCheck")
    /\ UNCHANGED <<sock, send_mutex, network, stats, op, calls, outcome, answer>>

LockReceiveHasty(t) ==
    /\ pc[t] = "lockReceive"
    /\ IF op[t] = "disconnect" THEN Goto(t, "closing") /\ UNCHANGED receive_mutex
       ELSE /\ receive_mutex = {} /\ receive_mutex' = {t}
            /\ Goto(t, IF op[t] = "connect" THEN "connecting" ELSE "receiveCheck")
    /\ UNCHANGED <<sock, send_mutex, network, stats, op, calls, outcome, answer>>

LockReceive(t) ==
    /\ pc[t] = "lockReceive" /\ receive_mutex = {}
    /\ receive_mutex' = {t}
    /\ Goto(t, CASE op[t] = "connect"    -> "connecting"
                 [] op[t] = "disconnect" -> "closing"
                 [] OTHER                -> "receiveCheck")
    /\ UNCHANGED <<sock, send_mutex, network, stats, op, calls, outcome, answer>>

Return(t) == Goto(t, "idle")
ReturnUnlocked(t) == Return(t) /\ send_mutex' = {} /\ receive_mutex' = {}

(***************************************************************************)
(* connect(): the socket exists from OpenSocket on, but connected_ is set  *)
(* only when every set-up call has succeeded.  A socket bound to the local *)
(* port already receives while it is being set up.                         *)
(***************************************************************************)
\* The kernel hands out the smallest descriptor that is not in use.
FreshDescriptor(fd) == /\ fd \notin kernel
                       /\ \A d \in 1..(fd - 1) : d \in kernel

AlreadyConnected(t) ==
    /\ pc[t] = "connecting" /\ connected
    /\ ReturnUnlocked(t)
    /\ UNCHANGED <<sock, network, stats, op, calls, outcome, answer>>

OpenSocket(t) ==
    /\ pc[t] = "connecting" /\ ~connected
    /\ \E fd \in 1..(Cardinality(kernel) + 1) :
          FreshDescriptor(fd) /\ socket_fd' = fd /\ kernel' = kernel \cup {fd}
    /\ Goto(t, "settingUp")
    /\ UNCHANGED <<connected, mutexes, network, stats, op, calls, outcome, answer>>

SocketFails(t) ==
    /\ pc[t] = "connecting" /\ ~connected /\ "socketError" \in Faults
    /\ socket_fd' = 0
    /\ ReturnUnlocked(t)
    /\ UNCHANGED <<connected, kernel, network, stats, op, calls, outcome, answer>>

\* close(fd): what the kernel had buffered for the socket is gone.
Close(fd) == kernel' = kernel \ {fd} /\ queue' = <<>>

Connected(t) ==
    /\ pc[t] = "settingUp"
    /\ connected' = TRUE
    /\ ReturnUnlocked(t)
    /\ UNCHANGED <<socket_fd, kernel, network, stats, op, calls, outcome, answer>>

\* Mutant of SetupFails: the failure path forgets close().
SetupFailsUnclosed(t) ==
    /\ pc[t] = "settingUp" /\ "setupError" \in Faults
    /\ socket_fd' = 0
    /\ ReturnUnlocked(t)
    /\ UNCHANGED <<connected, kernel, network, stats, op, calls, outcome, answer>>

\* bind, either setsockopt, inet_pton or ::connect fails.
SetupFails(t) ==
    /\ pc[t] = "settingUp" /\ "setupError" \in Faults
    /\ Close(socket_fd) /\ socket_fd' = 0
    /\ ReturnUnlocked(t)
    /\ UNCHANGED <<connected, wire, stats, op, calls, outcome, answer>>

(***************************************************************************)
(* disconnect()                                                            *)
(***************************************************************************)
CloseSocket(t) ==
    /\ pc[t] = "closing"
    /\ IF socket_fd # 0 THEN Close(socket_fd) ELSE UNCHANGED <<kernel, queue>>
    /\ socket_fd' = 0
    /\ Goto(t, "closed")
    /\ UNCHANGED <<connected, mutexes, wire, stats, op, calls, outcome, answer>>

Disconnected(t) ==
    /\ pc[t] = "closed"
    /\ connected' = FALSE
    /\ ReturnUnlocked(t)
    /\ UNCHANGED <<socket_fd, kernel, network, stats, op, calls, outcome, answer>>

(***************************************************************************)
(* send_packet()                                                           *)
(***************************************************************************)
Finish(t, label, counter) == Goto(t, label) /\ outcome' = [outcome EXCEPT ![t] = counter]

SendCheck(t) ==
    /\ pc[t] = "sendCheck"
    /\ IF connected THEN Goto(t, "sending") /\ UNCHANGED outcome
                    ELSE Finish(t, "sendStats", "send_errors")
    /\ UNCHANGED <<sock, mutexes, network, stats, op, calls, answer>>

Transmit(t) ==
    /\ pc[t] = "sending" /\ socket_fd \in kernel
    /\ wire' = wire \cup {Current(t)}
    /\ Finish(t, "sendStats", "packets_sent")
    /\ UNCHANGED <<sock, mutexes, queue, stats, op, calls, answer>>

\* The send timeout, any other error, and a partial send.
SendFails(t) ==
    /\ pc[t] = "sending" /\ ("sendError" \in Faults \/ socket_fd \notin kernel)
    /\ Finish(t, "sendStats", "send_errors")
    /\ UNCHANGED <<sock, mutexes, network, stats, op, calls, answer>>

Count(t) == stats' = [stats EXCEPT ![outcome[t]] = @ + 1]

\* Mutant of AfterSend: the result of send_packet() is ignored.
AfterAnySend(t) == IF op[t] = "exchange" THEN "lockReceive" ELSE "idle"

\* send_and_receive() goes on to receive_packet() only if the send succeeded,
\* and holds no mutex in between.
AfterSend(t) == IF op[t] = "exchange" /\ outcome[t] = "packets_sent"
                THEN "lockReceive" ELSE "idle"

SendStats(t) ==
    /\ pc[t] = "sendStats"
    /\ Count(t) /\ send_mutex' = {}
    /\ Goto(t, AfterSend(t))
    /\ UNCHANGED <<sock, receive_mutex, network, op, calls, outcome, answer>>

(***************************************************************************)
(* receive_packet()                                                        *)
(***************************************************************************)
\* Mutant of ReceiveCheck: the early return does not count.
ReceiveCheckUncounted(t) ==
    /\ pc[t] = "receiveCheck"
    /\ IF connected THEN Goto(t, "receiving") /\ UNCHANGED receive_mutex
                    ELSE Return(t) /\ receive_mutex' = {}
    /\ UNCHANGED <<sock, send_mutex, network, stats, op, calls, outcome, answer>>

ReceiveCheck(t) ==
    /\ pc[t] = "receiveCheck"
    /\ IF connected THEN Goto(t, "receiving") /\ UNCHANGED outcome
                    ELSE Finish(t, "receiveStats", "receive_errors")
    /\ UNCHANGED <<sock, mutexes, network, stats, op, calls, answer>>

\* Packet::deserialize() refuses a damaged and a malformed frame alike.
Deserialized(d) == IF d.mark = "intact" THEN {d.reply_to} ELSE {}
CounterFor(d)   == IF Deserialized(d) = {} THEN "checksum_errors" ELSE "packets_received"

Receive(t) ==
    /\ pc[t] = "receiving" /\ queue # <<>>
    /\ answer' = [answer EXCEPT ![t] = Deserialized(Head(queue))]
    /\ Finish(t, "receiveStats", CounterFor(Head(queue)))
    /\ queue' = Tail(queue)
    /\ UNCHANGED <<sock, mutexes, wire, stats, op, calls>>

\* Mutants of Expires: only the whole seconds of the timeout reach the kernel,
\* or its milliseconds are taken for microseconds.
ExpiresBySeconds(t) == /\ ReceiveTimeout >= 1000
                       /\ queue = <<>>
                       /\ ReplyDelay >= ReceiveTimeout \/ Current(t) \notin wire

ExpiresEarly(t) == /\ ReceiveTimeout > 0
                   /\ queue = <<>>
                   /\ ReplyDelay * 1000 >= ReceiveTimeout \/ Current(t) \notin wire

\* SO_RCVTIMEO: recv() gives up after receive_timeout, and a zero timeout means
\* that it never does.  A reply that is on its way beats the timeout if the
\* glove answers sooner than that.
Expires(t) == /\ ReceiveTimeout > 0
              /\ queue = <<>>
              /\ ReplyDelay >= ReceiveTimeout \/ Current(t) \notin wire

Expire(t) ==
    /\ pc[t] = "receiving" /\ Expires(t)
    /\ Finish(t, "receiveStats", "timeouts")
    /\ UNCHANGED <<sock, mutexes, network, stats, op, calls, answer>>

ReceiveFails(t) ==
    /\ pc[t] = "receiving" /\ ("receiveError" \in Faults \/ socket_fd \notin kernel)
    /\ Finish(t, "receiveStats", "receive_errors")
    /\ UNCHANGED <<sock, mutexes, network, stats, op, calls, answer>>

ReceiveStats(t) ==
    /\ pc[t] = "receiveStats"
    /\ Count(t) /\ receive_mutex' = {}
    /\ Return(t)
    /\ UNCHANGED <<sock, send_mutex, network, op, calls, outcome, answer>>

\* reset_statistics(), under stats_mutex_ alone.
Reset(t) ==
    /\ pc[t] = "resetting"
    /\ stats' = ZeroStats
    /\ Return(t)
    /\ UNCHANGED <<sock, mutexes, network, op, calls, outcome, answer>>

Proceed(t) ==
    \/ LockSend(t) \/ LockReceive(t)
    \/ AlreadyConnected(t) \/ OpenSocket(t) \/ Connected(t)
    \/ CloseSocket(t) \/ Disconnected(t)
    \/ SendCheck(t) \/ Transmit(t) \/ SendStats(t)
    \/ ReceiveCheck(t) \/ Receive(t) \/ Expire(t) \/ ReceiveStats(t)
    \/ Reset(t)

Fail(t) == SocketFails(t) \/ SetupFails(t) \/ SendFails(t) \/ ReceiveFails(t)

(***************************************************************************)
(* The glove and the network (external).  The local port is fixed, so a    *)
(* reply reaches whichever socket is open when it arrives; without one, or *)
(* with a full buffer, the kernel drops it.                                *)
(***************************************************************************)
Deliver(r) ==
    /\ r \in wire
    /\ \E m \in Arrivals :
          queue' = IF socket_fd \in kernel /\ Len(queue) < MaxQueue
                   THEN Append(queue, [reply_to |-> r, mark |-> m]) ELSE queue
    /\ wire' = wire \ {r} \/ (wire' = wire /\ "duplicate" \in Faults)
    /\ UNCHANGED <<sock, mutexes, stats, local>>

Lose(r) ==
    /\ r \in wire /\ "lose" \in Faults
    /\ wire' = wire \ {r}
    /\ UNCHANGED <<sock, mutexes, queue, stats, local>>

Next == \/ \E t \in Threads : Start(t) \/ Proceed(t) \/ Fail(t)
        \/ \E r \in wire : Deliver(r) \/ Lose(r)

\* A thread inside a call keeps running; nobody has to call, no system call has
\* to fail, and neither the glove nor the network has to answer.
Fairness == \A t \in Threads : WF_vars(Proceed(t))

Spec == Init /\ [][Next]_vars /\ Fairness

-----------------------------------------------------------------------------
Labels == {"idle", "lockSend", "lockReceive", "connecting", "settingUp", "closing",
           "closed", "sendCheck", "sending", "sendStats", "receiveCheck",
           "receiving", "receiveStats", "resetting"}

\* Every variable keeps its type; a mutex has at most one owner.
TypeOK ==
    /\ socket_fd \in Nat /\ connected \in BOOLEAN /\ kernel \in SUBSET (Nat \ {0})
    /\ send_mutex \in {{}} \cup {{t} : t \in Threads}
    /\ receive_mutex \in {{}} \cup {{t} : t \in Threads}
    /\ wire \in SUBSET Request /\ queue \in Seq(Datagram)
    /\ stats \in [Counters -> Nat]
    /\ pc \in [Threads -> Labels] /\ op \in [Threads -> Methods]
    /\ calls \in [Threads -> 0..MaxCalls]
    /\ outcome \in [Threads -> Counters]
    /\ answer \in [Threads -> {{}} \cup {{r} : r \in Request}]

\* A thread that checked connected_ and entered send() or recv() keeps an open,
\* connected socket under it for as long as the call lasts: disconnect() and
\* connect() on other threads cannot pull it away (udp_client.cpp:138-204).
SocketStable ==
    \A t \in Threads : pc[t] \in {"sending", "receiving"}
                           => connected /\ socket_fd \in kernel

\* The process holds exactly the descriptor the client remembers: no failure of
\* connect() and no race of connect() with disconnect() leaks a socket or closes
\* one twice (udp_client.cpp:48-136).
NoDescriptorLeak == kernel = {socket_fd} \ {0}

\* The places in the code that lie under one mutex, the other, or both.
SendSection    == {"sendCheck", "sending", "sendStats"}
ReceiveSection == {"receiveCheck", "receiving", "receiveStats"}
BothSection    == {"connecting", "settingUp", "closing", "closed"}

\* Each exchange that was sent is counted exactly once when it ends: as a reply,
\* a timeout, an error or a bad frame (udp_client.cpp:239-259).  For threads that
\* exchange, connect and disconnect only.
Waiting == {t \in Threads : /\ op[t] = "exchange"
                            /\ pc[t] \in ReceiveSection \cup {"lockReceive"}}
ExchangesCounted ==
    stats["packets_sent"] =
        Cardinality(Waiting) + stats["packets_received"] + stats["timeouts"]
            + stats["receive_errors"] + stats["checksum_errors"]

\* A packet that send_and_receive() returns is the reply to the request it sent
\* (udp_client.hpp:85-90: "wait for response ... Response packet or nullopt").
RepliesMatch ==
    \A t \in Threads : op[t] = "exchange" /\ answer[t] # {} => answer[t] = {Current(t)}

\* Every call returns, whatever the network does and whoever holds the mutexes
\* (udp_client.hpp:79-80: "blocking with timeout").
CallsReturn == \A t \in Threads : pc[t] # "idle" ~> pc[t] = "idle"
=============================================================================
