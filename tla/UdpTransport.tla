---------------------------- MODULE UdpTransport -----------------------------
(* UdpClient implements Transport: the mapping.                              *)
EXTENDS UdpClient

\* A call is over, seen from above, once its outcome is decided, except that an
\* exchange still has to listen after a send that worked.
Phase(t) ==
    CASE pc[t] \in {"lockSend", "sendCheck", "sending"} /\ ~BothLocks(op[t]) -> "asking"
      [] pc[t] \in {"lockReceive", "receiveCheck", "receiving"} /\ ~BothLocks(op[t]) -> "awaiting"
      [] pc[t] = "sendStats" /\ AfterSend(t) = "lockReceive" -> "awaiting"
      [] OTHER -> "idle"

Buffered == {queue[i].reply_to : i \in {j \in 1..Len(queue) : queue[j].mark = "intact"}}

Abstract == INSTANCE Transport WITH
    up <- connected,
    pending <- wire \cup Buffered,
    phase <- [t \in Threads |-> Phase(t)]

\* The client implements the transport the components rely on: no reply out of
\* nothing, none after a failed send, none over a closed link
\* (udp_client.cpp:138-211).
TransportSpec == Abstract!TSpec
=============================================================================
