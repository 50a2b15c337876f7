------------------------------ MODULE Transport ------------------------------
(***************************************************************************)
(* What UdpClient promises the components above it, with no mutex, no      *)
(* socket and no buffer: a call either gives up or hands over the reply to *)
(* some request that was sent while the link was up and whose reply is     *)
(* still pending.  It does not promise that the request was the caller's.  *)
(***************************************************************************)
EXTENDS Naturals

CONSTANTS Threads, MaxCalls

VARIABLES
    up,        \* requests can be sent and replies taken
    pending,   \* requests whose reply may still come
    phase,     \* "idle", "asking" before the send, "awaiting" after it
    calls,     \* calls each thread has made: the last one numbers its request
    answer     \* what the last call returned

tvars == <<up, pending, phase, calls, answer>>

Requests == Threads \X (1..MaxCalls)

TInit ==
    /\ up = FALSE /\ pending = {}
    /\ phase = [t \in Threads |-> "idle"]
    /\ calls = [t \in Threads |-> 0]
    /\ answer = [t \in Threads |-> {}]

\* A call begins: one that only manages the link, one that sends, or one that
\* only listens.  What the call before it returned is no longer there.
Begin(t) ==
    /\ phase[t] = "idle" /\ calls[t] < MaxCalls
    /\ calls' = [calls EXCEPT ![t] = @ + 1]
    /\ answer' = [answer EXCEPT ![t] = {}]
    /\ \E p \in {"idle", "asking", "awaiting"} : phase' = [phase EXCEPT ![t] = p]
    /\ UNCHANGED <<up, pending>>

\* The request leaves; the call waits for a reply, or returns if it wants none.
Send(t) ==
    /\ phase[t] = "asking" /\ up
    /\ pending' = pending \cup {<<t, calls[t]>>}
    /\ \E p \in {"idle", "awaiting"} : phase' = [phase EXCEPT ![t] = p]
    /\ UNCHANGED <<up, calls, answer>>

\* A reply may be there twice.
Take(t) ==
    /\ phase[t] = "awaiting" /\ up
    /\ \E r \in pending : /\ answer' = [answer EXCEPT ![t] = {r}]
                          /\ pending' \in {pending, pending \ {r}}
    /\ phase' = [phase EXCEPT ![t] = "idle"]
    /\ UNCHANGED <<up, calls>>

\* The send failed, or no reply came.
GiveUp(t) ==
    /\ phase[t] # "idle"
    /\ phase' = [phase EXCEPT ![t] = "idle"]
    /\ UNCHANGED <<up, pending, calls, answer>>

Forget ==
    /\ pending' \in SUBSET pending
    /\ UNCHANGED <<up, phase, calls, answer>>

SetLink == up' = ~up /\ UNCHANGED <<pending, phase, calls, answer>>

TNext == Forget \/ SetLink \/ \E t \in Threads : Begin(t) \/ Send(t) \/ Take(t) \/ GiveUp(t)

TSpec == TInit /\ [][TNext]_tvars
=============================================================================
