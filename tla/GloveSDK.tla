------------------------------- MODULE GloveSDK -------------------------------
(***************************************************************************)
(* The life cycle of GloveSDK (src/glove_sdk.cpp): initialize(),           *)
(* shutdown(), start(), stop(), the destructor, the unified update loop    *)
(* they start and join, and the API calls that use the components          *)
(* meanwhile.  Only initialize() and shutdown() take init_mutex_;          *)
(* everything else is guarded by the atomics initialized_ and              *)
(* thread_running_, read in one step and acted on in a later one.          *)
(***************************************************************************)
EXTENDS Naturals, Sequences, FiniteSets

CONSTANTS
    Clients,       \* application threads that call the SDK
    Applications,  \* which methods each of them calls: functions on Clients
    MaxCalls,      \* bound: calls made by each client
    Loops,         \* identities of update threads, reused once joined
    SpawnMayFail   \* whether std::thread's constructor may throw

Methods == {"initialize", "shutdown", "start", "stop", "use", "destroy"}

\* The components in the order initialize() creates them.
Order == <<"udp", "motor", "encoder", "imu">>
Parts == {Order[i] : i \in 1..4}
Stages == 1..4

ASSUME SdkAssumption ==
    /\ Applications \subseteq [Clients -> SUBSET Methods]
    /\ MaxCalls \in Nat
    /\ SpawnMayFail \in BOOLEAN

VARIABLES
    allowed,           \* the application at hand
    auto_start_thread, \* GloveConfig::auto_start_thread
    init_mutex, initialized, thread_running,
    update_thread,     \* the loop update_thread_ can join, if any
    parts,             \* components that exist
    loop, at,          \* each update thread: what it does, for which component
    pc, op, stage,     \* each client: where it is, in which method and component
    calls

config == <<allowed, auto_start_thread>>
sdk    == <<init_mutex, initialized, thread_running, update_thread, parts>>
loops  == <<loop, at>>
client == <<pc, op, stage, calls>>
vars   == <<config, sdk, loops, client>>

Init ==
    /\ allowed \in Applications /\ auto_start_thread \in BOOLEAN
    /\ init_mutex = {} /\ initialized = FALSE /\ thread_running = FALSE
    /\ update_thread = {} /\ parts = {}
    /\ loop = [k \in Loops |-> "unborn"] /\ at = [k \in Loops |-> 2]
    /\ pc = [c \in Clients |-> "idle"]
    /\ op = [c \in Clients |-> "use"]
    /\ stage = [c \in Clients |-> 1]
    /\ calls = [c \in Clients |-> 0]

Goto(c, label)  == pc' = [pc EXCEPT ![c] = label]
Stage(c, i)     == stage' = [stage EXCEPT ![c] = i]
Unlock          == init_mutex' = {}
ReturnUnlocked(c) == Goto(c, IF op[c] = "destroy" THEN "destroyed" ELSE "idle") /\ Unlock

(***************************************************************************)
(* A call begins.  An API call goes to one component: the motors, the      *)
(* sensors, or the UDP client for the statistics.                          *)
(***************************************************************************)
FirstStep(o) == CASE o \in {"initialize", "shutdown", "destroy"} -> "lock"
                  [] o = "start" -> "startEnsure"
                  [] o = "stop"  -> "stopCheck"
                  [] o = "use"   -> "useEnsure"

Begin(c) ==
    /\ pc[c] = "idle" /\ calls[c] < MaxCalls
    /\ \E o \in allowed[c] :
          /\ op' = [op EXCEPT ![c] = o] /\ Goto(c, FirstStep(o))
          /\ \E i \in Stages : Stage(c, i) /\ (o # "use" => i = 1)
    /\ calls' = [calls EXCEPT ![c] = @ + 1]
    /\ UNCHANGED <<config, sdk, loops>>

Lock(c) ==
    /\ pc[c] = "lock" /\ init_mutex = {}
    /\ init_mutex' = {c}
    /\ Goto(c, IF op[c] = "initialize" THEN "initCheck" ELSE "downCheck")
    /\ UNCHANGED <<config, initialized, thread_running, update_thread, parts, loops, op, stage, calls>>

(***************************************************************************)
(* initialize()                                                            *)
(***************************************************************************)
InitCheck(c) ==
    /\ pc[c] = "initCheck"
    /\ IF initialized THEN ReturnUnlocked(c) ELSE Goto(c, "create") /\ UNCHANGED init_mutex
    /\ UNCHANGED <<config, initialized, thread_running, update_thread, parts, loops, op, stage, calls>>

Create(c) ==
    /\ pc[c] = "create"
    /\ parts' = parts \cup {Order[stage[c]]}
    /\ Goto(c, "bringUp")
    /\ UNCHANGED <<config, init_mutex, initialized, thread_running, update_thread, loops, op, stage, calls>>

\* connect(), or the component's own initialize(), succeeds.
BringUp(c) ==
    /\ pc[c] = "bringUp"
    /\ IF stage[c] < 4 THEN Goto(c, "create") /\ Stage(c, stage[c] + 1)
                       ELSE Goto(c, "publish") /\ UNCHANGED stage
    /\ UNCHANGED <<config, sdk, loops, op, calls>>

\* Mutant of BringUpFails: the error path forgets cleanup_resources().
BringUpFailsDirty(c) ==
    /\ pc[c] = "bringUp"
    /\ ReturnUnlocked(c)
    /\ UNCHANGED <<config, initialized, thread_running, update_thread, parts, loops, op, stage, calls>>

BringUpFails(c) ==
    /\ pc[c] = "bringUp"
    /\ Goto(c, "free") /\ Stage(c, 4)
    /\ UNCHANGED <<config, sdk, loops, op, calls>>

Publish(c) ==
    /\ pc[c] = "publish"
    /\ initialized' = TRUE
    /\ IF auto_start_thread THEN Goto(c, "startEnsure") /\ UNCHANGED init_mutex
                            ELSE ReturnUnlocked(c)
    /\ UNCHANGED <<config, thread_running, update_thread, parts, loops, op, stage, calls>>

\* cleanup_resources(): the components go in reverse order, the UDP client last.
Free(c) ==
    /\ pc[c] = "free"
    /\ parts' = parts \ {Order[stage[c]]}
    /\ IF stage[c] > 1 THEN Stage(c, stage[c] - 1) /\ UNCHANGED <<pc, init_mutex>>
                       ELSE ReturnUnlocked(c) /\ UNCHANGED stage
    /\ UNCHANGED <<config, initialized, thread_running, update_thread, loops, op, calls>>

(***************************************************************************)
(* start(), also called by initialize() with init_mutex_ held.  When the   *)
(* std::thread constructor throws, the exception leaves both.              *)
(***************************************************************************)
ReturnFromStart(c) == IF op[c] = "initialize" THEN ReturnUnlocked(c)
                                              ELSE Goto(c, "idle") /\ UNCHANGED init_mutex

StartEnsure(c) ==
    /\ pc[c] = "startEnsure"
    /\ IF initialized THEN Goto(c, "startCheck") /\ UNCHANGED init_mutex ELSE ReturnFromStart(c)
    /\ UNCHANGED <<config, initialized, thread_running, update_thread, parts, loops, op, stage, calls>>

StartCheck(c) ==
    /\ pc[c] = "startCheck"
    /\ IF thread_running THEN ReturnFromStart(c) ELSE Goto(c, "startFlag") /\ UNCHANGED init_mutex
    /\ UNCHANGED <<config, initialized, thread_running, update_thread, parts, loops, op, stage, calls>>

StartFlag(c) ==
    /\ pc[c] = "startFlag"
    /\ thread_running' = TRUE
    /\ Goto(c, "spawn")
    /\ UNCHANGED <<config, init_mutex, initialized, update_thread, parts, loops, op, stage, calls>>

Spawn(c) ==
    /\ pc[c] = "spawn" /\ update_thread = {}
    /\ \E k \in Loops :
          /\ loop[k] = "unborn"
          /\ loop' = [loop EXCEPT ![k] = "check"] /\ at' = [at EXCEPT ![k] = 2]
          /\ update_thread' = {k}
    /\ ReturnFromStart(c)
    /\ UNCHANGED <<config, initialized, thread_running, parts, op, stage, calls>>

SpawnFails(c) ==
    /\ pc[c] = "spawn" /\ SpawnMayFail
    /\ ReturnFromStart(c)
    /\ UNCHANGED <<config, initialized, thread_running, update_thread, parts, loops, op, stage, calls>>

(***************************************************************************)
(* stop(), also called by shutdown(), which goes on to retract             *)
(* initialized_ and only then frees the components.                        *)
(***************************************************************************)
ReturnFromStop(c) == Goto(c, IF op[c] = "stop" THEN "idle" ELSE "retract")

StopCheck(c) ==
    /\ pc[c] = "stopCheck"
    /\ IF thread_running THEN Goto(c, "stopFlag") ELSE ReturnFromStop(c)
    /\ UNCHANGED <<config, sdk, loops, op, stage, calls>>

\* Mutant of StopFlag: the flag is never cleared.
StopFlagKept(c) ==
    /\ pc[c] = "stopFlag"
    /\ Goto(c, "joinable")
    /\ UNCHANGED <<config, sdk, loops, op, stage, calls>>

StopFlag(c) ==
    /\ pc[c] = "stopFlag"
    /\ thread_running' = FALSE
    /\ Goto(c, "joinable")
    /\ UNCHANGED <<config, init_mutex, initialized, update_thread, parts, loops, op, stage, calls>>

\* Mutant of Joinable: stop() does not join.
JoinableIgnored(c) ==
    /\ pc[c] = "joinable"
    /\ ReturnFromStop(c)
    /\ UNCHANGED <<config, sdk, loops, op, stage, calls>>

Joinable(c) ==
    /\ pc[c] = "joinable"
    /\ IF update_thread # {} THEN Goto(c, "join") ELSE ReturnFromStop(c)
    /\ UNCHANGED <<config, sdk, loops, op, stage, calls>>

\* Mutant of Join: the thread is detached instead.
JoinDetached(c) ==
    /\ pc[c] = "join" /\ update_thread # {}
    /\ update_thread' = {}
    /\ ReturnFromStop(c)
    /\ UNCHANGED <<config, init_mutex, initialized, thread_running, parts, loops, op, stage, calls>>

Join(c) ==
    /\ pc[c] = "join"
    /\ \E k \in update_thread : loop[k] = "ended" /\ loop' = [loop EXCEPT ![k] = "unborn"]
    /\ update_thread' = {}
    /\ ReturnFromStop(c)
    /\ UNCHANGED <<config, init_mutex, initialized, thread_running, parts, at, op, stage, calls>>

\* Mutant of DownCheck: shutdown() does not stop the update thread.
DownCheckRunning(c) ==
    /\ pc[c] = "downCheck"
    /\ IF initialized THEN Goto(c, "retract") /\ UNCHANGED init_mutex ELSE ReturnUnlocked(c)
    /\ UNCHANGED <<config, initialized, thread_running, update_thread, parts, loops, op, stage, calls>>

DownCheck(c) ==
    /\ pc[c] = "downCheck"
    /\ IF initialized THEN Goto(c, "stopCheck") /\ UNCHANGED init_mutex ELSE ReturnUnlocked(c)
    /\ UNCHANGED <<config, initialized, thread_running, update_thread, parts, loops, op, stage, calls>>

\* Mutant of Retract: the flag stays up while the components go.
RetractForgotten(c) ==
    /\ pc[c] = "retract"
    /\ Goto(c, "free") /\ Stage(c, 4)
    /\ UNCHANGED <<config, sdk, loops, op, calls>>

Retract(c) ==
    /\ pc[c] = "retract"
    /\ initialized' = FALSE
    /\ Goto(c, "free") /\ Stage(c, 4)
    /\ UNCHANGED <<config, init_mutex, thread_running, update_thread, parts, loops, op, calls>>

(***************************************************************************)
(* Every other method: ensure_initialized(), then the component.           *)
(***************************************************************************)
UseEnsure(c) ==
    /\ pc[c] = "useEnsure"
    /\ Goto(c, IF initialized THEN "using" ELSE "idle")
    /\ UNCHANGED <<config, sdk, loops, op, stage, calls>>

Used(c) ==
    /\ pc[c] = "using"
    /\ Goto(c, "idle")
    /\ UNCHANGED <<config, sdk, loops, op, stage, calls>>

(***************************************************************************)
(* A client whose next step is std::terminate, the end of the program: it  *)
(* assigns a new thread over one that can still be joined, joins one that  *)
(* another call has joined already, or has destroyed the object with a     *)
(* thread that can still be joined.  The model takes no such step.         *)
(***************************************************************************)
Terminates(c) ==
    \/ pc[c] = "spawn" /\ update_thread # {}
    \/ pc[c] = "join" /\ update_thread = {}
    \/ pc[c] = "destroyed" /\ update_thread # {}

Step(c) ==
    \/ Lock(c)
    \/ InitCheck(c) \/ Create(c) \/ BringUp(c) \/ BringUpFails(c) \/ Publish(c) \/ Free(c)
    \/ StartEnsure(c) \/ StartCheck(c) \/ StartFlag(c) \/ Spawn(c) \/ SpawnFails(c)
    \/ StopCheck(c) \/ StopFlag(c) \/ Joinable(c) \/ Join(c)
    \/ DownCheck(c) \/ Retract(c)
    \/ UseEnsure(c) \/ Used(c)

(***************************************************************************)
(* unified_update_loop(): thread_running_ is read before each component,   *)
(* and the pointer to the component before it is used.                     *)
(***************************************************************************)
LoopCheck(k) ==
    /\ loop[k] = "check"
    /\ loop' = [loop EXCEPT ![k] = IF thread_running THEN "test" ELSE "ended"]
    /\ UNCHANGED <<config, sdk, client, at>>

\* Mutant of NextStage: the loop does not start over after the IMU.
NextStageOnward(i) == i + 1

NextStage(i) == IF i = 4 THEN 2 ELSE i + 1

LoopTest(k) ==
    /\ loop[k] = "test"
    /\ IF Order[at[k]] \in parts
       THEN loop' = [loop EXCEPT ![k] = "using"] /\ UNCHANGED at
       ELSE loop' = [loop EXCEPT ![k] = "check"] /\ at' = [at EXCEPT ![k] = NextStage(@)]
    /\ UNCHANGED <<config, sdk, client>>

\* update_once() returns; after the IMU the loop sleeps and starts over.
LoopUsed(k) ==
    /\ loop[k] = "using"
    /\ loop' = [loop EXCEPT ![k] = "check"] /\ at' = [at EXCEPT ![k] = NextStage(@)]
    /\ UNCHANGED <<config, sdk, client>>

LoopStep(k) == LoopCheck(k) \/ LoopTest(k) \/ LoopUsed(k)

Next == \/ \E c \in Clients : Begin(c) \/ Step(c)
        \/ \E k \in Loops : LoopStep(k)

\* A client inside a call and an update thread keep running: update_once() and
\* the API calls return because every receive has a timeout.
Fairness == /\ \A c \in Clients : WF_vars(Step(c))
            /\ \A k \in Loops : WF_vars(LoopStep(k))

Spec == Init /\ [][Next]_vars /\ Fairness

-----------------------------------------------------------------------------
Labels == {"idle", "destroyed", "lock", "initCheck", "create", "bringUp", "publish", "free",
           "startEnsure", "startCheck", "startFlag", "spawn",
           "stopCheck", "stopFlag", "joinable", "join", "downCheck", "retract",
           "useEnsure", "using"}

\* Every variable keeps its type.
TypeOK ==
    /\ allowed \in Applications /\ auto_start_thread \in BOOLEAN
    /\ init_mutex \in {{}} \cup {{c} : c \in Clients}
    /\ initialized \in BOOLEAN /\ thread_running \in BOOLEAN
    /\ update_thread \in {{}} \cup {{k} : k \in Loops}
    /\ parts \in SUBSET Parts
    /\ loop \in [Loops -> {"unborn", "check", "test", "using", "ended"}]
    /\ at \in [Loops -> 2..4]
    /\ pc \in [Clients -> Labels] /\ op \in [Clients -> Methods]
    /\ stage \in [Clients -> Stages] /\ calls \in [Clients -> 0..MaxCalls]

\* Whoever sees initialized_ finds all four components: they are published
\* after the last one is up and retracted before the first one goes
\* (glove_sdk.cpp:84, 107-109).
PartsBacked == initialized => parts = Parts

\* Nobody is inside a component that has been freed: no API call
\* (glove_sdk.cpp:107 "so other threads stop using components") and no update
\* loop, which shutdown() joins first.
NoUseAfterFree ==
    /\ \A c \in Clients : pc[c] = "using" => Order[stage[c]] \in parts
    /\ \A k \in Loops : loop[k] = "using" => Order[at[k]] \in parts

\* No call ends in std::terminate (glove_sdk.cpp:17-23, 122-148).
NoTerminate == \A c \in Clients : ~Terminates(c)

\* There is one update thread at most, and update_thread_ can join it.
NoOrphanLoop == \A k \in Loops : loop[k] # "unborn" => update_thread = {k}

\* An SDK that is not initialized, with nobody initializing it or shutting it
\* down, is at rest: a failed initialize() and every shutdown() leave no
\* component, no update thread and no running flag behind.
QuietWhenDown == ~initialized /\ init_mutex = {} =>
                    parts = {} /\ update_thread = {} /\ ~thread_running

\* is_running() tells whether the update thread is running
\* (docs/API_REFERENCE.md:117-119), as long as no start() or stop() is under way.
InStartOrStop(c) == pc[c] \in {"spawn", "joinable", "join"}
RunningMeansLoop ==
    (thread_running /\ \A c \in Clients : ~InStartOrStop(c))
        => \E k \in Loops : loop[k] \in {"check", "test", "using"}

\* Every call returns; in particular shutdown() and stop() wait for an update
\* loop that does notice the flag (glove_sdk.cpp:138-148, 165-175).
CallsReturn == \A c \in Clients : pc[c] # "idle" ~> pc[c] \in {"idle", "destroyed"}
===============================================================================
