----------------------------- MODULE UpdateThread -----------------------------
(***************************************************************************)
(* The update thread that EncoderReader, ImuReader and MotorController can *)
(* each run for themselves: start_update_thread(), stop_update_thread(),   *)
(* the stop in the destructor, and the loop.  The three are written alike; *)
(* the lines are those of src/encoder_reader.cpp.  The flag                *)
(* thread_running_ is atomic, but it is read in one step and acted on in a *)
(* later one, and nothing guards the std::thread.                          *)
(*                                                                         *)
(* A component extends this module, gives its callers their methods and    *)
(* its loop an update_once(), which begins at the place "read" and ends at *)
(* "loopCheck".                                                            *)
(***************************************************************************)
EXTENDS Naturals

CONSTANTS
    Callers,        \* application threads
    Loops,          \* identities of update threads, reused once joined
    SpawnMayFail    \* whether std::thread's constructor may throw

Actors == Callers \cup Loops

VARIABLES
    thread_running,
    update_thread,   \* the loop update_thread_ can join, if any
    pc, op           \* each actor: where it is, in which method

thread == <<thread_running, update_thread, pc, op>>

ThreadInit ==
    /\ thread_running = FALSE /\ update_thread = {}
    /\ pc = [a \in Actors |-> IF a \in Callers THEN "idle" ELSE "unborn"]
    /\ op = [a \in Actors |-> "update"]

Goto(a, label) == pc' = [pc EXCEPT ![a] = label]

\* A method ends; a loop's update_once() does, too.
After(a) == IF a \in Loops THEN "loopCheck" ELSE IF op[a] = "destroy" THEN "destroyed" ELSE "idle"
Return(a) == Goto(a, After(a))

(***************************************************************************)
(* start_update_thread(), also at the end of initialize().                 *)
(***************************************************************************)
StartCheck(c) ==
    /\ pc[c] = "startCheck"
    /\ IF thread_running THEN Return(c) ELSE Goto(c, "startFlag")
    /\ UNCHANGED <<thread_running, update_thread, op>>

StartFlag(c) ==
    /\ pc[c] = "startFlag"
    /\ thread_running' = TRUE
    /\ Goto(c, "spawn")
    /\ UNCHANGED <<update_thread, op>>

Spawn(c) ==
    /\ pc[c] = "spawn" /\ update_thread = {}
    /\ \E k \in Loops : /\ pc[k] = "unborn"
                        /\ pc' = [pc EXCEPT ![c] = After(c), ![k] = "loopCheck"]
                        /\ update_thread' = {k}
    /\ UNCHANGED <<thread_running, op>>

\* Mutant of SpawnFails: the flag stays up, as it does in GloveSDK.
SpawnFailsFlagged(c) ==
    /\ pc[c] = "spawn" /\ SpawnMayFail
    /\ Return(c)
    /\ UNCHANGED <<thread_running, update_thread, op>>

\* std::system_error: the flag goes down again, and the exception leaves the call.
SpawnFails(c) ==
    /\ pc[c] = "spawn" /\ SpawnMayFail
    /\ thread_running' = FALSE
    /\ Return(c)
    /\ UNCHANGED <<update_thread, op>>

(***************************************************************************)
(* stop_update_thread(), also all that the destructor does.                *)
(***************************************************************************)
StopCheck(c) ==
    /\ pc[c] = "stopCheck"
    /\ IF thread_running THEN Goto(c, "stopFlag") ELSE Return(c)
    /\ UNCHANGED <<thread_running, update_thread, op>>

StopFlag(c) ==
    /\ pc[c] = "stopFlag"
    /\ thread_running' = FALSE
    /\ Goto(c, "joinable")
    /\ UNCHANGED <<update_thread, op>>

\* Mutant of Joinable: stop_update_thread() does not wait for the thread.
JoinableIgnored(c) ==
    /\ pc[c] = "joinable"
    /\ Return(c)
    /\ UNCHANGED <<thread_running, update_thread, op>>

Joinable(c) ==
    /\ pc[c] = "joinable"
    /\ IF update_thread # {} THEN Goto(c, "join") ELSE Return(c)
    /\ UNCHANGED <<thread_running, update_thread, op>>

\* Mutant of Join: the thread is detached instead.
JoinDetached(c) ==
    /\ pc[c] = "join" /\ update_thread # {}
    /\ Return(c)
    /\ update_thread' = {}
    /\ UNCHANGED <<thread_running, op>>

Join(c) ==
    /\ pc[c] = "join"
    /\ \E k \in update_thread : /\ pc[k] = "ended"
                                /\ pc' = [pc EXCEPT ![c] = After(c), ![k] = "unborn"]
    /\ update_thread' = {}
    /\ UNCHANGED <<thread_running, op>>

\* Mutant of LoopCheck: the loop looks at the flag once, when it starts.
LoopCheckOnce(k) ==
    /\ pc[k] = "loopCheck"
    /\ Goto(k, "read")
    /\ UNCHANGED <<thread_running, update_thread, op>>

LoopCheck(k) ==
    /\ pc[k] = "loopCheck"
    /\ Goto(k, IF thread_running THEN "read" ELSE "ended")
    /\ UNCHANGED <<thread_running, update_thread, op>>

Manage(c) == \/ StartCheck(c) \/ StartFlag(c) \/ Spawn(c) \/ SpawnFails(c)
             \/ StopCheck(c) \/ StopFlag(c) \/ Joinable(c) \/ Join(c)

-----------------------------------------------------------------------------
ThreadLabels == {"idle", "destroyed", "startCheck", "startFlag", "spawn",
                 "stopCheck", "stopFlag", "joinable", "join",
                 "unborn", "loopCheck", "ended"}

\* A caller whose next step is std::terminate: it assigns a thread over one that
\* can still be joined, joins one that is joined already, or has destroyed the
\* component with a thread that can still be joined.  The model takes no such step.
Terminates(c) ==
    \/ pc[c] = "spawn" /\ update_thread # {}
    \/ pc[c] = "join" /\ update_thread = {}
    \/ pc[c] = "destroyed" /\ update_thread # {}

\* No call ends in std::terminate, as long as one thread starts, stops and
\* destroys (encoder_reader.cpp:21-27, 51-77).
NoTerminate == \A c \in Callers : ~Terminates(c)

\* The flag tells the truth whenever nobody is between flag and thread: it is up
\* exactly while there is a thread, also after one could not be created
\* (encoder_reader.hpp:81 "Check if update thread is running",
\* encoder_reader.cpp:56-64).
Managing(c) == pc[c] \in {"spawn", "joinable", "join"}
FlagMeansThread ==
    (\A c \in Callers : ~Managing(c)) => (thread_running <=> update_thread # {})

\* No update thread runs without a handle that can join it, and none outlives
\* the component whose mutexes it takes (encoder_reader.cpp:21-27, 67-77).
NoOrphanLoop ==
    /\ \A k \in Loops : pc[k] # "unborn" => update_thread = {k}
    /\ (\E c \in Callers : pc[c] = "destroyed") => \A k \in Loops : pc[k] = "unborn"
===============================================================================
