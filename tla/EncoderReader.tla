---------------------------- MODULE EncoderReader -----------------------------
(***************************************************************************)
(* EncoderReader (src/encoder_reader.cpp): a cached reading and a          *)
(* calibration, each under a mutex of its own, and the component's own     *)
(* update thread.  Unlike ImuReader's, the cache holds raw values: the     *)
(* calibration is applied whenever somebody asks for angles.               *)
(*                                                                         *)
(* One channel stands for the sixteen.  From the ADC's counts to degrees   *)
(* all conversions are linear, so one count is 360/65536 of a degree and   *)
(* angles are given in counts; the scale factors stay 1, the only value    *)
(* the SDK gives them.  A reading is where the hand was when it was taken. *)
(***************************************************************************)
EXTENDS UpdateThread, Integers

CONSTANTS
    Applications,   \* which methods each caller calls: functions on Callers
    MaxCalls,       \* bound: calls made by each caller: a function on Callers
    Poses,          \* ADC values the hand can be in
    MaxMoves        \* bound: how often the hand moves

ADC_FULL_SCALE == 65536
Methods == {"initialize", "start", "stop", "destroy", "update", "calibrate",
            "set_calibration", "get_angles"}

ASSUME EncoderAssumption ==
    /\ Callers \cap Loops = {}
    /\ Applications \subseteq [Callers -> SUBSET Methods]
    /\ MaxCalls \in [Callers -> Nat] /\ MaxMoves \in Nat
    /\ Poses \subseteq 0..(ADC_FULL_SCALE - 1) /\ Poses # {}
    /\ SpawnMayFail \in BOOLEAN

VARIABLES
    allowed, auto_start_thread,       \* the application and the configuration at hand
    pose, moves,                      \* the hand
    cached_data, calibration,
    data_mutex, calibration_mutex,
    data,                             \* each actor: the reading at hand
    angle,                            \* what get_cached_angles() last returned
    calls

config  == <<allowed, auto_start_thread>>
hand    == <<pose, moves>>
shared  == <<cached_data, calibration>>
mutexes == <<data_mutex, calibration_mutex>>
local   == <<data, angle, calls>>
vars    == <<thread, config, hand, shared, mutexes, local>>

Uncalibrated == [is_calibrated |-> FALSE, zero |-> 0]
Presets      == {Uncalibrated} \cup {[is_calibrated |-> TRUE, zero |-> p] : p \in Poses}

Init ==
    /\ ThreadInit
    /\ allowed \in Applications /\ auto_start_thread \in BOOLEAN
    /\ pose \in Poses /\ moves = 0
    /\ cached_data = 0 /\ calibration = Uncalibrated
    /\ data_mutex = {} /\ calibration_mutex = {}
    /\ data = [a \in Actors |-> 0]
    /\ angle = [c \in Callers |-> {}]
    /\ calls = [c \in Callers |-> 0]

\* Mutant of Angle: the zero is added.
AngleAdded(c, adc) == IF c.is_calibrated THEN adc + c.zero ELSE adc

\* adc_to_voltages(), apply_calibration_unsafe() and voltages_to_angles().
Angle(c, adc) == IF c.is_calibrated THEN adc - c.zero ELSE adc

(***************************************************************************)
(* A call begins.  A component is destroyed by its owner, once nobody else *)
(* uses it or will.                                                        *)
(***************************************************************************)
FirstStep(o) == CASE o \in {"initialize", "update", "calibrate"} -> "read"
                  [] o = "start"                                 -> "startCheck"
                  [] o \in {"stop", "destroy"}                   -> "stopCheck"
                  [] o = "set_calibration"                       -> "lockCalibration"
                  [] o = "get_angles"                            -> "lockData"

Call(c) ==
    /\ pc[c] = "idle" /\ calls[c] < MaxCalls[c]
    /\ \A b \in Callers : pc[b] # "destroyed" /\ op[b] # "destroy"
    /\ \E o \in allowed[c] : /\ o = "destroy" => \A b \in Callers : pc[b] = "idle"
                             /\ op' = [op EXCEPT ![c] = o] /\ Goto(c, FirstStep(o))
    /\ calls' = [calls EXCEPT ![c] = @ + 1]
    /\ UNCHANGED <<thread_running, update_thread, config, hand, shared, mutexes, data, angle>>

Move ==
    /\ moves < MaxMoves
    /\ pose' \in Poses \ {pose}
    /\ moves' = moves + 1
    /\ UNCHANGED <<thread, config, shared, mutexes, local>>

\* read_encoders(), with no mutex held, and where the methods go with the reading.
AfterRead(o) == IF o = "calibrate" THEN "lockBoth" ELSE "lockData"

Read(a) ==
    /\ pc[a] = "read"
    /\ data' = [data EXCEPT ![a] = pose]
    /\ Goto(a, AfterRead(op[a]))
    /\ UNCHANGED <<thread_running, update_thread, op, config, hand, shared, mutexes, angle, calls>>

ReadFails(a) ==
    /\ pc[a] = "read"
    /\ Return(a)
    /\ UNCHANGED <<thread_running, update_thread, op, config, hand, shared, mutexes, local>>

(***************************************************************************)
(* The mutexes.                                                            *)
(***************************************************************************)
\* Mutant of LockData: a shared lock.
LockDataShared(a) ==
    /\ pc[a] = "lockData"
    /\ data_mutex' = data_mutex \cup {a}
    /\ Goto(a, "inData")
    /\ UNCHANGED <<thread_running, update_thread, op, config, hand, shared, calibration_mutex, local>>

LockData(a) ==
    /\ pc[a] = "lockData" /\ data_mutex = {}
    /\ data_mutex' = {a}
    /\ Goto(a, "inData")
    /\ UNCHANGED <<thread_running, update_thread, op, config, hand, shared, calibration_mutex, local>>

LockCalibration(a) ==
    /\ pc[a] = "lockCalibration" /\ calibration_mutex = {}
    /\ calibration_mutex' = {a}
    /\ Goto(a, "inCalibration")
    /\ UNCHANGED <<thread_running, update_thread, op, config, hand, shared, data_mutex, local>>

\* Mutant of LockBoth: only the calibration's.
LockBothHalf(a) ==
    /\ pc[a] = "lockBoth" /\ calibration_mutex = {}
    /\ calibration_mutex' = {a}
    /\ Goto(a, "inBoth")
    /\ UNCHANGED <<thread_running, update_thread, op, config, hand, shared, data_mutex, local>>

\* std::scoped_lock never waits for one with the other held.
LockBoth(a) ==
    /\ pc[a] = "lockBoth" /\ data_mutex = {} /\ calibration_mutex = {}
    /\ data_mutex' = {a} /\ calibration_mutex' = {a}
    /\ Goto(a, "inBoth")
    /\ UNCHANGED <<thread_running, update_thread, op, config, hand, shared, local>>

(***************************************************************************)
(* Under the mutexes.                                                      *)
(***************************************************************************)
\* update_once() is over; initialize() may go on to start the thread.
AfterStore(a) == IF op[a] = "initialize" /\ auto_start_thread THEN "startCheck" ELSE After(a)

\* Mutant of Store: a reading that is calibrated is left alone.
StoreOnce(a) ==
    /\ pc[a] = "inData" /\ op[a] # "get_angles"
    /\ cached_data' = IF calibration.is_calibrated THEN cached_data ELSE data[a]
    /\ data_mutex' = {}
    /\ Goto(a, AfterStore(a))
    /\ UNCHANGED <<thread_running, update_thread, op, config, hand, calibration,
                   calibration_mutex, local>>

Store(a) ==
    /\ pc[a] = "inData" /\ op[a] # "get_angles"
    /\ cached_data' = data[a]
    /\ data_mutex' = {}
    /\ Goto(a, AfterStore(a))
    /\ UNCHANGED <<thread_running, update_thread, op, config, hand, calibration,
                   calibration_mutex, local>>

\* calibrate_zero_point()
SetZero(a) ==
    /\ pc[a] = "inBoth"
    /\ calibration' = [is_calibrated |-> TRUE, zero |-> data[a]]
    /\ cached_data' = data[a]
    /\ data_mutex' = {} /\ calibration_mutex' = {}
    /\ Return(a)
    /\ UNCHANGED <<thread_running, update_thread, op, config, hand, local>>

\* set_calibration(), with the default or what get_calibration() once returned.
set_calibration(a) ==
    /\ pc[a] = "inCalibration" /\ op[a] = "set_calibration"
    /\ calibration' \in Presets
    /\ calibration_mutex' = {}
    /\ Return(a)
    /\ UNCHANGED <<thread_running, update_thread, op, config, hand, cached_data, data_mutex, local>>

\* get_cached_angles(): get_cached_data() first, apply_calibration() later.
get_cached_data(a) ==
    /\ pc[a] = "inData" /\ op[a] = "get_angles"
    /\ data' = [data EXCEPT ![a] = cached_data]
    /\ data_mutex' = {}
    /\ Goto(a, "lockCalibration")
    /\ UNCHANGED <<thread_running, update_thread, op, config, hand, shared, calibration_mutex,
                   angle, calls>>

get_cached_angles(a) ==
    /\ pc[a] = "inCalibration" /\ op[a] = "get_angles"
    /\ angle' = [angle EXCEPT ![a] = {Angle(calibration, data[a])}]
    /\ calibration_mutex' = {}
    /\ Return(a)
    /\ UNCHANGED <<thread_running, update_thread, op, config, hand, shared, data_mutex, data, calls>>

ManageThread(c) == Manage(c) /\ UNCHANGED <<config, hand, shared, mutexes, local>>
NextTurn(k)     == LoopCheck(k) /\ UNCHANGED <<config, hand, shared, mutexes, local>>

Acquire(a) == LockData(a) \/ LockCalibration(a) \/ LockBoth(a)
Work(a) ==
    \/ Read(a) \/ ReadFails(a) \/ Store(a) \/ SetZero(a)
    \/ set_calibration(a) \/ get_cached_data(a) \/ get_cached_angles(a)

Next == \/ Move
        \/ \E c \in Callers : Call(c) \/ ManageThread(c)
        \/ \E k \in Loops : NextTurn(k)
        \/ \E a \in Actors : Acquire(a) \/ Work(a)

\* A call or a loop that runs keeps running, and gets a mutex it finds free again
\* and again: nobody sleeps or waits for the glove with one.
Fairness ==
    /\ \A a \in Actors : WF_vars(Work(a)) /\ SF_vars(Acquire(a))
    /\ \A c \in Callers : WF_vars(ManageThread(c))
    /\ \A k \in Loops : WF_vars(NextTurn(k))

Spec == Init /\ [][Next]_vars /\ Fairness

-----------------------------------------------------------------------------
Labels == ThreadLabels \cup {"read", "lockData", "lockCalibration", "lockBoth",
                             "inData", "inCalibration", "inBoth"}
Adc         == 0..(ADC_FULL_SCALE - 1)
Calibration == [is_calibrated : BOOLEAN, zero : Adc]

\* Every variable keeps its type; a mutex has at most one owner.
TypeOK ==
    /\ thread_running \in BOOLEAN /\ update_thread \in {{}} \cup {{k} : k \in Loops}
    /\ pc \in [Actors -> Labels] /\ op \in [Actors -> Methods]
    /\ allowed \in Applications /\ auto_start_thread \in BOOLEAN
    /\ pose \in Poses /\ moves \in 0..MaxMoves
    /\ cached_data \in Adc /\ calibration \in Calibration
    /\ data_mutex \in {{}} \cup {{a} : a \in Actors}
    /\ calibration_mutex \in {{}} \cup {{a} : a \in Actors}
    /\ data \in [Actors -> Adc]
    /\ angle \in [Callers -> SUBSET Int]
    /\ calls \in [Callers -> Nat] /\ \A c \in Callers : calls[c] <= MaxCalls[c]

AtCache(a)       == pc[a] \in {"inData", "inBoth"}
AtCalibration(a) == pc[a] \in {"inCalibration", "inBoth"}

\* No two threads are at the cache, or at the calibration, at the same time
\* (encoder_reader.cpp:35-36, 90-93, 142-149, 161-172, 216).
NoDataRace ==
    \A a, b \in Actors :
        a # b => ~(AtCache(a) /\ AtCache(b)) /\ ~(AtCalibration(a) /\ AtCalibration(b))

\* An angle lies within one turn either side of zero, whichever zero was in force
\* when the reading was taken and whichever when it was converted; below the
\* zero it is negative (encoder_reader.cpp:95-129, 220-232).
AnglesBounded ==
    \A c \in Callers : \A n \in angle[c] : -ADC_FULL_SCALE < n /\ n < ADC_FULL_SCALE

\* However an old reading came to overwrite a newer one, once the hand rests and
\* updates keep arriving the cache shows where it is, and so does every angle
\* computed from it (encoder_reader.cpp:131-154, 174-183).
CacheCatchesUp ==
    ([]<><<\E k \in Loops : Store(k)>>_vars) => <>[](cached_data = pose)

\* Every call returns, stop and destructor included: the loop notices the flag,
\* and the mutexes are not held for long (encoder_reader.cpp:67-77).
CallsReturn == \A c \in Callers : pc[c] # "idle" ~> pc[c] \in {"idle", "destroyed"}
===============================================================================
