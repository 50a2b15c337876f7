------------------------------ MODULE ImuReader ------------------------------
(***************************************************************************)
(* ImuReader (src/imu_reader.cpp): a cached orientation and a calibration, *)
(* each under a mutex of its own, shared by an update loop and any number  *)
(* of callers.  The cache holds values that are already calibrated.        *)
(*                                                                         *)
(* The yaw, in whole degrees, stands for the orientation: roll and pitch   *)
(* are treated alike but for the wrap.  A reading keeps the raw yaw and    *)
(* the calibration it was computed under beside the yaw: the code does not *)
(* keep them, the properties need them.  The exchange with the glove is    *)
(* UdpClient's: it brings some orientation or none, and nobody checks its  *)
(* range.  The component's own thread, whose loop calls update_once() like *)
(* GloveSDK's, is one of the Updaters.                                     *)
(***************************************************************************)
EXTENDS Integers

CONSTANTS
    Updaters,   \* threads that call update_once(), again and again
    Callers,    \* threads that call the methods below
    Ops,        \* which methods these call
    MaxCalls,   \* bound: calls made by each caller
    RawYaws,    \* what parse_imu_data() reports: any float, if the frame was damaged
    Offsets     \* what the callers of set_calibration() bring

Threads == Updaters \cup Callers
Methods == {"initialize", "update", "calibrate", "set_calibration", "get_calibration",
            "get_cached_data"}

ASSUME ImuAssumption ==
    /\ Ops \subseteq Methods
    /\ MaxCalls \in Nat
    /\ RawYaws \subseteq Int /\ Offsets \subseteq Int

VARIABLES
    cached_data,         \* ImuData, with what it was computed from
    calibration,         \* ImuCalibration
    data_mutex, calibration_mutex,
    pc, op, data, calls  \* each thread: place, method, reading at hand, calls made

shared  == <<cached_data, calibration>>
mutexes == <<data_mutex, calibration_mutex>>
vars    == <<shared, mutexes, pc, op, data, calls>>

Calibration    == [is_calibrated : BOOLEAN, yaw_offset : Int]
NotCalibrated  == [is_calibrated |-> FALSE, yaw_offset |-> 0]
Reading        == [raw : Int, yaw : Int, under : Calibration]
RawReading(y)  == [raw |-> y, yaw |-> y, under |-> NotCalibrated]
NoReading      == RawReading(0)

Init ==
    /\ cached_data = NoReading
    /\ calibration = NotCalibrated
    /\ data_mutex = {} /\ calibration_mutex = {}
    /\ pc = [t \in Threads |-> "idle"]
    /\ op = [t \in Threads |-> "update"]
    /\ data = [t \in Threads |-> NoReading]
    /\ calls = [t \in Threads |-> 0]

\* std::fmod takes the sign of its first argument.
fmod(a, b) == IF a >= 0 THEN a % b ELSE -((-a) % b)

\* Mutant of Calibrated: no turn is added before the wrap.
CalibratedUnturned(c, raw) == IF c.is_calibrated THEN fmod(raw - c.yaw_offset, 360) ELSE raw

\* apply_calibration_unsafe()
Calibrated(c, raw) == IF c.is_calibrated THEN fmod(raw - c.yaw_offset + 360, 360) ELSE raw

Under(c, raw) == [raw |-> raw, yaw |-> Calibrated(c, raw), under |-> c]

Goto(t, label) == pc' = [pc EXCEPT ![t] = label]
Return(t)      == Goto(t, "idle") /\ data' = [data EXCEPT ![t] = NoReading]

(***************************************************************************)
(* A call begins.  Three of the methods read the IMU first, with no mutex  *)
(* held; the two calibration accessors take one mutex, get_cached_data()   *)
(* and get_data_age() the other.                                           *)
(***************************************************************************)
FirstStep(o) == CASE o \in {"initialize", "update", "calibrate"} -> "read"
                  [] o \in {"set_calibration", "get_calibration"} -> "lockCalibration"
                  [] o = "get_cached_data" -> "lockData"

Call(t) ==
    /\ pc[t] = "idle" /\ t \in Callers /\ calls[t] < MaxCalls
    /\ \E o \in Ops : op' = [op EXCEPT ![t] = o] /\ Goto(t, FirstStep(o))
    /\ calls' = [calls EXCEPT ![t] = @ + 1]
    /\ UNCHANGED <<shared, mutexes, data>>

\* The next turn of the update loop.
Update(t) ==
    /\ pc[t] = "idle" /\ t \in Updaters
    /\ op' = [op EXCEPT ![t] = "update"] /\ Goto(t, FirstStep("update"))
    /\ UNCHANGED <<shared, mutexes, data, calls>>

\* Where the three methods go with the reading: initialize() locks the cache and
\* calibrates under that lock, update_once() calibrates first and locks the
\* cache later, calibrate_zero_orientation() takes both mutexes at once.
AfterRead(o) == CASE o = "initialize" -> "lockData"
                  [] o = "update"     -> "lockCalibration"
                  [] o = "calibrate"  -> "lockBoth"

read_imu(t) ==
    /\ pc[t] = "read"
    /\ \E y \in RawYaws : data' = [data EXCEPT ![t] = RawReading(y)]
    /\ Goto(t, AfterRead(op[t]))
    /\ UNCHANGED <<shared, mutexes, op, calls>>

ReadFails(t) ==
    /\ pc[t] = "read"
    /\ Return(t)
    /\ UNCHANGED <<shared, mutexes, op, calls>>

(***************************************************************************)
(* The mutexes.  std::scoped_lock never waits for one with the other held. *)
(***************************************************************************)
\* Mutant of LockData: a shared lock.
LockDataShared(t) ==
    /\ pc[t] = "lockData"
    /\ data_mutex' = data_mutex \cup {t}
    /\ Goto(t, IF op[t] = "initialize" THEN "lockCalibration" ELSE "inData")
    /\ UNCHANGED <<shared, calibration_mutex, op, data, calls>>

LockData(t) ==
    /\ pc[t] = "lockData" /\ data_mutex = {}
    /\ data_mutex' = {t}
    /\ Goto(t, IF op[t] = "initialize" THEN "lockCalibration" ELSE "inData")
    /\ UNCHANGED <<shared, calibration_mutex, op, data, calls>>

LockCalibration(t) ==
    /\ pc[t] = "lockCalibration" /\ calibration_mutex = {}
    /\ calibration_mutex' = {t}
    /\ Goto(t, "inCalibration")
    /\ UNCHANGED <<shared, data_mutex, op, data, calls>>

\* Mutants of LockBoth: one lock after the other, or only the first.
LockBothInTurn(t) ==
    /\ pc[t] = "lockBoth"
    /\ IF calibration_mutex = {t}
       THEN /\ data_mutex = {} /\ data_mutex' = {t}
            /\ Goto(t, "inBoth") /\ UNCHANGED calibration_mutex
       ELSE /\ calibration_mutex = {} /\ calibration_mutex' = {t}
            /\ UNCHANGED <<pc, data_mutex>>
    /\ UNCHANGED <<shared, op, data, calls>>

LockBothHalf(t) ==
    /\ pc[t] = "lockBoth" /\ calibration_mutex = {}
    /\ calibration_mutex' = {t}
    /\ Goto(t, "inBoth")
    /\ UNCHANGED <<shared, data_mutex, op, data, calls>>

LockBoth(t) ==
    /\ pc[t] = "lockBoth" /\ data_mutex = {} /\ calibration_mutex = {}
    /\ data_mutex' = {t} /\ calibration_mutex' = {t}
    /\ Goto(t, "inBoth")
    /\ UNCHANGED <<shared, op, data, calls>>

(***************************************************************************)
(* Under the mutexes.                                                      *)
(***************************************************************************)
\* Mutant of Apply: the raw reading goes to the cache.
ApplySkipped(t) ==
    /\ pc[t] = "inCalibration" /\ op[t] \in {"initialize", "update"}
    /\ calibration_mutex' = {}
    /\ Goto(t, IF op[t] = "initialize" THEN "inData" ELSE "lockData")
    /\ UNCHANGED <<shared, data_mutex, op, data, calls>>

\* apply_calibration()
Apply(t) ==
    /\ pc[t] = "inCalibration" /\ op[t] \in {"initialize", "update"}
    /\ data' = [data EXCEPT ![t] = Under(calibration, @.raw)]
    /\ calibration_mutex' = {}
    /\ Goto(t, IF op[t] = "initialize" THEN "inData" ELSE "lockData")
    /\ UNCHANGED <<shared, data_mutex, op, calls>>

Store(t) ==
    /\ pc[t] = "inData" /\ op[t] \in {"initialize", "update"}
    /\ cached_data' = data[t]
    /\ data_mutex' = {}
    /\ Return(t)
    /\ UNCHANGED <<calibration, calibration_mutex, op, calls>>

\* calibrate_zero_orientation(): the reading at hand becomes the zero, and the
\* cache that reading under the new zero.
SetZero(t) ==
    /\ pc[t] = "inBoth"
    /\ calibration' = [is_calibrated |-> TRUE, yaw_offset |-> data[t].raw]
    /\ cached_data' = Under(calibration', data[t].raw)
    /\ data_mutex' = {} /\ calibration_mutex' = {}
    /\ Return(t)
    /\ UNCHANGED <<op, calls>>

\* Whatever the caller brings is taken, whether get_calibration() once returned
\* it or not.
set_calibration(t) ==
    /\ pc[t] = "inCalibration" /\ op[t] = "set_calibration"
    /\ calibration' \in [is_calibrated : BOOLEAN, yaw_offset : Offsets]
    /\ calibration_mutex' = {}
    /\ Return(t)
    /\ UNCHANGED <<cached_data, data_mutex, op, calls>>

get_calibration(t) ==
    /\ pc[t] = "inCalibration" /\ op[t] = "get_calibration"
    /\ calibration_mutex' = {}
    /\ Return(t)
    /\ UNCHANGED <<shared, data_mutex, op, calls>>

get_cached_data(t) ==
    /\ pc[t] = "inData" /\ op[t] = "get_cached_data"
    /\ data_mutex' = {}
    /\ Return(t)
    /\ UNCHANGED <<shared, calibration_mutex, op, calls>>

Acquire(t) == LockData(t) \/ LockCalibration(t) \/ LockBoth(t)
Work(t) ==
    \/ read_imu(t) \/ ReadFails(t)
    \/ Apply(t) \/ Store(t) \/ SetZero(t)
    \/ set_calibration(t) \/ get_calibration(t) \/ get_cached_data(t)

Next == \E t \in Threads : Call(t) \/ Update(t) \/ Acquire(t) \/ Work(t)

\* A thread inside a call keeps running, and one that finds its mutex free again
\* and again gets it in the end: the update loops release the mutexes before they
\* sleep.  Nobody has to call, and the loops need not go on.
Fairness == \A t \in Threads : WF_vars(Work(t)) /\ SF_vars(Acquire(t))

Spec == Init /\ [][Next]_vars /\ Fairness

-----------------------------------------------------------------------------
Labels == {"idle", "read", "lockData", "lockCalibration", "lockBoth",
           "inData", "inCalibration", "inBoth"}

\* Every variable keeps its type; a mutex has at most one owner.
TypeOK ==
    /\ cached_data \in Reading /\ calibration \in Calibration
    /\ data_mutex \in {{}} \cup {{t} : t \in Threads}
    /\ calibration_mutex \in {{}} \cup {{t} : t \in Threads}
    /\ pc \in [Threads -> Labels] /\ op \in [Threads -> Methods]
    /\ data \in [Threads -> Reading]
    /\ calls \in [Threads -> 0..MaxCalls]

\* Who is about to touch the cache, and who the calibration.
AtCache(t)       == pc[t] \in {"inData", "inBoth"}
AtCalibration(t) == pc[t] \in {"inCalibration", "inBoth"}

\* No two threads are at the cache, or at the calibration, at the same time
\* (imu_reader.cpp:38-39, 93-116, 126-150, 186).
NoDataRace ==
    \A t, u \in Threads :
        t # u => ~(AtCache(t) /\ AtCache(u)) /\ ~(AtCalibration(t) /\ AtCalibration(u))

\* Whatever was measured and whatever zero was set, the cached yaw is the
\* measured one, or it is the turn from the zero it was computed under to the
\* measured yaw, up to whole turns, and less than one; it is negative only if the
\* measured yaw lies more than a turn below that zero, where the single turn added
\* before std::fmod is not enough for [0, 360) (imu_reader.cpp:190-203).
YawWrapped ==
    LET yaw  == cached_data.yaw
        zero == cached_data.under
        turn == cached_data.raw - zero.yaw_offset
    IN  IF zero.is_calibrated
        THEN /\ -360 < yaw /\ yaw < 360
             /\ (yaw - turn) % 360 = 0
             /\ turn >= -360 => yaw >= 0
        ELSE yaw = cached_data.raw

\* The cached orientation is the cached reading under the zero in force.
ZeroInForce == cached_data.yaw = Calibrated(calibration, cached_data.raw)

\* With no call under way, the cache reflects the calibration
\* (imu_reader.cpp:108 "Set current orientation as zero point and update cached
\* data atomically", :115 "so get_cached_data() reflects the new zero").
CacheReflectsZero == (\A t \in Threads : pc[t] = "idle") => ZeroInForce

\* A cache computed with an old zero does not last: once the calibrations have
\* ended, updates that keep arriving put it right for good (imu_reader.cpp:144-154).
StaleZeroHeals ==
    ([]<><<\E t \in Updaters : Store(t)>>_vars) => <>[]ZeroInForce

\* Every call returns: initialize(), which takes the calibration's mutex with the
\* cache's held, and the calibration, which needs both, do not wait for each other
\* (imu_reader.cpp:32-52, 98-124).
CallsReturn == \A t \in Threads : pc[t] # "idle" ~> pc[t] = "idle"
=============================================================================
