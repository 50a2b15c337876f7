--------------------------- MODULE ImuReaderProofs ----------------------------
(***************************************************************************)
(* For any number of update loops, callers and calls, any readings and any *)
(* offsets: ImuReader keeps its types, its two mutexes keep the threads    *)
(* apart and never lock them up, and a calibrated yaw is the turn from its *)
(* zero, wrapped.                                                          *)
(***************************************************************************)
EXTENDS ImuReader, TLAPS

\* initialize() keeps the cache's mutex while it takes and holds the other.
HoldsData(t) == \/ AtCache(t)
                \/ pc[t] \in {"lockCalibration", "inCalibration"} /\ op[t] = "initialize"

\* The owner recorded in a mutex is the thread whose place lies under it.
MutexInv ==
    \A t \in Threads : /\ HoldsData(t) => data_mutex = {t}
                       /\ AtCalibration(t) => calibration_mutex = {t}

\* YawWrapped for any reading, at hand or in the cache.
Wrapped(r) ==
    LET turn == r.raw - r.under.yaw_offset
    IN  IF r.under.is_calibrated
        THEN /\ -360 < r.yaw /\ r.yaw < 360
             /\ (r.yaw - turn) % 360 = 0
             /\ turn >= -360 => r.yaw >= 0
        ELSE r.yaw = r.raw

\* Every reading at hand is wrapped, and the methods that read the IMU and that
\* lock both mutexes are the ones that do.
YawInv ==
    /\ \A t \in Threads : /\ pc[t] = "read" => op[t] \in {"initialize", "update", "calibrate"}
                          /\ pc[t] \in {"inBoth", "lockBoth"} => op[t] = "calibrate"
                          /\ Wrapped(data[t])
    /\ Wrapped(cached_data)

IInv == TypeOK /\ MutexInv /\ YawInv

USE DEF shared, mutexes, vars, Goto, Return

\* What std::fmod gives is congruent to the difference, whatever its sign.
LEMMA Fmod ==
    ASSUME NEW turn \in Int
    PROVE  LET yaw == fmod(turn + 360, 360)
           IN  /\ yaw \in Int /\ -360 < yaw /\ yaw < 360
               /\ (yaw - turn) % 360 = 0
               /\ turn >= -360 => yaw >= 0
<1>1. CASE turn + 360 >= 0
  <2> DEFINE yaw == (turn + 360) % 360
  <2>1. fmod(turn + 360, 360) = yaw
    BY <1>1 DEF fmod
  <2>2. yaw \in Int /\ 0 <= yaw /\ yaw < 360 /\ (yaw - turn) % 360 = 0
    OBVIOUS
  <2> QED  BY <2>1, <2>2
<1>2. CASE ~(turn + 360 >= 0)
  <2> DEFINE yaw == -((-(turn + 360)) % 360)
  <2>1. fmod(turn + 360, 360) = yaw
    BY <1>2 DEF fmod
  <2>2. yaw \in Int /\ -360 < yaw /\ yaw <= 0 /\ (yaw - turn) % 360 = 0
    OBVIOUS
  <2> QED  BY <2>1, <2>2, <1>2
<1> QED  BY <1>1, <1>2

\* A reading under any calibration is a reading, and wrapped.
LEMMA Wraps ==
    ASSUME NEW raw \in Int, NEW c \in Calibration
    PROVE  Under(c, raw) \in Reading /\ Wrapped(Under(c, raw))
<1>1. CASE c.is_calibrated
  <2> DEFINE turn == raw - c.yaw_offset
             yaw  == fmod(turn + 360, 360)
  <2>1. turn \in Int
    BY DEF Calibration
  <2>2. Calibrated(c, raw) = yaw
    BY <1>1 DEF Calibrated
  <2>3. /\ yaw \in Int /\ -360 < yaw /\ yaw < 360
        /\ (yaw - turn) % 360 = 0
        /\ turn >= -360 => yaw >= 0
    BY <2>1, Fmod
  <2> HIDE DEF yaw
  <2>4. Under(c, raw) = [raw |-> raw, yaw |-> yaw, under |-> c]
    BY <2>2 DEF Under
  <2> QED  BY <1>1, <2>3, <2>4 DEF Reading, Wrapped
<1>2. CASE ~c.is_calibrated
  BY <1>2 DEF Under, Calibrated, Reading, Wrapped
<1> QED  BY <1>1, <1>2

\* So is a raw one.
LEMMA RawWraps ==
    ASSUME NEW raw \in Int
    PROVE  RawReading(raw) \in Reading /\ Wrapped(RawReading(raw))
BY DEF RawReading, NotCalibrated, Reading, Calibration, Wrapped

\* So is none.
LEMMA NoneWraps == NoReading \in Reading /\ Wrapped(NoReading)
BY RawWraps DEF NoReading

\* The constructor establishes the invariant.
LEMMA InitInv == Init => IInv
<1> SUFFICES ASSUME Init PROVE IInv
  OBVIOUS
<1>1. TypeOK
  BY ImuAssumption, NoneWraps DEF Init, TypeOK, NotCalibrated, Calibration, Labels, Methods
<1>2. MutexInv /\ YawInv
  BY NoneWraps DEF Init, MutexInv, HoldsData, AtCache, AtCalibration, YawInv
<1> QED  BY <1>1, <1>2 DEF IInv

\* Each step keeps the types.
LEMMA TypeStep ==
    ASSUME IInv, Next
    PROVE  TypeOK'
<1> USE NoneWraps DEF IInv, TypeOK, Labels, Methods
<1>1. ASSUME NEW t \in Threads, Call(t)
      PROVE  TypeOK'
  <2>1. PICK o \in Ops : op' = [op EXCEPT ![t] = o] /\ pc' = [pc EXCEPT ![t] = FirstStep(o)]
    BY <1>1 DEF Call
  <2>2. o \in Methods /\ FirstStep(o) \in Labels
    BY <2>1, ImuAssumption DEF FirstStep
  <2>3. calls' \in [Threads -> 0..MaxCalls]
    BY <1>1, ImuAssumption DEF Call
  <2> QED  BY <1>1, <2>1, <2>2, <2>3 DEF Call
<1>2. ASSUME NEW t \in Threads, Update(t)
      PROVE  TypeOK'
  BY <1>2 DEF Update, FirstStep
<1>3. ASSUME NEW t \in Threads, read_imu(t)
      PROVE  TypeOK'
  <2>1. AfterRead(op[t]) \in Labels
    BY <1>3 DEF read_imu, AfterRead, YawInv
  <2>2. \A y \in RawYaws : RawReading(y) \in Reading
    BY ImuAssumption, RawWraps
  <2> QED  BY <1>3, <2>1, <2>2 DEF read_imu
<1>4. ASSUME NEW t \in Threads, ReadFails(t)
      PROVE  TypeOK'
  BY <1>4 DEF ReadFails
<1>5. ASSUME NEW t \in Threads, LockData(t)
      PROVE  TypeOK'
  BY <1>5 DEF LockData
<1>6. ASSUME NEW t \in Threads, LockCalibration(t)
      PROVE  TypeOK'
  BY <1>6 DEF LockCalibration
<1>7. ASSUME NEW t \in Threads, LockBoth(t)
      PROVE  TypeOK'
  BY <1>7 DEF LockBoth
<1>8. ASSUME NEW t \in Threads, Apply(t)
      PROVE  TypeOK'
  <2>1. data[t].raw \in Int
    BY DEF Reading
  <2>2. Under(calibration, data[t].raw) \in Reading
    BY <2>1, Wraps
  <2> QED  BY <1>8, <2>2 DEF Apply
<1>9. ASSUME NEW t \in Threads, Store(t)
      PROVE  TypeOK'
  BY <1>9 DEF Store
<1>10. ASSUME NEW t \in Threads, SetZero(t)
       PROVE  TypeOK'
  <2>1. data[t].raw \in Int
    BY DEF Reading
  <2>2. calibration' \in Calibration
    BY <1>10, <2>1 DEF SetZero, Calibration
  <2>3. Under(calibration', data[t].raw) \in Reading
    BY <2>1, <2>2, Wraps
  <2> QED  BY <1>10, <2>2, <2>3 DEF SetZero
<1>11. ASSUME NEW t \in Threads, set_calibration(t)
       PROVE  TypeOK'
  <2>1. calibration' \in Calibration
    BY <1>11, ImuAssumption DEF set_calibration, Calibration
  <2> QED  BY <1>11, <2>1 DEF set_calibration
<1>12. ASSUME NEW t \in Threads, get_calibration(t)
       PROVE  TypeOK'
  BY <1>12 DEF get_calibration
<1>13. ASSUME NEW t \in Threads, get_cached_data(t)
       PROVE  TypeOK'
  BY <1>13 DEF get_cached_data
<1> HIDE DEF IInv, TypeOK, Labels, Methods
<1> QED
  BY <1>1, <1>2, <1>3, <1>4, <1>5, <1>6, <1>7, <1>8, <1>9, <1>10, <1>11, <1>12, <1>13
     DEF Next, Acquire, Work

\* Each step keeps the owners: a mutex is released by its owner only.
LEMMA MutexStep ==
    ASSUME IInv, Next
    PROVE  MutexInv'
<1> USE DEF IInv, TypeOK, MutexInv, HoldsData, AtCache, AtCalibration
<1>1. ASSUME NEW t \in Threads, Call(t)
      PROVE  MutexInv'
  <2>1. PICK o \in Ops : op' = [op EXCEPT ![t] = o] /\ pc' = [pc EXCEPT ![t] = FirstStep(o)]
    BY <1>1 DEF Call
  <2>2. /\ FirstStep(o) \in {"read", "lockCalibration", "lockData"}
        /\ FirstStep(o) = "lockCalibration" => o # "initialize"
    BY <2>1, ImuAssumption DEF FirstStep, Methods
  <2> QED  BY <1>1, <2>1, <2>2 DEF Call
<1>2. ASSUME NEW t \in Threads, Update(t)
      PROVE  MutexInv'
  BY <1>2 DEF Update, FirstStep
<1>3. ASSUME NEW t \in Threads, read_imu(t)
      PROVE  MutexInv'
  <2>1. op[t] \in {"initialize", "update", "calibrate"}
    BY <1>3 DEF read_imu, YawInv, Methods
  <2>2. /\ AfterRead(op[t]) \in {"lockData", "lockCalibration", "lockBoth"}
        /\ AfterRead(op[t]) = "lockCalibration" => op[t] # "initialize"
    BY <2>1 DEF AfterRead
  <2> QED  BY <1>3, <2>2 DEF read_imu
<1>4. ASSUME NEW t \in Threads, ReadFails(t)
      PROVE  MutexInv'
  BY <1>4 DEF ReadFails
<1>5. ASSUME NEW t \in Threads, LockData(t)
      PROVE  MutexInv'
  BY <1>5 DEF LockData
<1>6. ASSUME NEW t \in Threads, LockCalibration(t)
      PROVE  MutexInv'
  BY <1>6 DEF LockCalibration
<1>7. ASSUME NEW t \in Threads, LockBoth(t)
      PROVE  MutexInv'
  BY <1>7 DEF LockBoth
<1>8. ASSUME NEW t \in Threads, Apply(t)
      PROVE  MutexInv'
  <2>1. /\ op' = op /\ data_mutex' = data_mutex /\ calibration_mutex' = {}
        /\ pc[t] = "inCalibration" /\ op[t] \in {"initialize", "update"}
        /\ pc' = [pc EXCEPT ![t] = IF op[t] = "initialize" THEN "inData" ELSE "lockData"]
    BY <1>8 DEF Apply
  <2>2. calibration_mutex = {t} /\ op[t] = "initialize" => data_mutex = {t}
    BY <2>1
  <2>3. ASSUME NEW u \in Threads
        PROVE  /\ HoldsData(u)' => data_mutex' = {u}
               /\ ~AtCalibration(u)'
    <3>1. CASE u = t
      BY <3>1, <2>1, <2>2
    <3>2. CASE u # t
      BY <3>2, <2>1, <2>2
    <3> QED  BY <3>1, <3>2
  <2> QED  BY <2>3
<1>9. ASSUME NEW t \in Threads, Store(t)
      PROVE  MutexInv'
  <2>1. /\ op' = op /\ data_mutex' = {} /\ calibration_mutex' = calibration_mutex
        /\ pc[t] = "inData" /\ pc' = [pc EXCEPT ![t] = "idle"]
    BY <1>9 DEF Store
  <2>2. data_mutex = {t}
    BY <2>1
  <2>3. ASSUME NEW u \in Threads
        PROVE  /\ ~HoldsData(u)'
               /\ AtCalibration(u)' => calibration_mutex' = {u}
    <3>1. CASE u = t
      BY <3>1, <2>1
    <3>2. CASE u # t
      BY <3>2, <2>1, <2>2
    <3> QED  BY <3>1, <3>2
  <2> QED  BY <2>3
<1>10. ASSUME NEW t \in Threads, SetZero(t)
       PROVE  MutexInv'
  BY <1>10 DEF SetZero
<1>11. ASSUME NEW t \in Threads, set_calibration(t)
       PROVE  MutexInv'
  BY <1>11 DEF set_calibration
<1>12. ASSUME NEW t \in Threads, get_calibration(t)
       PROVE  MutexInv'
  BY <1>12 DEF get_calibration
<1>13. ASSUME NEW t \in Threads, get_cached_data(t)
       PROVE  MutexInv'
  BY <1>13 DEF get_cached_data
<1> HIDE DEF IInv, TypeOK, MutexInv, HoldsData, AtCache, AtCalibration
<1> QED
  BY <1>1, <1>2, <1>3, <1>4, <1>5, <1>6, <1>7, <1>8, <1>9, <1>10, <1>11, <1>12, <1>13
     DEF Next, Acquire, Work

\* Each step keeps what is known of readings, offsets and yaws.
LEMMA YawStep ==
    ASSUME IInv, Next
    PROVE  YawInv'
<1> USE NoneWraps DEF IInv, TypeOK, YawInv
<1>1. ASSUME NEW t \in Threads, Call(t)
      PROVE  YawInv'
  <2>1. PICK o \in Ops : op' = [op EXCEPT ![t] = o] /\ pc' = [pc EXCEPT ![t] = FirstStep(o)]
    BY <1>1 DEF Call
  <2>2. /\ FirstStep(o) \in {"read", "lockCalibration", "lockData"}
        /\ FirstStep(o) # "read" <=> o \notin {"initialize", "update", "calibrate"}
    BY <2>1, ImuAssumption DEF FirstStep, Methods
  <2> QED  BY <1>1, <2>1, <2>2 DEF Call
<1>2. ASSUME NEW t \in Threads, Update(t)
      PROVE  YawInv'
  BY <1>2 DEF Update, FirstStep
<1>3. ASSUME NEW t \in Threads, read_imu(t)
      PROVE  YawInv'
  <2>1. PICK y \in RawYaws : data' = [data EXCEPT ![t] = RawReading(y)]
    BY <1>3 DEF read_imu
  <2>2. Wrapped(RawReading(y))
    BY <2>1, ImuAssumption, RawWraps
  <2>3. AfterRead(op[t]) = "lockBoth" => op[t] = "calibrate"
    BY <1>3 DEF read_imu, AfterRead
  <2>4. AfterRead(op[t]) # "inBoth"
    BY <1>3 DEF read_imu, AfterRead
  <2> QED  BY <1>3, <2>1, <2>2, <2>3, <2>4 DEF read_imu
<1>4. ASSUME NEW t \in Threads, ReadFails(t)
      PROVE  YawInv'
  BY <1>4 DEF ReadFails
<1>5. ASSUME NEW t \in Threads, LockData(t)
      PROVE  YawInv'
  BY <1>5 DEF LockData
<1>6. ASSUME NEW t \in Threads, LockCalibration(t)
      PROVE  YawInv'
  BY <1>6 DEF LockCalibration
<1>7. ASSUME NEW t \in Threads, LockBoth(t)
      PROVE  YawInv'
  BY <1>7 DEF LockBoth
<1>8. ASSUME NEW t \in Threads, Apply(t)
      PROVE  YawInv'
  <2>1. Wrapped(Under(calibration, data[t].raw))
    <3>1. data[t].raw \in Int
      BY DEF Reading
    <3> QED  BY <3>1, Wraps
  <2> QED  BY <1>8, <2>1 DEF Apply
<1>9. ASSUME NEW t \in Threads, Store(t)
      PROVE  YawInv'
  BY <1>9 DEF Store
<1>10. ASSUME NEW t \in Threads, SetZero(t)
       PROVE  YawInv'
  <2>1. data[t].raw \in Int
    BY DEF Reading
  <2>2. calibration' \in Calibration
    BY <1>10, <2>1 DEF SetZero, Calibration
  <2>3. Wrapped(Under(calibration', data[t].raw))
    BY <2>1, <2>2, Wraps
  <2> QED  BY <1>10, <2>3 DEF SetZero
<1>11. ASSUME NEW t \in Threads, set_calibration(t)
       PROVE  YawInv'
  BY <1>11 DEF set_calibration
<1>12. ASSUME NEW t \in Threads, get_calibration(t)
       PROVE  YawInv'
  BY <1>12 DEF get_calibration
<1>13. ASSUME NEW t \in Threads, get_cached_data(t)
       PROVE  YawInv'
  BY <1>13 DEF get_cached_data
<1> HIDE DEF IInv, TypeOK, YawInv
<1> QED
  BY <1>1, <1>2, <1>3, <1>4, <1>5, <1>6, <1>7, <1>8, <1>9, <1>10, <1>11, <1>12, <1>13
     DEF Next, Acquire, Work

\* The invariant holds throughout.
LEMMA Invariance == Spec => []IInv
<1>1. IInv /\ [Next]_vars => IInv'
  <2> SUFFICES ASSUME IInv, [Next]_vars PROVE IInv'
    OBVIOUS
  <2>1. CASE Next
    BY <2>1, TypeStep, MutexStep, YawStep DEF IInv
  <2>2. CASE UNCHANGED vars
    <3>1. TypeOK'
      BY <2>2 DEF IInv, TypeOK
    <3>2. MutexInv'
      BY <2>2 DEF IInv, MutexInv, HoldsData, AtCache, AtCalibration
    <3>3. YawInv'
      BY <2>2 DEF IInv, YawInv
    <3> QED  BY <3>1, <3>2, <3>3 DEF IInv
  <2> QED  BY <2>1, <2>2
<1> QED  BY InitInv, <1>1, PTL DEF Spec

\* Every variable of the reader keeps its type (imu_reader.cpp).
THEOREM TypeCorrect == Spec => []TypeOK
<1>1. IInv => TypeOK
  BY DEF IInv
<1> QED  BY Invariance, <1>1, PTL

\* The cache and the calibration are each touched by one thread at a time, in
\* spite of initialize()'s nested locks and the calibration's double one
\* (imu_reader.cpp:32-150).
THEOREM RaceFreedom == Spec => []NoDataRace
<1>1. IInv => NoDataRace
  BY DEF IInv, MutexInv, HoldsData, NoDataRace
<1> QED  BY Invariance, <1>1, PTL

\* Whatever readings arrive and whatever offsets are set, a calibrated yaw in the
\* cache is the turn from its zero to the measured yaw, wrapped, and lies in
\* [0, 360) unless the measured yaw is more than a turn below that zero
\* (imu_reader.cpp:82-91, 131-134, 190-203).
THEOREM YawSafety == Spec => []YawWrapped
<1>1. IInv => YawWrapped
  BY Zenon DEF IInv, YawInv, Wrapped, YawWrapped
<1> QED  BY Invariance, <1>1, PTL

(***************************************************************************)
(* No deadlock.  Races are kept out by MutexInv: who is at the data owns   *)
(* the mutex.  That nobody waits for ever needs the converse: who owns a   *)
(* mutex is at a place that leads to its release.                          *)
(***************************************************************************)
\* No way out of a method leaves a mutex locked, and the methods are at home at
\* the places where they are.
OwnerInv ==
    /\ \A t \in data_mutex : HoldsData(t)
    /\ \A t \in calibration_mutex : AtCalibration(t)
    /\ \A t \in Threads :
          /\ pc[t] \in {"lockData", "inData"} => op[t] \in {"initialize", "update", "get_cached_data"}
          /\ pc[t] \in {"lockCalibration", "inCalibration"}
                => op[t] \in {"initialize", "update", "set_calibration", "get_calibration"}

\* A thread that finds a mutex it needs locked.
Blocked(t) ==
    \/ pc[t] = "lockData" /\ data_mutex # {}
    \/ pc[t] = "lockCalibration" /\ calibration_mutex # {}
    \/ pc[t] = "lockBoth" /\ ~(data_mutex = {} /\ calibration_mutex = {})

\* A thread that waits for nothing: its next step is Apply, Store, SetZero or an
\* accessor, which release a mutex, or takes the second one.
Advances(t) ==
    \/ pc[t] = "inBoth"
    \/ pc[t] = "lockCalibration" /\ calibration_mutex = {}
    \/ pc[t] = "inData" /\ op[t] \in {"initialize", "update", "get_cached_data"}
    \/ pc[t] = "inCalibration" /\ op[t] \in {"initialize", "update", "set_calibration", "get_calibration"}

\* Whenever somebody waits for a mutex, some owner of a mutex can go on (imu_reader.cpp:32-52, 93-124, 144-154): initialize(), which waits for the
\* calibration's mutex with the cache's held, never closes a circle.
NoDeadlock ==
    (\E t \in Threads : Blocked(t)) => \E u \in data_mutex \cup calibration_mutex : Advances(u)

\* Each step keeps the owners where they are.
LEMMA OwnerStep ==
    ASSUME IInv, OwnerInv, [Next]_vars
    PROVE  OwnerInv'
<1> USE DEF IInv, TypeOK, MutexInv, OwnerInv, HoldsData, AtCache, AtCalibration
<1>1. ASSUME NEW t \in Threads, Call(t)
      PROVE  OwnerInv'
  <2>1. PICK o \in Ops : op' = [op EXCEPT ![t] = o] /\ pc' = [pc EXCEPT ![t] = FirstStep(o)]
    BY <1>1 DEF Call
  <2>2. /\ FirstStep(o) \in {"read", "lockCalibration", "lockData"}
        /\ FirstStep(o) = "lockCalibration" => o \in {"set_calibration", "get_calibration"}
        /\ FirstStep(o) = "lockData" => o = "get_cached_data"
    BY <2>1, ImuAssumption DEF FirstStep, Methods
  <2> QED  BY <1>1, <2>1, <2>2 DEF Call
<1>2. ASSUME NEW t \in Threads, Update(t)
      PROVE  OwnerInv'
  BY <1>2 DEF Update, FirstStep
<1>3. ASSUME NEW t \in Threads, read_imu(t)
      PROVE  OwnerInv'
  <2>1. op[t] \in {"initialize", "update", "calibrate"}
    BY <1>3 DEF read_imu, YawInv, Methods
  <2>2. /\ AfterRead(op[t]) \in {"lockData", "lockCalibration", "lockBoth"}
        /\ AfterRead(op[t]) = "lockCalibration" => op[t] = "update"
        /\ AfterRead(op[t]) = "lockData" => op[t] = "initialize"
    BY <2>1 DEF AfterRead
  <2> QED  BY <1>3, <2>2 DEF read_imu
<1>4. ASSUME NEW t \in Threads, ReadFails(t)
      PROVE  OwnerInv'
  BY <1>4 DEF ReadFails
<1>5. ASSUME NEW t \in Threads, LockData(t)
      PROVE  OwnerInv'
  BY <1>5 DEF LockData
<1>6. ASSUME NEW t \in Threads, LockCalibration(t)
      PROVE  OwnerInv'
  BY <1>6 DEF LockCalibration
<1>7. ASSUME NEW t \in Threads, LockBoth(t)
      PROVE  OwnerInv'
  BY <1>7 DEF LockBoth
<1>8. ASSUME NEW t \in Threads, Apply(t)
      PROVE  OwnerInv'
  BY <1>8 DEF Apply
<1>9. ASSUME NEW t \in Threads, Store(t)
      PROVE  OwnerInv'
  BY <1>9 DEF Store
<1>10. ASSUME NEW t \in Threads, SetZero(t)
       PROVE  OwnerInv'
  BY <1>10 DEF SetZero
<1>11. ASSUME NEW t \in Threads, set_calibration(t)
       PROVE  OwnerInv'
  BY <1>11 DEF set_calibration
<1>12. ASSUME NEW t \in Threads, get_calibration(t)
       PROVE  OwnerInv'
  BY <1>12 DEF get_calibration
<1>13. ASSUME NEW t \in Threads, get_cached_data(t)
       PROVE  OwnerInv'
  BY <1>13 DEF get_cached_data
<1>14. CASE UNCHANGED vars
  BY <1>14
<1> HIDE DEF IInv, TypeOK, MutexInv, OwnerInv, HoldsData, AtCache, AtCalibration
<1> QED
  BY <1>1, <1>2, <1>3, <1>4, <1>5, <1>6, <1>7, <1>8, <1>9, <1>10, <1>11, <1>12, <1>13, <1>14
     DEF Next, Acquire, Work

\* The owners of the mutexes are where they can release them, throughout.
LEMMA OwnerInvariance == Spec => []OwnerInv
<1>1. Init => OwnerInv
  BY DEF Init, OwnerInv
<1> QED  BY <1>1, OwnerStep, Invariance, PTL DEF Spec

\* No circle of waiting threads, for any number of loops and callers and any mix
\* of methods: the part of CallsReturn that is not about fairness
\* (imu_reader.cpp:32-52, 93-124, 144-154).
THEOREM DeadlockFreedom == Spec => []NoDeadlock
<1>1. IInv /\ OwnerInv => NoDeadlock
  <2>1. SUFFICES ASSUME IInv, OwnerInv, NEW t \in Threads, Blocked(t)
                 PROVE  \E u \in data_mutex \cup calibration_mutex : Advances(u)
    BY DEF NoDeadlock
  <2>2. data_mutex \subseteq Threads /\ calibration_mutex \subseteq Threads
    BY <2>1 DEF IInv, TypeOK
  <2>3. ASSUME NEW u \in calibration_mutex PROVE Advances(u)
    BY <2>1, <2>2, <2>3 DEF OwnerInv, AtCalibration, Advances
  <2>4. CASE calibration_mutex # {}
    BY <2>3, <2>4
  <2>5. CASE calibration_mutex = {}
    <3>1. PICK u \in data_mutex : TRUE
      BY <2>1, <2>5 DEF Blocked
    <3>2. Advances(u)
      BY <2>1, <2>2, <2>5, <3>1 DEF IInv, YawInv, OwnerInv, HoldsData, AtCache, Advances
    <3> QED  BY <3>2
  <2> QED  BY <2>4, <2>5
<1> QED  BY <1>1, Invariance, OwnerInvariance, PTL
=============================================================================
