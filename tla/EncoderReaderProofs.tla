------------------------- MODULE EncoderReaderProofs --------------------------
(***************************************************************************)
(* For any number of callers, calls and loops: EncoderReader keeps its     *)
(* types, its two mutexes keep the threads apart, and an angle lies within *)
(* one turn of zero.  If one thread only starts, stops and destroys, the   *)
(* update thread is never lost, joined twice or left running, and nobody   *)
(* waits for the mutexes or for the thread in a circle.                    *)
(***************************************************************************)
EXTENDS EncoderReader, TLAPS

\* The owner recorded in a mutex is the actor whose place lies under it.
MutexInv ==
    \A a \in Actors : /\ AtCache(a) => data_mutex = {a}
                      /\ AtCalibration(a) => calibration_mutex = {a}

IInv == TypeOK /\ MutexInv

USE DEF thread, config, hand, shared, mutexes, local, vars, Goto, Return

LEMMA Scale == ADC_FULL_SCALE \in Nat /\ ADC_FULL_SCALE > 0
  BY DEF ADC_FULL_SCALE

LEMMA Cast == Callers \subseteq Actors /\ Loops \subseteq Actors /\ Callers \cap Loops = {}
  BY EncoderAssumption DEF Actors

LEMMA PresetTypes == Presets \subseteq Calibration /\ Poses \subseteq Adc
<1>1. Poses \subseteq Adc
  BY EncoderAssumption DEF Adc
<1>2. 0 \in Adc
  BY Scale DEF Adc
<1>3. ASSUME NEW p \in Presets
      PROVE  p \in Calibration
  <2>1. CASE p = Uncalibrated
    BY <2>1, <1>2 DEF Uncalibrated, Calibration
  <2>2. CASE p \in {[is_calibrated |-> TRUE, zero |-> q] : q \in Poses}
    <3>1. PICK q \in Poses : p = [is_calibrated |-> TRUE, zero |-> q]
      BY <2>2
    <3> QED  BY <3>1, <1>1 DEF Calibration
  <2> QED  BY <1>3, <2>1, <2>2 DEF Presets
<1> QED  BY <1>1, <1>3

\* Where the methods go stays within the labels.
LEMMA Targets ==
    ASSUME TypeOK
    PROVE  /\ \A o \in Methods : FirstStep(o) \in Labels
           /\ \A a \in Actors : After(a) \in Labels /\ AfterStore(a) \in Labels
           /\ \A o \in Methods : AfterRead(o) \in Labels
<1>1. \A o \in Methods : FirstStep(o) \in Labels
  BY DEF Methods, FirstStep, Labels, ThreadLabels
<1>2. \A a \in Actors : After(a) \in Labels /\ AfterStore(a) \in Labels
  BY DEF After, AfterStore, Labels, ThreadLabels
<1>3. \A o \in Methods : AfterRead(o) \in Labels
  BY DEF AfterRead, Labels
<1> QED  BY <1>1, <1>2, <1>3

\* A call that begins.
LEMMA Begins ==
    ASSUME TypeOK, NEW c \in Callers, Call(c)
    PROVE  \E o \in Methods : /\ o \in allowed[c]
                              /\ o = "destroy" => \A b \in Callers : pc[b] = "idle"
                              /\ op' = [op EXCEPT ![c] = o]
                              /\ pc' = [pc EXCEPT ![c] = FirstStep(o)]
<1>1. allowed[c] \subseteq Methods
  BY EncoderAssumption DEF TypeOK
<1> QED  BY <1>1 DEF Call

\* The constructor establishes the invariant.
LEMMA InitInv == Init => IInv
<1> SUFFICES ASSUME Init PROVE IInv
  OBVIOUS
<1>1. 0 \in Adc /\ Uncalibrated \in Calibration /\ pose \in Poses
  BY PresetTypes, Scale DEF Presets, Init, Adc
<1>2. pc \in [Actors -> Labels] /\ op \in [Actors -> Methods]
  BY DEF Init, ThreadInit, Labels, ThreadLabels, Methods
<1>3. calls \in [Callers -> Nat] /\ \A c \in Callers : calls[c] <= MaxCalls[c]
  BY EncoderAssumption DEF Init
<1>4. moves \in 0..MaxMoves
  BY EncoderAssumption DEF Init
<1>5. TypeOK
  BY <1>1, <1>2, <1>3, <1>4 DEF Init, ThreadInit, TypeOK
<1>6. MutexInv
  BY Cast DEF Init, ThreadInit, MutexInv, AtCache, AtCalibration, Actors
<1> QED  BY <1>5, <1>6 DEF IInv

\* Each step keeps the types.
LEMMA TypeStep ==
    ASSUME IInv, Next
    PROVE  TypeOK'
<1> USE DEF IInv, TypeOK
<1>1. ASSUME NEW c \in Callers, Call(c)
      PROVE  TypeOK'
  <2>1. PICK o \in Methods : op' = [op EXCEPT ![c] = o] /\ pc' = [pc EXCEPT ![c] = FirstStep(o)]
    BY <1>1, Begins
  <2>2. pc' \in [Actors -> Labels] /\ op' \in [Actors -> Methods]
    BY <2>1, Targets
  <2>3. calls' \in [Callers -> Nat] /\ \A d \in Callers : calls'[d] <= MaxCalls[d]
    <3>1. calls[c] \in Nat /\ MaxCalls[c] \in Nat /\ calls[c] < MaxCalls[c]
      BY <1>1, EncoderAssumption DEF Call
    <3>2. calls' = [calls EXCEPT ![c] = calls[c] + 1]
      BY <1>1 DEF Call
    <3>3. calls[c] + 1 \in Nat /\ calls[c] + 1 <= MaxCalls[c]
      BY <3>1
    <3>4. calls \in [Callers -> Nat] /\ \A d \in Callers : calls[d] <= MaxCalls[d]
      OBVIOUS
    <3> HIDE DEF TypeOK, IInv
    <3> QED  BY <3>2, <3>3, <3>4
  <2> QED  BY <1>1, <2>2, <2>3 DEF Call
<1>2. ASSUME Move
      PROVE  TypeOK'
  <2>1. moves' \in 0..MaxMoves
    BY <1>2, EncoderAssumption DEF Move
  <2> QED  BY <1>2, <2>1 DEF Move
<1>3. ASSUME NEW c \in Callers, StartCheck(c), UNCHANGED <<config, hand, shared, mutexes, local>>
      PROVE  TypeOK'
  <2>1. pc' \in [Actors -> Labels]
    BY <1>3, Targets, Cast DEF StartCheck, Labels, ThreadLabels
  <2> QED  BY <1>3, <2>1 DEF StartCheck
<1>4. ASSUME NEW c \in Callers, StartFlag(c), UNCHANGED <<config, hand, shared, mutexes, local>>
      PROVE  TypeOK'
  <2>1. pc' \in [Actors -> Labels]
    BY <1>4, Targets, Cast DEF StartFlag, Labels, ThreadLabels
  <2> QED  BY <1>4, <2>1 DEF StartFlag
<1>5. ASSUME NEW c \in Callers, Spawn(c), UNCHANGED <<config, hand, shared, mutexes, local>>
      PROVE  TypeOK'
  <2>1. PICK k \in Loops : /\ pc' = [pc EXCEPT ![c] = After(c), ![k] = "loopCheck"]
                           /\ update_thread' = {k}
    BY <1>5 DEF Spawn
  <2>2. After(c) \in Labels /\ "loopCheck" \in Labels
    BY Targets, Cast DEF Labels, ThreadLabels
  <2>3. pc' \in [Actors -> Labels]
    BY <2>1, <2>2, Cast
  <2> QED  BY <1>5, <2>1, <2>3 DEF Spawn
<1>6. ASSUME NEW c \in Callers, SpawnFails(c), UNCHANGED <<config, hand, shared, mutexes, local>>
      PROVE  TypeOK'
  <2>1. pc' \in [Actors -> Labels]
    BY <1>6, Targets, Cast DEF SpawnFails
  <2> QED  BY <1>6, <2>1 DEF SpawnFails
<1>7. ASSUME NEW c \in Callers, StopCheck(c), UNCHANGED <<config, hand, shared, mutexes, local>>
      PROVE  TypeOK'
  <2>1. pc' \in [Actors -> Labels]
    BY <1>7, Targets, Cast DEF StopCheck, Labels, ThreadLabels
  <2> QED  BY <1>7, <2>1 DEF StopCheck
<1>8. ASSUME NEW c \in Callers, StopFlag(c), UNCHANGED <<config, hand, shared, mutexes, local>>
      PROVE  TypeOK'
  <2>1. pc' \in [Actors -> Labels]
    BY <1>8, Targets, Cast DEF StopFlag, Labels, ThreadLabels
  <2> QED  BY <1>8, <2>1 DEF StopFlag
<1>9. ASSUME NEW c \in Callers, Joinable(c), UNCHANGED <<config, hand, shared, mutexes, local>>
      PROVE  TypeOK'
  <2>1. pc' \in [Actors -> Labels]
    BY <1>9, Targets, Cast DEF Joinable, Labels, ThreadLabels
  <2> QED  BY <1>9, <2>1 DEF Joinable
<1>10. ASSUME NEW c \in Callers, Join(c), UNCHANGED <<config, hand, shared, mutexes, local>>
       PROVE  TypeOK'
  <2>0. \A k \in update_thread : k \in Loops
    OBVIOUS
  <2>1. PICK k \in Loops : pc' = [pc EXCEPT ![c] = After(c), ![k] = "unborn"]
    BY <1>10, <2>0 DEF Join
  <2>2. After(c) \in Labels /\ "unborn" \in Labels
    BY Targets, Cast DEF Labels, ThreadLabels
  <2>3. pc' \in [Actors -> Labels]
    BY <2>1, <2>2, Cast
  <2> QED  BY <1>10, <2>3 DEF Join
<1>11. ASSUME NEW k \in Loops, NextTurn(k)
       PROVE  TypeOK'
  <2>1. pc' \in [Actors -> Labels]
    BY <1>11 DEF NextTurn, LoopCheck, Labels, ThreadLabels
  <2> QED  BY <1>11, <2>1 DEF NextTurn, LoopCheck
<1>12. ASSUME NEW a \in Actors, LockData(a)
       PROVE  TypeOK'
  <2>1. pc' \in [Actors -> Labels]
    BY <1>12 DEF LockData, Labels
  <2> QED  BY <1>12, <2>1 DEF LockData
<1>13. ASSUME NEW a \in Actors, LockCalibration(a)
       PROVE  TypeOK'
  <2>1. pc' \in [Actors -> Labels]
    BY <1>13 DEF LockCalibration, Labels
  <2> QED  BY <1>13, <2>1 DEF LockCalibration
<1>14. ASSUME NEW a \in Actors, LockBoth(a)
       PROVE  TypeOK'
  <2>1. pc' \in [Actors -> Labels]
    BY <1>14 DEF LockBoth, Labels
  <2> QED  BY <1>14, <2>1 DEF LockBoth
<1>15. ASSUME NEW a \in Actors, Read(a)
       PROVE  TypeOK'
  <2>1. pc' \in [Actors -> Labels]
    BY <1>15, Targets DEF Read
  <2>2. data' \in [Actors -> Adc]
    BY <1>15, PresetTypes DEF Read
  <2> QED  BY <1>15, <2>1, <2>2 DEF Read
<1>16. ASSUME NEW a \in Actors, ReadFails(a)
       PROVE  TypeOK'
  <2>1. pc' \in [Actors -> Labels]
    BY <1>16, Targets DEF ReadFails
  <2> QED  BY <1>16, <2>1 DEF ReadFails
<1>17. ASSUME NEW a \in Actors, Store(a)
       PROVE  TypeOK'
  <2>1. pc' \in [Actors -> Labels]
    BY <1>17, Targets DEF Store
  <2> QED  BY <1>17, <2>1 DEF Store
<1>18. ASSUME NEW a \in Actors, SetZero(a)
       PROVE  TypeOK'
  <2>1. pc' \in [Actors -> Labels]
    BY <1>18, Targets DEF SetZero
  <2>2. calibration' \in Calibration
    BY <1>18 DEF SetZero, Calibration
  <2> QED  BY <1>18, <2>1, <2>2 DEF SetZero
<1>19. ASSUME NEW a \in Actors, set_calibration(a)
       PROVE  TypeOK'
  <2>1. pc' \in [Actors -> Labels]
    BY <1>19, Targets DEF set_calibration
  <2>2. calibration' \in Calibration
    BY <1>19, PresetTypes DEF set_calibration
  <2> QED  BY <1>19, <2>1, <2>2 DEF set_calibration
<1>20. ASSUME NEW a \in Actors, get_cached_data(a)
       PROVE  TypeOK'
  <2>1. pc' \in [Actors -> Labels]
    BY <1>20 DEF get_cached_data, Labels
  <2> QED  BY <1>20, <2>1 DEF get_cached_data
<1>21. ASSUME NEW a \in Actors, get_cached_angles(a)
       PROVE  TypeOK'
  <2>1. pc' \in [Actors -> Labels]
    BY <1>21, Targets DEF get_cached_angles
  <2>2. Angle(calibration, data[a]) \in Int
    BY Scale DEF Angle, Adc, Calibration
  <2>3. angle' \in [Callers -> SUBSET Int]
    BY <1>21, <2>2 DEF get_cached_angles
  <2> QED  BY <1>21, <2>1, <2>3 DEF get_cached_angles
<1> HIDE DEF IInv, TypeOK
<1> QED
  BY <1>1, <1>2, <1>3, <1>4, <1>5, <1>6, <1>7,
     <1>8, <1>9, <1>10, <1>11, <1>12, <1>13, <1>14,
     <1>15, <1>16, <1>17, <1>18, <1>19, <1>20, <1>21
     DEF Next, ManageThread, Manage, Acquire, Work

\* Each step keeps the owners: a mutex is released by its owner only.
LEMMA MutexStep ==
    ASSUME IInv, Next
    PROVE  MutexInv'
<1> USE DEF IInv, TypeOK, MutexInv, AtCache, AtCalibration
<1>1. ASSUME NEW c \in Callers, Call(c)
      PROVE  MutexInv'
  <2>1. PICK o \in Methods : pc' = [pc EXCEPT ![c] = FirstStep(o)]
    BY <1>1, Begins
  <2>2. FirstStep(o) \notin {"inData", "inCalibration", "inBoth"}
    BY DEF Methods, FirstStep
  <2> QED  BY <1>1, <2>1, <2>2, Cast DEF Call
<1>2. ASSUME Move
      PROVE  MutexInv'
  BY <1>2 DEF Move
<1>3. ASSUME NEW c \in Callers, StartCheck(c), UNCHANGED <<config, hand, shared, mutexes, local>>
      PROVE  MutexInv'
  <2>1. After(c) \notin {"inData", "inCalibration", "inBoth"}
    BY DEF After
  <2> QED  BY <1>3, <2>1, Cast DEF StartCheck
<1>4. ASSUME NEW c \in Callers, StartFlag(c), UNCHANGED <<config, hand, shared, mutexes, local>>
      PROVE  MutexInv'
  BY <1>4, Cast DEF StartFlag
<1>5. ASSUME NEW c \in Callers, Spawn(c), UNCHANGED <<config, hand, shared, mutexes, local>>
      PROVE  MutexInv'
  <2>1. After(c) \notin {"inData", "inCalibration", "inBoth"}
    BY DEF After
  <2>2. PICK k \in Loops : pc' = [pc EXCEPT ![c] = After(c), ![k] = "loopCheck"]
    BY <1>5 DEF Spawn
  <2> QED  BY <1>5, <2>1, <2>2, Cast
<1>6. ASSUME NEW c \in Callers, SpawnFails(c), UNCHANGED <<config, hand, shared, mutexes, local>>
      PROVE  MutexInv'
  <2>1. After(c) \notin {"inData", "inCalibration", "inBoth"}
    BY DEF After
  <2> QED  BY <1>6, <2>1, Cast DEF SpawnFails
<1>7. ASSUME NEW c \in Callers, StopCheck(c), UNCHANGED <<config, hand, shared, mutexes, local>>
      PROVE  MutexInv'
  <2>1. After(c) \notin {"inData", "inCalibration", "inBoth"}
    BY DEF After
  <2> QED  BY <1>7, <2>1, Cast DEF StopCheck
<1>8. ASSUME NEW c \in Callers, StopFlag(c), UNCHANGED <<config, hand, shared, mutexes, local>>
      PROVE  MutexInv'
  BY <1>8, Cast DEF StopFlag
<1>9. ASSUME NEW c \in Callers, Joinable(c), UNCHANGED <<config, hand, shared, mutexes, local>>
      PROVE  MutexInv'
  <2>1. After(c) \notin {"inData", "inCalibration", "inBoth"}
    BY DEF After
  <2> QED  BY <1>9, <2>1, Cast DEF Joinable
<1>10. ASSUME NEW c \in Callers, Join(c), UNCHANGED <<config, hand, shared, mutexes, local>>
       PROVE  MutexInv'
  <2>1. After(c) \notin {"inData", "inCalibration", "inBoth"}
    BY DEF After
  <2>0. \A k \in update_thread : k \in Loops
    OBVIOUS
  <2>2. PICK k \in Loops : pc' = [pc EXCEPT ![c] = After(c), ![k] = "unborn"]
    BY <1>10, <2>0 DEF Join
  <2> QED  BY <1>10, <2>1, <2>2, Cast
<1>11. ASSUME NEW k \in Loops, NextTurn(k)
       PROVE  MutexInv'
  BY <1>11, Cast DEF NextTurn, LoopCheck
<1>12. ASSUME NEW a \in Actors, LockData(a)
       PROVE  MutexInv'
  BY <1>12 DEF LockData
<1>13. ASSUME NEW a \in Actors, LockCalibration(a)
       PROVE  MutexInv'
  BY <1>13 DEF LockCalibration
<1>14. ASSUME NEW a \in Actors, LockBoth(a)
       PROVE  MutexInv'
  BY <1>14 DEF LockBoth
<1>15. ASSUME NEW a \in Actors, Read(a)
       PROVE  MutexInv'
  BY <1>15 DEF Read, AfterRead
<1>16. ASSUME NEW a \in Actors, ReadFails(a)
       PROVE  MutexInv'
  <2>1. After(a) \notin {"inData", "inCalibration", "inBoth"}
    BY DEF After
  <2> QED  BY <1>16, <2>1 DEF ReadFails
<1>17. ASSUME NEW a \in Actors, Store(a)
       PROVE  MutexInv'
  <2>1. AfterStore(a) \notin {"inData", "inCalibration", "inBoth"}
    BY DEF AfterStore, After
  <2> QED  BY <1>17, <2>1 DEF Store
<1>18. ASSUME NEW a \in Actors, SetZero(a)
       PROVE  MutexInv'
  <2>1. After(a) \notin {"inData", "inCalibration", "inBoth"}
    BY DEF After
  <2> QED  BY <1>18, <2>1 DEF SetZero
<1>19. ASSUME NEW a \in Actors, set_calibration(a)
       PROVE  MutexInv'
  <2>1. After(a) \notin {"inData", "inCalibration", "inBoth"}
    BY DEF After
  <2> QED  BY <1>19, <2>1 DEF set_calibration
<1>20. ASSUME NEW a \in Actors, get_cached_data(a)
       PROVE  MutexInv'
  BY <1>20 DEF get_cached_data
<1>21. ASSUME NEW a \in Actors, get_cached_angles(a)
       PROVE  MutexInv'
  <2>1. After(a) \notin {"inData", "inCalibration", "inBoth"}
    BY DEF After
  <2> QED  BY <1>21, <2>1 DEF get_cached_angles
<1> HIDE DEF IInv, TypeOK, MutexInv, AtCache, AtCalibration
<1> QED
  BY <1>1, <1>2, <1>3, <1>4, <1>5, <1>6, <1>7,
     <1>8, <1>9, <1>10, <1>11, <1>12, <1>13, <1>14,
     <1>15, <1>16, <1>17, <1>18, <1>19, <1>20, <1>21
     DEF Next, ManageThread, Manage, Acquire, Work

\* The invariant holds throughout.
LEMMA Invariance == Spec => []IInv
<1>1. IInv /\ [Next]_vars => IInv'
  <2> SUFFICES ASSUME IInv, [Next]_vars PROVE IInv'
    OBVIOUS
  <2>1. CASE Next
    BY <2>1, TypeStep, MutexStep DEF IInv
  <2>2. CASE UNCHANGED vars
    <3>1. TypeOK'
      BY <2>2 DEF IInv, TypeOK
    <3>2. MutexInv'
      BY <2>2 DEF IInv, MutexInv, AtCache, AtCalibration
    <3> QED  BY <3>1, <3>2 DEF IInv
  <2> QED  BY <2>1, <2>2
<1> QED  BY InitInv, <1>1, PTL DEF Spec

\* Every variable of the reader keeps its type (encoder_reader.cpp).
THEOREM TypeCorrect == Spec => []TypeOK
<1>1. IInv => TypeOK
  BY DEF IInv
<1> QED  BY Invariance, <1>1, PTL

\* Cache and calibration are each touched by one thread at a time, the
\* calibration's double lock included (encoder_reader.cpp:35-36, 90-93, 142-149).
THEOREM RaceFreedom == Spec => []NoDataRace
<1>1. IInv => NoDataRace
  BY DEF IInv, MutexInv, AtCache, AtCalibration, NoDataRace
<1> QED  BY Invariance, <1>1, PTL

\* Every angle lies within one turn of zero, for any readings, zeros and callers
\* (encoder_reader.cpp:95-129, 220-232).
THEOREM AngleSafety == Spec => []AnglesBounded
<1>1. Init => AnglesBounded
  BY DEF Init, AnglesBounded
<1>2. ASSUME IInv, AnglesBounded, [Next]_vars
      PROVE  AnglesBounded'
  <2>1. CASE UNCHANGED angle
    BY <1>2, <2>1 DEF AnglesBounded
  <2>2. ASSUME NEW a \in Actors, get_cached_angles(a)
        PROVE  AnglesBounded'
    <3>1. calibration \in Calibration /\ data[a] \in Adc
      BY <1>2 DEF IInv, TypeOK
    <3>2. /\ -ADC_FULL_SCALE < Angle(calibration, data[a])
          /\ Angle(calibration, data[a]) < ADC_FULL_SCALE
      BY <3>1, Scale DEF Angle, Adc, Calibration
    <3>3. angle \in [Callers -> SUBSET Int]
      BY <1>2 DEF IInv, TypeOK
    <3>4. \A c \in Callers : angle'[c] = angle[c] \/ angle'[c] = {Angle(calibration, data[a])}
      BY <2>2, <3>3 DEF get_cached_angles
    <3> QED  BY <1>2, <3>2, <3>4 DEF AnglesBounded
  <2> QED
    BY <1>2, <2>1, <2>2 DEF Next, Call, Move, ManageThread, NextTurn, Acquire, LockData,
       LockCalibration, LockBoth, Work, Read, ReadFails, Store, SetZero, set_calibration,
       get_cached_data
<1> QED  BY Invariance, <1>1, <1>2, PTL DEF Spec

(***************************************************************************)
(* The update thread, when one caller only is its owner.                   *)
(***************************************************************************)
Manages     == {"initialize", "start", "stop", "destroy"}
StartLabels == {"startCheck", "startFlag", "spawn"}
StopLabels  == {"stopCheck", "stopFlag", "joinable", "join"}
WorkLabels  == Labels \ (StartLabels \cup StopLabels \cup {"idle", "destroyed", "unborn", "loopCheck", "ended"})

Orderly == \A app \in Applications :
              \E c \in Callers : \A d \in Callers \ {c} : app[d] \cap Manages = {}

Busy(c) == pc[c] \in StartLabels \cup StopLabels \cup {"destroyed"}

\* Which methods a place in the code belongs to.
OpAt(c) == /\ pc[c] # "idle" => op[c] \in allowed[c]
           /\ pc[c] \in StartLabels => op[c] \in {"initialize", "start"}
           /\ pc[c] \in StopLabels => op[c] \in {"stop", "destroy"}
           /\ pc[c] = "destroyed" => op[c] = "destroy"
           /\ pc[c] \in WorkLabels => op[c] # "destroy"
           /\ pc[c] \notin {"unborn", "loopCheck", "ended"}
OpInv == \A c \in Callers : OpAt(c)

\* A loop that exists is the one that can be joined.
LoopInv == \A k \in Loops : pc[k] # "unborn" <=> update_thread = {k}

\* Flag and thread go together, but for the places between them.
FlagAt(c) == /\ pc[c] = "spawn" => thread_running /\ update_thread = {}
             /\ pc[c] = "startFlag" => ~thread_running /\ update_thread = {}
             /\ pc[c] = "stopFlag" => thread_running /\ update_thread # {}
             /\ pc[c] \in {"joinable", "join"} => ~thread_running /\ update_thread # {}
             /\ pc[c] = "destroyed" => ~thread_running /\ update_thread = {}
FlagInv == (\A c \in Callers : FlagAt(c)) /\ FlagMeansThread

OInv == IInv /\ OpInv /\ LoopInv /\ FlagInv

\* Two callers that are at the thread are one.
LEMMA Alone ==
    ASSUME Orderly, OInv, NEW c \in Callers, NEW d \in Callers, Busy(c), Busy(d)
    PROVE  c = d
<1>1. op[c] \in allowed[c] \cap Manages /\ op[d] \in allowed[d] \cap Manages
  BY DEF OInv, OpInv, OpAt, Busy, Manages, StartLabels, StopLabels
<1>2. allowed \in Applications
  BY DEF OInv, IInv, TypeOK
<1> QED  BY <1>1, <1>2 DEF Orderly

\* Each step keeps places and methods together.
LEMMA OpStep ==
    ASSUME OInv, Next
    PROVE  OpInv'
<1> USE DEF OInv, IInv, TypeOK, OpInv, OpAt, StartLabels, StopLabels, WorkLabels
<1>1. ASSUME NEW c \in Callers, Call(c)
      PROVE  OpInv'
  <2>1. PICK o \in Methods : /\ o \in allowed[c]
                             /\ op' = [op EXCEPT ![c] = o]
                             /\ pc' = [pc EXCEPT ![c] = FirstStep(o)]
    BY <1>1, Begins
  <2>2. /\ FirstStep(o) \in WorkLabels \cup {"startCheck", "stopCheck"}
        /\ FirstStep(o) = "startCheck" => o = "start"
        /\ FirstStep(o) = "stopCheck" <=> o \in {"stop", "destroy"}
    BY DEF Methods, FirstStep, Labels
  <2>3. allowed' = allowed
    BY <1>1 DEF Call
  <2>4. ASSUME NEW d \in Callers
        PROVE  OpAt(d)'
    <3>1. CASE d = c
      BY <3>1, <2>1, <2>2, <2>3, Cast
    <3>2. CASE d # c
      BY <3>2, <2>1, <2>3, Cast
    <3> QED  BY <3>1, <3>2
  <2> QED  BY <2>4
<1>2. ASSUME Move
      PROVE  OpInv'
  BY <1>2 DEF Move
<1>3. ASSUME NEW c \in Callers, StartCheck(c), UNCHANGED <<config, hand, shared, mutexes, local>>
      PROVE  OpInv'
  <2>1. After(c) \in {"idle", "destroyed", "loopCheck"} /\ (c \notin Loops => After(c) # "loopCheck")
        /\ (After(c) = "destroyed" => op[c] = "destroy")
    BY DEF After
  <2>8. op' = op /\ allowed' = allowed
    BY <1>3 DEF StartCheck
  <2>9. ASSUME NEW d \in Callers
        PROVE  OpAt(d)'
    <3>1. CASE d = c
      BY <1>3, <2>8, <3>1, <2>1, Cast DEF StartCheck
    <3>2. CASE d # c
      <4>1. pc'[d] = pc[d]
        BY <1>3, <3>2, <2>1, Cast DEF StartCheck
      <4> QED  BY <2>8, <4>1
    <3> QED  BY <3>1, <3>2
  <2> QED  BY <2>9
<1>4. ASSUME NEW c \in Callers, StartFlag(c), UNCHANGED <<config, hand, shared, mutexes, local>>
      PROVE  OpInv'
  <2>8. op' = op /\ allowed' = allowed
    BY <1>4 DEF StartFlag
  <2>9. ASSUME NEW d \in Callers
        PROVE  OpAt(d)'
    <3>1. CASE d = c
      BY <1>4, <2>8, <3>1, Cast DEF StartFlag
    <3>2. CASE d # c
      <4>1. pc'[d] = pc[d]
        BY <1>4, <3>2, Cast DEF StartFlag
      <4> QED  BY <2>8, <4>1
    <3> QED  BY <3>1, <3>2
  <2> QED  BY <2>9
<1>5. ASSUME NEW c \in Callers, Spawn(c), UNCHANGED <<config, hand, shared, mutexes, local>>
      PROVE  OpInv'
  <2>1. After(c) \in {"idle", "destroyed", "loopCheck"} /\ (c \notin Loops => After(c) # "loopCheck")
        /\ (After(c) = "destroyed" => op[c] = "destroy")
    BY DEF After
  <2>2. PICK k \in Loops : pc' = [pc EXCEPT ![c] = After(c), ![k] = "loopCheck"]
    BY <1>5 DEF Spawn
  <2>8. op' = op /\ allowed' = allowed
    BY <1>5 DEF Spawn
  <2>9. ASSUME NEW d \in Callers
        PROVE  OpAt(d)'
    <3>1. CASE d = c
      BY <1>5, <2>8, <3>1, <2>1, <2>2, Cast DEF Spawn
    <3>2. CASE d # c
      <4>1. pc'[d] = pc[d]
        BY <1>5, <3>2, <2>1, <2>2, Cast DEF Spawn
      <4> QED  BY <2>8, <4>1
    <3> QED  BY <3>1, <3>2
  <2> QED  BY <2>9
<1>6. ASSUME NEW c \in Callers, SpawnFails(c), UNCHANGED <<config, hand, shared, mutexes, local>>
      PROVE  OpInv'
  <2>1. After(c) \in {"idle", "destroyed", "loopCheck"} /\ (c \notin Loops => After(c) # "loopCheck")
        /\ (After(c) = "destroyed" => op[c] = "destroy")
    BY DEF After
  <2>8. op' = op /\ allowed' = allowed
    BY <1>6 DEF SpawnFails
  <2>9. ASSUME NEW d \in Callers
        PROVE  OpAt(d)'
    <3>1. CASE d = c
      BY <1>6, <2>8, <3>1, <2>1, Cast DEF SpawnFails
    <3>2. CASE d # c
      <4>1. pc'[d] = pc[d]
        BY <1>6, <3>2, <2>1, Cast DEF SpawnFails
      <4> QED  BY <2>8, <4>1
    <3> QED  BY <3>1, <3>2
  <2> QED  BY <2>9
<1>7. ASSUME NEW c \in Callers, StopCheck(c), UNCHANGED <<config, hand, shared, mutexes, local>>
      PROVE  OpInv'
  <2>1. After(c) \in {"idle", "destroyed", "loopCheck"} /\ (c \notin Loops => After(c) # "loopCheck")
        /\ (After(c) = "destroyed" => op[c] = "destroy")
    BY DEF After
  <2>8. op' = op /\ allowed' = allowed
    BY <1>7 DEF StopCheck
  <2>9. ASSUME NEW d \in Callers
        PROVE  OpAt(d)'
    <3>1. CASE d = c
      BY <1>7, <2>8, <3>1, <2>1, Cast DEF StopCheck
    <3>2. CASE d # c
      <4>1. pc'[d] = pc[d]
        BY <1>7, <3>2, <2>1, Cast DEF StopCheck
      <4> QED  BY <2>8, <4>1
    <3> QED  BY <3>1, <3>2
  <2> QED  BY <2>9
<1>8. ASSUME NEW c \in Callers, StopFlag(c), UNCHANGED <<config, hand, shared, mutexes, local>>
      PROVE  OpInv'
  <2>8. op' = op /\ allowed' = allowed
    BY <1>8 DEF StopFlag
  <2>9. ASSUME NEW d \in Callers
        PROVE  OpAt(d)'
    <3>1. CASE d = c
      BY <1>8, <2>8, <3>1, Cast DEF StopFlag
    <3>2. CASE d # c
      <4>1. pc'[d] = pc[d]
        BY <1>8, <3>2, Cast DEF StopFlag
      <4> QED  BY <2>8, <4>1
    <3> QED  BY <3>1, <3>2
  <2> QED  BY <2>9
<1>9. ASSUME NEW c \in Callers, Joinable(c), UNCHANGED <<config, hand, shared, mutexes, local>>
      PROVE  OpInv'
  <2>1. After(c) \in {"idle", "destroyed", "loopCheck"} /\ (c \notin Loops => After(c) # "loopCheck")
        /\ (After(c) = "destroyed" => op[c] = "destroy")
    BY DEF After
  <2>8. op' = op /\ allowed' = allowed
    BY <1>9 DEF Joinable
  <2>9. ASSUME NEW d \in Callers
        PROVE  OpAt(d)'
    <3>1. CASE d = c
      BY <1>9, <2>8, <3>1, <2>1, Cast DEF Joinable
    <3>2. CASE d # c
      <4>1. pc'[d] = pc[d]
        BY <1>9, <3>2, <2>1, Cast DEF Joinable
      <4> QED  BY <2>8, <4>1
    <3> QED  BY <3>1, <3>2
  <2> QED  BY <2>9
<1>10. ASSUME NEW c \in Callers, Join(c), UNCHANGED <<config, hand, shared, mutexes, local>>
       PROVE  OpInv'
  <2>1. After(c) \in {"idle", "destroyed", "loopCheck"} /\ (c \notin Loops => After(c) # "loopCheck")
        /\ (After(c) = "destroyed" => op[c] = "destroy")
    BY DEF After
  <2>0. \A k \in update_thread : k \in Loops
    OBVIOUS
  <2>2. PICK k \in Loops : pc' = [pc EXCEPT ![c] = After(c), ![k] = "unborn"]
    BY <1>10, <2>0 DEF Join
  <2>8. op' = op /\ allowed' = allowed
    BY <1>10 DEF Join
  <2>9. ASSUME NEW d \in Callers
        PROVE  OpAt(d)'
    <3>1. CASE d = c
      BY <1>10, <2>8, <3>1, <2>1, <2>2, Cast DEF Join
    <3>2. CASE d # c
      <4>1. pc'[d] = pc[d]
        BY <1>10, <3>2, <2>1, <2>2, Cast DEF Join
      <4> QED  BY <2>8, <4>1
    <3> QED  BY <3>1, <3>2
  <2> QED  BY <2>9
<1>11. ASSUME NEW k \in Loops, NextTurn(k)
       PROVE  OpInv'
  <2>1. op' = op /\ allowed' = allowed /\ \A d \in Callers : pc'[d] = pc[d]
    BY <1>11, Cast DEF NextTurn, LoopCheck
  <2> QED  BY <2>1
<1>12. ASSUME NEW a \in Actors, LockData(a)
       PROVE  OpInv'
  <2>8. op' = op /\ allowed' = allowed
    BY <1>12 DEF LockData, Labels
  <2>9. ASSUME NEW d \in Callers
        PROVE  OpAt(d)'
    <3>1. CASE d = a
      BY <1>12, <2>8, <3>1, Cast DEF LockData, Labels
    <3>2. CASE d # a
      <4>1. pc'[d] = pc[d]
        BY <1>12, <3>2, Cast DEF LockData, Labels
      <4> QED  BY <2>8, <4>1
    <3> QED  BY <3>1, <3>2
  <2> QED  BY <2>9
<1>13. ASSUME NEW a \in Actors, LockCalibration(a)
       PROVE  OpInv'
  <2>8. op' = op /\ allowed' = allowed
    BY <1>13 DEF LockCalibration, Labels
  <2>9. ASSUME NEW d \in Callers
        PROVE  OpAt(d)'
    <3>1. CASE d = a
      BY <1>13, <2>8, <3>1, Cast DEF LockCalibration, Labels
    <3>2. CASE d # a
      <4>1. pc'[d] = pc[d]
        BY <1>13, <3>2, Cast DEF LockCalibration, Labels
      <4> QED  BY <2>8, <4>1
    <3> QED  BY <3>1, <3>2
  <2> QED  BY <2>9
<1>14. ASSUME NEW a \in Actors, LockBoth(a)
       PROVE  OpInv'
  <2>8. op' = op /\ allowed' = allowed
    BY <1>14 DEF LockBoth, Labels
  <2>9. ASSUME NEW d \in Callers
        PROVE  OpAt(d)'
    <3>1. CASE d = a
      BY <1>14, <2>8, <3>1, Cast DEF LockBoth, Labels
    <3>2. CASE d # a
      <4>1. pc'[d] = pc[d]
        BY <1>14, <3>2, Cast DEF LockBoth, Labels
      <4> QED  BY <2>8, <4>1
    <3> QED  BY <3>1, <3>2
  <2> QED  BY <2>9
<1>15. ASSUME NEW a \in Actors, Read(a)
       PROVE  OpInv'
  <2>1. AfterRead(op[a]) \in {"lockBoth", "lockData"}
    BY DEF AfterRead
  <2>8. op' = op /\ allowed' = allowed
    BY <1>15 DEF Read, Labels
  <2>9. ASSUME NEW d \in Callers
        PROVE  OpAt(d)'
    <3>1. CASE d = a
      BY <1>15, <2>8, <3>1, <2>1, Cast DEF Read, Labels
    <3>2. CASE d # a
      <4>1. pc'[d] = pc[d]
        BY <1>15, <3>2, <2>1, Cast DEF Read, Labels
      <4> QED  BY <2>8, <4>1
    <3> QED  BY <3>1, <3>2
  <2> QED  BY <2>9
<1>16. ASSUME NEW a \in Actors, ReadFails(a)
       PROVE  OpInv'
  <2>1. After(a) \in {"idle", "destroyed", "loopCheck"} /\ (a \notin Loops => After(a) # "loopCheck")
        /\ (After(a) = "destroyed" => op[a] = "destroy")
    BY DEF After
  <2>8. op' = op /\ allowed' = allowed
    BY <1>16 DEF ReadFails, Labels
  <2>9. ASSUME NEW d \in Callers
        PROVE  OpAt(d)'
    <3>1. CASE d = a
      BY <1>16, <2>8, <3>1, <2>1, Cast DEF ReadFails, Labels
    <3>2. CASE d # a
      <4>1. pc'[d] = pc[d]
        BY <1>16, <3>2, <2>1, Cast DEF ReadFails, Labels
      <4> QED  BY <2>8, <4>1
    <3> QED  BY <3>1, <3>2
  <2> QED  BY <2>9
<1>17. ASSUME NEW a \in Actors, Store(a)
       PROVE  OpInv'
  <2>1. After(a) \in {"idle", "destroyed", "loopCheck"} /\ (a \notin Loops => After(a) # "loopCheck")
        /\ (After(a) = "destroyed" => op[a] = "destroy")
    BY DEF After
  <2>2. AfterStore(a) = After(a) \/ (AfterStore(a) = "startCheck" /\ op[a] = "initialize")
    <3>1. CASE op[a] = "initialize" /\ auto_start_thread
      BY <3>1 DEF AfterStore
    <3>2. CASE ~(op[a] = "initialize" /\ auto_start_thread)
      BY <3>2 DEF AfterStore
    <3> QED  BY <3>1, <3>2
  <2>8. op' = op /\ allowed' = allowed
    BY <1>17 DEF Store, Labels
  <2>9. ASSUME NEW d \in Callers
        PROVE  OpAt(d)'
    <3>1. CASE d = a
      BY <1>17, <2>8, <3>1, <2>1, <2>2, Cast DEF Store, Labels
    <3>2. CASE d # a
      <4>1. pc'[d] = pc[d]
        BY <1>17, <3>2, <2>1, <2>2, Cast DEF Store, Labels
      <4> QED  BY <2>8, <4>1
    <3> QED  BY <3>1, <3>2
  <2> QED  BY <2>9
<1>18. ASSUME NEW a \in Actors, SetZero(a)
       PROVE  OpInv'
  <2>1. After(a) \in {"idle", "destroyed", "loopCheck"} /\ (a \notin Loops => After(a) # "loopCheck")
        /\ (After(a) = "destroyed" => op[a] = "destroy")
    BY DEF After
  <2>8. op' = op /\ allowed' = allowed
    BY <1>18 DEF SetZero, Labels
  <2>9. ASSUME NEW d \in Callers
        PROVE  OpAt(d)'
    <3>1. CASE d = a
      BY <1>18, <2>8, <3>1, <2>1, Cast DEF SetZero, Labels
    <3>2. CASE d # a
      <4>1. pc'[d] = pc[d]
        BY <1>18, <3>2, <2>1, Cast DEF SetZero, Labels
      <4> QED  BY <2>8, <4>1
    <3> QED  BY <3>1, <3>2
  <2> QED  BY <2>9
<1>19. ASSUME NEW a \in Actors, set_calibration(a)
       PROVE  OpInv'
  <2>1. After(a) \in {"idle", "destroyed", "loopCheck"} /\ (a \notin Loops => After(a) # "loopCheck")
        /\ (After(a) = "destroyed" => op[a] = "destroy")
    BY DEF After
  <2>8. op' = op /\ allowed' = allowed
    BY <1>19 DEF set_calibration, Labels
  <2>9. ASSUME NEW d \in Callers
        PROVE  OpAt(d)'
    <3>1. CASE d = a
      BY <1>19, <2>8, <3>1, <2>1, Cast DEF set_calibration, Labels
    <3>2. CASE d # a
      <4>1. pc'[d] = pc[d]
        BY <1>19, <3>2, <2>1, Cast DEF set_calibration, Labels
      <4> QED  BY <2>8, <4>1
    <3> QED  BY <3>1, <3>2
  <2> QED  BY <2>9
<1>20. ASSUME NEW a \in Actors, get_cached_data(a)
       PROVE  OpInv'
  <2>8. op' = op /\ allowed' = allowed
    BY <1>20 DEF get_cached_data, Labels
  <2>9. ASSUME NEW d \in Callers
        PROVE  OpAt(d)'
    <3>1. CASE d = a
      BY <1>20, <2>8, <3>1, Cast DEF get_cached_data, Labels
    <3>2. CASE d # a
      <4>1. pc'[d] = pc[d]
        BY <1>20, <3>2, Cast DEF get_cached_data, Labels
      <4> QED  BY <2>8, <4>1
    <3> QED  BY <3>1, <3>2
  <2> QED  BY <2>9
<1>21. ASSUME NEW a \in Actors, get_cached_angles(a)
       PROVE  OpInv'
  <2>1. After(a) \in {"idle", "destroyed", "loopCheck"} /\ (a \notin Loops => After(a) # "loopCheck")
        /\ (After(a) = "destroyed" => op[a] = "destroy")
    BY DEF After
  <2>8. op' = op /\ allowed' = allowed
    BY <1>21 DEF get_cached_angles, Labels
  <2>9. ASSUME NEW d \in Callers
        PROVE  OpAt(d)'
    <3>1. CASE d = a
      BY <1>21, <2>8, <3>1, <2>1, Cast DEF get_cached_angles, Labels
    <3>2. CASE d # a
      <4>1. pc'[d] = pc[d]
        BY <1>21, <3>2, <2>1, Cast DEF get_cached_angles, Labels
      <4> QED  BY <2>8, <4>1
    <3> QED  BY <3>1, <3>2
  <2> QED  BY <2>9
<1> HIDE DEF OInv, IInv, TypeOK, OpInv, OpAt, StartLabels, StopLabels, WorkLabels
<1> QED
  BY <1>1, <1>2, <1>3, <1>4, <1>5, <1>6, <1>7,
     <1>8, <1>9, <1>10, <1>11, <1>12, <1>13, <1>14,
     <1>15, <1>16, <1>17, <1>18, <1>19, <1>20, <1>21
     DEF Next, ManageThread, Manage, Acquire, Work

\* Each step keeps loops and handle together.
LEMMA LoopStep ==
    ASSUME OInv, Next
    PROVE  LoopInv'
<1> USE DEF OInv, IInv, TypeOK, LoopInv
<1>1. ASSUME NEW c \in Callers, Call(c)
      PROVE  LoopInv'
  <2>1. update_thread' = update_thread /\ \A k \in Loops : pc'[k] = pc[k]
    BY <1>1, Cast DEF Call
  <2> QED  BY <2>1
<1>2. ASSUME Move
      PROVE  LoopInv'
  BY <1>2 DEF Move
<1>3. ASSUME NEW c \in Callers, StartCheck(c), UNCHANGED <<config, hand, shared, mutexes, local>>
      PROVE  LoopInv'
  <2>1. update_thread' = update_thread /\ \A k \in Loops : pc'[k] = pc[k]
    BY <1>3, Cast DEF StartCheck
  <2> QED  BY <2>1
<1>4. ASSUME NEW c \in Callers, StartFlag(c), UNCHANGED <<config, hand, shared, mutexes, local>>
      PROVE  LoopInv'
  <2>1. update_thread' = update_thread /\ \A k \in Loops : pc'[k] = pc[k]
    BY <1>4, Cast DEF StartFlag
  <2> QED  BY <2>1
<1>5. ASSUME NEW c \in Callers, Spawn(c), UNCHANGED <<config, hand, shared, mutexes, local>>
      PROVE  LoopInv'
  <2>1. PICK k \in Loops : /\ pc[k] = "unborn"
                           /\ pc' = [pc EXCEPT ![c] = After(c), ![k] = "loopCheck"]
                           /\ update_thread' = {k}
    BY <1>5 DEF Spawn
  <2>2. update_thread = {}
    BY <1>5 DEF Spawn
  <2>3. \A j \in Loops : pc[j] = "unborn"
    BY <2>2
  <2>4. \A j \in Loops : pc'[j] = IF j = k THEN "loopCheck" ELSE pc[j]
    BY <2>1, Cast
  <2>5. ASSUME NEW j \in Loops
        PROVE  pc'[j] # "unborn" <=> update_thread' = {j}
    <3> HIDE DEF OInv, IInv, TypeOK, LoopInv
    <3>1. CASE j = k
      <4>1. pc'[j] = "loopCheck" /\ update_thread' = {j}
        BY <3>1, <2>1, <2>4
      <4> QED  BY <4>1
    <3>2. CASE j # k
      <4>1. {j} # {k}
        BY <3>2
      <4> QED  BY <3>2, <4>1, <2>1, <2>3, <2>4
    <3> QED  BY <3>1, <3>2
  <2> QED  BY <2>5
<1>6. ASSUME NEW c \in Callers, SpawnFails(c), UNCHANGED <<config, hand, shared, mutexes, local>>
      PROVE  LoopInv'
  <2>1. update_thread' = update_thread /\ \A k \in Loops : pc'[k] = pc[k]
    BY <1>6, Cast DEF SpawnFails
  <2> QED  BY <2>1
<1>7. ASSUME NEW c \in Callers, StopCheck(c), UNCHANGED <<config, hand, shared, mutexes, local>>
      PROVE  LoopInv'
  <2>1. update_thread' = update_thread /\ \A k \in Loops : pc'[k] = pc[k]
    BY <1>7, Cast DEF StopCheck
  <2> QED  BY <2>1
<1>8. ASSUME NEW c \in Callers, StopFlag(c), UNCHANGED <<config, hand, shared, mutexes, local>>
      PROVE  LoopInv'
  <2>1. update_thread' = update_thread /\ \A k \in Loops : pc'[k] = pc[k]
    BY <1>8, Cast DEF StopFlag
  <2> QED  BY <2>1
<1>9. ASSUME NEW c \in Callers, Joinable(c), UNCHANGED <<config, hand, shared, mutexes, local>>
      PROVE  LoopInv'
  <2>1. update_thread' = update_thread /\ \A k \in Loops : pc'[k] = pc[k]
    BY <1>9, Cast DEF Joinable
  <2> QED  BY <2>1
<1>10. ASSUME NEW c \in Callers, Join(c), UNCHANGED <<config, hand, shared, mutexes, local>>
       PROVE  LoopInv'
  <2>0. \A k \in update_thread : k \in Loops /\ update_thread = {k}
    OBVIOUS
  <2>1. PICK k \in Loops : /\ update_thread = {k} /\ update_thread' = {}
                           /\ pc' = [pc EXCEPT ![c] = After(c), ![k] = "unborn"]
    BY <1>10, <2>0 DEF Join
  <2>2. \A j \in Loops : pc'[j] = IF j = k THEN "unborn" ELSE pc[j]
    BY <2>1, Cast
  <2> QED  BY <2>1, <2>2
<1>11. ASSUME NEW k \in Loops, NextTurn(k)
       PROVE  LoopInv'
  <2>1. /\ update_thread' = update_thread /\ pc[k] = "loopCheck" /\ pc'[k] # "unborn"
        /\ \A j \in Loops \ {k} : pc'[j] = pc[j]
    BY <1>11, Cast DEF NextTurn, LoopCheck
  <2> QED  BY <2>1
<1>12. ASSUME NEW a \in Actors, LockData(a)
       PROVE  LoopInv'
  <2>8. /\ update_thread' = update_thread /\ pc[a] # "unborn" /\ pc'[a] # "unborn"
        /\ \A j \in Actors \ {a} : pc'[j] = pc[j]
    BY <1>12 DEF LockData
  <2> QED  BY <2>8, Cast
<1>13. ASSUME NEW a \in Actors, LockCalibration(a)
       PROVE  LoopInv'
  <2>8. /\ update_thread' = update_thread /\ pc[a] # "unborn" /\ pc'[a] # "unborn"
        /\ \A j \in Actors \ {a} : pc'[j] = pc[j]
    BY <1>13 DEF LockCalibration
  <2> QED  BY <2>8, Cast
<1>14. ASSUME NEW a \in Actors, LockBoth(a)
       PROVE  LoopInv'
  <2>8. /\ update_thread' = update_thread /\ pc[a] # "unborn" /\ pc'[a] # "unborn"
        /\ \A j \in Actors \ {a} : pc'[j] = pc[j]
    BY <1>14 DEF LockBoth
  <2> QED  BY <2>8, Cast
<1>15. ASSUME NEW a \in Actors, Read(a)
       PROVE  LoopInv'
  <2>1. After(a) # "unborn" /\ AfterStore(a) # "unborn" /\ AfterRead(op[a]) # "unborn"
    BY DEF After, AfterStore, AfterRead
  <2>8. /\ update_thread' = update_thread /\ pc[a] # "unborn" /\ pc'[a] # "unborn"
        /\ \A j \in Actors \ {a} : pc'[j] = pc[j]
    BY <1>15, <2>1 DEF Read
  <2> QED  BY <2>8, Cast
<1>16. ASSUME NEW a \in Actors, ReadFails(a)
       PROVE  LoopInv'
  <2>1. After(a) # "unborn" /\ AfterStore(a) # "unborn" /\ AfterRead(op[a]) # "unborn"
    BY DEF After, AfterStore, AfterRead
  <2>8. /\ update_thread' = update_thread /\ pc[a] # "unborn" /\ pc'[a] # "unborn"
        /\ \A j \in Actors \ {a} : pc'[j] = pc[j]
    BY <1>16, <2>1 DEF ReadFails
  <2> QED  BY <2>8, Cast
<1>17. ASSUME NEW a \in Actors, Store(a)
       PROVE  LoopInv'
  <2>1. After(a) # "unborn" /\ AfterStore(a) # "unborn" /\ AfterRead(op[a]) # "unborn"
    BY DEF After, AfterStore, AfterRead
  <2>8. /\ update_thread' = update_thread /\ pc[a] # "unborn" /\ pc'[a] # "unborn"
        /\ \A j \in Actors \ {a} : pc'[j] = pc[j]
    BY <1>17, <2>1 DEF Store
  <2> QED  BY <2>8, Cast
<1>18. ASSUME NEW a \in Actors, SetZero(a)
       PROVE  LoopInv'
  <2>1. After(a) # "unborn" /\ AfterStore(a) # "unborn" /\ AfterRead(op[a]) # "unborn"
    BY DEF After, AfterStore, AfterRead
  <2>8. /\ update_thread' = update_thread /\ pc[a] # "unborn" /\ pc'[a] # "unborn"
        /\ \A j \in Actors \ {a} : pc'[j] = pc[j]
    BY <1>18, <2>1 DEF SetZero
  <2> QED  BY <2>8, Cast
<1>19. ASSUME NEW a \in Actors, set_calibration(a)
       PROVE  LoopInv'
  <2>1. After(a) # "unborn" /\ AfterStore(a) # "unborn" /\ AfterRead(op[a]) # "unborn"
    BY DEF After, AfterStore, AfterRead
  <2>8. /\ update_thread' = update_thread /\ pc[a] # "unborn" /\ pc'[a] # "unborn"
        /\ \A j \in Actors \ {a} : pc'[j] = pc[j]
    BY <1>19, <2>1 DEF set_calibration
  <2> QED  BY <2>8, Cast
<1>20. ASSUME NEW a \in Actors, get_cached_data(a)
       PROVE  LoopInv'
  <2>8. /\ update_thread' = update_thread /\ pc[a] # "unborn" /\ pc'[a] # "unborn"
        /\ \A j \in Actors \ {a} : pc'[j] = pc[j]
    BY <1>20 DEF get_cached_data
  <2> QED  BY <2>8, Cast
<1>21. ASSUME NEW a \in Actors, get_cached_angles(a)
       PROVE  LoopInv'
  <2>1. After(a) # "unborn" /\ AfterStore(a) # "unborn" /\ AfterRead(op[a]) # "unborn"
    BY DEF After, AfterStore, AfterRead
  <2>8. /\ update_thread' = update_thread /\ pc[a] # "unborn" /\ pc'[a] # "unborn"
        /\ \A j \in Actors \ {a} : pc'[j] = pc[j]
    BY <1>21, <2>1 DEF get_cached_angles
  <2> QED  BY <2>8, Cast
<1> HIDE DEF OInv, IInv, TypeOK, LoopInv
<1> QED
  BY <1>1, <1>2, <1>3, <1>4, <1>5, <1>6, <1>7,
     <1>8, <1>9, <1>10, <1>11, <1>12, <1>13, <1>14,
     <1>15, <1>16, <1>17, <1>18, <1>19, <1>20, <1>21
     DEF Next, ManageThread, Manage, Acquire, Work

\* Each step keeps flag and thread together.
LEMMA FlagStep ==
    ASSUME Orderly, OInv, Next
    PROVE  FlagInv'
<1> USE DEF OInv, IInv, TypeOK, FlagInv, FlagAt, FlagMeansThread, Managing, StartLabels, StopLabels
<1>1. ASSUME NEW c \in Callers, Call(c)
      PROVE  FlagInv'
  <2>1. PICK o \in Methods : pc' = [pc EXCEPT ![c] = FirstStep(o)]
    BY <1>1, Begins
  <2>2. FirstStep(o) \notin {"startFlag", "spawn", "stopFlag", "joinable", "join", "destroyed"}
    BY DEF Methods, FirstStep
  <2>3. thread_running' = thread_running /\ update_thread' = update_thread /\ pc[c] = "idle"
    BY <1>1 DEF Call
  <2>4. \A d \in Callers : pc'[d] = IF d = c THEN FirstStep(o) ELSE pc[d]
    BY <2>1, Cast
  <2> QED  BY <2>2, <2>3, <2>4
<1>2. ASSUME Move
      PROVE  FlagInv'
  BY <1>2 DEF Move
<1>3. ASSUME NEW c \in Callers, StartCheck(c), UNCHANGED <<config, hand, shared, mutexes, local>>
      PROVE  FlagInv'
  <2>1. After(c) \in {"idle", "destroyed"} /\ (After(c) = "destroyed" => op[c] = "destroy")
    BY Cast DEF After
  <2>2. thread_running <=> update_thread # {}
    <3>1. \A d \in Callers : ~Managing(d)
      BY <1>3, Alone DEF Busy, StartCheck
    <3> QED  BY <3>1
  <2>3. After(c) # "destroyed"
    BY <1>3, <2>1 DEF OpInv, OpAt, StartCheck
  <2>7. Busy(c) /\ \A d \in Callers \ {c} : ~Busy(d)
    BY <1>3, Alone DEF Busy, StartCheck
  <2>8. \A d \in Callers \ {c} : pc'[d] = pc[d]
    BY <1>3, Cast DEF StartCheck
  <2>9. FlagAt(c)' /\ (~Managing(c)' => (thread_running' <=> update_thread' # {}))
    BY <1>3, <2>1, <2>2, <2>3, Cast DEF StartCheck
  <2> QED  BY <2>7, <2>8, <2>9 DEF Busy
<1>4. ASSUME NEW c \in Callers, StartFlag(c), UNCHANGED <<config, hand, shared, mutexes, local>>
      PROVE  FlagInv'
  <2>7. Busy(c) /\ \A d \in Callers \ {c} : ~Busy(d)
    BY <1>4, Alone DEF Busy, StartFlag
  <2>8. \A d \in Callers \ {c} : pc'[d] = pc[d]
    BY <1>4, Cast DEF StartFlag
  <2>9. FlagAt(c)' /\ (~Managing(c)' => (thread_running' <=> update_thread' # {}))
    BY <1>4, Cast DEF StartFlag
  <2> QED  BY <2>7, <2>8, <2>9 DEF Busy
<1>5. ASSUME NEW c \in Callers, Spawn(c), UNCHANGED <<config, hand, shared, mutexes, local>>
      PROVE  FlagInv'
  <2>1. After(c) \in {"idle", "destroyed"} /\ (After(c) = "destroyed" => op[c] = "destroy")
    BY Cast DEF After
  <2>2. After(c) = "idle"
    BY <1>5, <2>1 DEF OpInv, OpAt, Spawn
  <2>3. PICK k \in Loops : /\ update_thread' = {k} /\ thread_running' = thread_running
                           /\ pc' = [pc EXCEPT ![c] = After(c), ![k] = "loopCheck"]
    BY <1>5 DEF Spawn
  <2>7. Busy(c) /\ \A d \in Callers \ {c} : ~Busy(d)
    BY <1>5, Alone DEF Busy, Spawn
  <2>8. \A d \in Callers \ {c} : pc'[d] = pc[d]
    BY <2>3, Cast
  <2>9. FlagAt(c)' /\ (~Managing(c)' => (thread_running' <=> update_thread' # {}))
    BY <1>5, <2>1, <2>2, <2>3, Cast DEF Spawn
  <2> QED  BY <2>7, <2>8, <2>9 DEF Busy
<1>6. ASSUME NEW c \in Callers, SpawnFails(c), UNCHANGED <<config, hand, shared, mutexes, local>>
      PROVE  FlagInv'
  <2>1. After(c) \in {"idle", "destroyed"} /\ (After(c) = "destroyed" => op[c] = "destroy")
    BY Cast DEF After
  <2>2. After(c) = "idle"
    BY <1>6, <2>1 DEF OpInv, OpAt, SpawnFails
  <2>7. Busy(c) /\ \A d \in Callers \ {c} : ~Busy(d)
    BY <1>6, Alone DEF Busy, SpawnFails
  <2>8. \A d \in Callers \ {c} : pc'[d] = pc[d]
    BY <1>6, Cast DEF SpawnFails
  <2>9. FlagAt(c)' /\ (~Managing(c)' => (thread_running' <=> update_thread' # {}))
    BY <1>6, <2>1, <2>2, Cast DEF SpawnFails
  <2> QED  BY <2>7, <2>8, <2>9 DEF Busy
<1>7. ASSUME NEW c \in Callers, StopCheck(c), UNCHANGED <<config, hand, shared, mutexes, local>>
      PROVE  FlagInv'
  <2>1. After(c) \in {"idle", "destroyed"} /\ (After(c) = "destroyed" => op[c] = "destroy")
    BY Cast DEF After
  <2>2. thread_running <=> update_thread # {}
    <3>1. \A d \in Callers : ~Managing(d)
      BY <1>7, Alone DEF Busy, StopCheck
    <3> QED  BY <3>1
  <2>7. Busy(c) /\ \A d \in Callers \ {c} : ~Busy(d)
    BY <1>7, Alone DEF Busy, StopCheck
  <2>8. \A d \in Callers \ {c} : pc'[d] = pc[d]
    BY <1>7, Cast DEF StopCheck
  <2>9. FlagAt(c)' /\ (~Managing(c)' => (thread_running' <=> update_thread' # {}))
    BY <1>7, <2>1, <2>2, Cast DEF StopCheck
  <2> QED  BY <2>7, <2>8, <2>9 DEF Busy
<1>8. ASSUME NEW c \in Callers, StopFlag(c), UNCHANGED <<config, hand, shared, mutexes, local>>
      PROVE  FlagInv'
  <2>7. Busy(c) /\ \A d \in Callers \ {c} : ~Busy(d)
    BY <1>8, Alone DEF Busy, StopFlag
  <2>8. \A d \in Callers \ {c} : pc'[d] = pc[d]
    BY <1>8, Cast DEF StopFlag
  <2>9. FlagAt(c)' /\ (~Managing(c)' => (thread_running' <=> update_thread' # {}))
    BY <1>8, Cast DEF StopFlag
  <2> QED  BY <2>7, <2>8, <2>9 DEF Busy
<1>9. ASSUME NEW c \in Callers, Joinable(c), UNCHANGED <<config, hand, shared, mutexes, local>>
      PROVE  FlagInv'
  <2>7. Busy(c) /\ \A d \in Callers \ {c} : ~Busy(d)
    BY <1>9, Alone DEF Busy, Joinable
  <2>8. \A d \in Callers \ {c} : pc'[d] = pc[d]
    BY <1>9, Cast DEF Joinable
  <2>9. FlagAt(c)' /\ (~Managing(c)' => (thread_running' <=> update_thread' # {}))
    BY <1>9, Cast DEF Joinable
  <2> QED  BY <2>7, <2>8, <2>9 DEF Busy
<1>10. ASSUME NEW c \in Callers, Join(c), UNCHANGED <<config, hand, shared, mutexes, local>>
       PROVE  FlagInv'
  <2>1. After(c) \in {"idle", "destroyed"} /\ (After(c) = "destroyed" => op[c] = "destroy")
    BY Cast DEF After
  <2>2. ~thread_running /\ \A k \in update_thread : k \in Loops
    BY <1>10 DEF Join
  <2>3. PICK k \in Loops : /\ update_thread' = {} /\ thread_running' = thread_running
                           /\ pc' = [pc EXCEPT ![c] = After(c), ![k] = "unborn"]
    BY <1>10, <2>2 DEF Join
  <2>7. Busy(c) /\ \A d \in Callers \ {c} : ~Busy(d)
    BY <1>10, Alone DEF Busy, Join
  <2>8. \A d \in Callers \ {c} : pc'[d] = pc[d]
    BY <2>3, Cast
  <2>9. FlagAt(c)' /\ (~Managing(c)' => (thread_running' <=> update_thread' # {}))
    BY <2>1, <2>2, <2>3, Cast
  <2> QED  BY <2>7, <2>8, <2>9 DEF Busy
<1>11. ASSUME NEW k \in Loops, NextTurn(k)
       PROVE  FlagInv'
  <2>1. /\ thread_running' = thread_running /\ update_thread' = update_thread
        /\ \A d \in Callers : pc'[d] = pc[d]
    BY <1>11, Cast DEF NextTurn, LoopCheck
  <2> QED  BY <2>1
<1>12. ASSUME NEW a \in Actors, LockData(a)
       PROVE  FlagInv'
  <2>8. /\ thread_running' = thread_running /\ update_thread' = update_thread
        /\ a \in Callers => pc'[a] \notin {"startFlag", "spawn", "stopFlag", "joinable", "join", "destroyed"}
        /\ pc[a] \notin {"startFlag", "spawn", "stopFlag", "joinable", "join", "destroyed"}
        /\ \A d \in Actors \ {a} : pc'[d] = pc[d]
    BY <1>12 DEF LockData
  <2> QED  BY <2>8, Cast
<1>13. ASSUME NEW a \in Actors, LockCalibration(a)
       PROVE  FlagInv'
  <2>8. /\ thread_running' = thread_running /\ update_thread' = update_thread
        /\ a \in Callers => pc'[a] \notin {"startFlag", "spawn", "stopFlag", "joinable", "join", "destroyed"}
        /\ pc[a] \notin {"startFlag", "spawn", "stopFlag", "joinable", "join", "destroyed"}
        /\ \A d \in Actors \ {a} : pc'[d] = pc[d]
    BY <1>13 DEF LockCalibration
  <2> QED  BY <2>8, Cast
<1>14. ASSUME NEW a \in Actors, LockBoth(a)
       PROVE  FlagInv'
  <2>8. /\ thread_running' = thread_running /\ update_thread' = update_thread
        /\ a \in Callers => pc'[a] \notin {"startFlag", "spawn", "stopFlag", "joinable", "join", "destroyed"}
        /\ pc[a] \notin {"startFlag", "spawn", "stopFlag", "joinable", "join", "destroyed"}
        /\ \A d \in Actors \ {a} : pc'[d] = pc[d]
    BY <1>14 DEF LockBoth
  <2> QED  BY <2>8, Cast
<1>15. ASSUME NEW a \in Actors, Read(a)
       PROVE  FlagInv'
  <2>1. /\ a \in Callers => After(a) = "idle" /\ AfterStore(a) \in {"idle", "startCheck"}
        /\ AfterRead(op[a]) \in {"lockBoth", "lockData"}
    BY <1>15, Cast DEF Read, OpInv, OpAt, WorkLabels, StartLabels, StopLabels, Labels, After, AfterStore, AfterRead
  <2>8. /\ thread_running' = thread_running /\ update_thread' = update_thread
        /\ a \in Callers => pc'[a] \notin {"startFlag", "spawn", "stopFlag", "joinable", "join", "destroyed"}
        /\ pc[a] \notin {"startFlag", "spawn", "stopFlag", "joinable", "join", "destroyed"}
        /\ \A d \in Actors \ {a} : pc'[d] = pc[d]
    BY <1>15, <2>1 DEF Read
  <2> QED  BY <2>8, Cast
<1>16. ASSUME NEW a \in Actors, ReadFails(a)
       PROVE  FlagInv'
  <2>1. /\ a \in Callers => After(a) = "idle" /\ AfterStore(a) \in {"idle", "startCheck"}
        /\ AfterRead(op[a]) \in {"lockBoth", "lockData"}
    BY <1>16, Cast DEF ReadFails, OpInv, OpAt, WorkLabels, StartLabels, StopLabels, Labels, After, AfterStore, AfterRead
  <2>8. /\ thread_running' = thread_running /\ update_thread' = update_thread
        /\ a \in Callers => pc'[a] \notin {"startFlag", "spawn", "stopFlag", "joinable", "join", "destroyed"}
        /\ pc[a] \notin {"startFlag", "spawn", "stopFlag", "joinable", "join", "destroyed"}
        /\ \A d \in Actors \ {a} : pc'[d] = pc[d]
    BY <1>16, <2>1 DEF ReadFails
  <2> QED  BY <2>8, Cast
<1>17. ASSUME NEW a \in Actors, Store(a)
       PROVE  FlagInv'
  <2>1. /\ a \in Callers => After(a) = "idle" /\ AfterStore(a) \in {"idle", "startCheck"}
        /\ AfterRead(op[a]) \in {"lockBoth", "lockData"}
    BY <1>17, Cast DEF Store, OpInv, OpAt, WorkLabels, StartLabels, StopLabels, Labels, After, AfterStore, AfterRead
  <2>8. /\ thread_running' = thread_running /\ update_thread' = update_thread
        /\ a \in Callers => pc'[a] \notin {"startFlag", "spawn", "stopFlag", "joinable", "join", "destroyed"}
        /\ pc[a] \notin {"startFlag", "spawn", "stopFlag", "joinable", "join", "destroyed"}
        /\ \A d \in Actors \ {a} : pc'[d] = pc[d]
    BY <1>17, <2>1 DEF Store
  <2> QED  BY <2>8, Cast
<1>18. ASSUME NEW a \in Actors, SetZero(a)
       PROVE  FlagInv'
  <2>1. /\ a \in Callers => After(a) = "idle" /\ AfterStore(a) \in {"idle", "startCheck"}
        /\ AfterRead(op[a]) \in {"lockBoth", "lockData"}
    BY <1>18, Cast DEF SetZero, OpInv, OpAt, WorkLabels, StartLabels, StopLabels, Labels, After, AfterStore, AfterRead
  <2>8. /\ thread_running' = thread_running /\ update_thread' = update_thread
        /\ a \in Callers => pc'[a] \notin {"startFlag", "spawn", "stopFlag", "joinable", "join", "destroyed"}
        /\ pc[a] \notin {"startFlag", "spawn", "stopFlag", "joinable", "join", "destroyed"}
        /\ \A d \in Actors \ {a} : pc'[d] = pc[d]
    BY <1>18, <2>1 DEF SetZero
  <2> QED  BY <2>8, Cast
<1>19. ASSUME NEW a \in Actors, set_calibration(a)
       PROVE  FlagInv'
  <2>1. /\ a \in Callers => After(a) = "idle" /\ AfterStore(a) \in {"idle", "startCheck"}
        /\ AfterRead(op[a]) \in {"lockBoth", "lockData"}
    BY <1>19, Cast DEF set_calibration, OpInv, OpAt, WorkLabels, StartLabels, StopLabels, Labels, After, AfterStore, AfterRead
  <2>8. /\ thread_running' = thread_running /\ update_thread' = update_thread
        /\ a \in Callers => pc'[a] \notin {"startFlag", "spawn", "stopFlag", "joinable", "join", "destroyed"}
        /\ pc[a] \notin {"startFlag", "spawn", "stopFlag", "joinable", "join", "destroyed"}
        /\ \A d \in Actors \ {a} : pc'[d] = pc[d]
    BY <1>19, <2>1 DEF set_calibration
  <2> QED  BY <2>8, Cast
<1>20. ASSUME NEW a \in Actors, get_cached_data(a)
       PROVE  FlagInv'
  <2>8. /\ thread_running' = thread_running /\ update_thread' = update_thread
        /\ a \in Callers => pc'[a] \notin {"startFlag", "spawn", "stopFlag", "joinable", "join", "destroyed"}
        /\ pc[a] \notin {"startFlag", "spawn", "stopFlag", "joinable", "join", "destroyed"}
        /\ \A d \in Actors \ {a} : pc'[d] = pc[d]
    BY <1>20 DEF get_cached_data
  <2> QED  BY <2>8, Cast
<1>21. ASSUME NEW a \in Actors, get_cached_angles(a)
       PROVE  FlagInv'
  <2>1. /\ a \in Callers => After(a) = "idle" /\ AfterStore(a) \in {"idle", "startCheck"}
        /\ AfterRead(op[a]) \in {"lockBoth", "lockData"}
    BY <1>21, Cast DEF get_cached_angles, OpInv, OpAt, WorkLabels, StartLabels, StopLabels, Labels, After, AfterStore, AfterRead
  <2>8. /\ thread_running' = thread_running /\ update_thread' = update_thread
        /\ a \in Callers => pc'[a] \notin {"startFlag", "spawn", "stopFlag", "joinable", "join", "destroyed"}
        /\ pc[a] \notin {"startFlag", "spawn", "stopFlag", "joinable", "join", "destroyed"}
        /\ \A d \in Actors \ {a} : pc'[d] = pc[d]
    BY <1>21, <2>1 DEF get_cached_angles
  <2> QED  BY <2>8, Cast
<1> HIDE DEF OInv, IInv, TypeOK, FlagInv, FlagAt, FlagMeansThread, Managing, StartLabels, StopLabels
<1> QED
  BY <1>1, <1>2, <1>3, <1>4, <1>5, <1>6, <1>7,
     <1>8, <1>9, <1>10, <1>11, <1>12, <1>13, <1>14,
     <1>15, <1>16, <1>17, <1>18, <1>19, <1>20, <1>21
     DEF Next, ManageThread, Manage, Acquire, Work

\* With one owner, the invariant of the thread holds throughout.
LEMMA ThreadInvariance == Orderly => (Spec => []OInv)
<1>1. Init => OInv
  <2> SUFFICES ASSUME Init PROVE OInv
    OBVIOUS
  <2>1. /\ \A c \in Callers : pc[c] = "idle"
        /\ \A k \in Loops : pc[k] = "unborn"
        /\ update_thread = {} /\ thread_running = FALSE
    BY Cast DEF Init, ThreadInit
  <2>2. OpInv /\ LoopInv /\ FlagInv
    BY <2>1 DEF OpInv, OpAt, LoopInv, FlagInv, FlagAt, FlagMeansThread, StartLabels, StopLabels,
                WorkLabels
  <2> QED  BY <2>2, InitInv DEF OInv
<1>2. Orderly /\ OInv /\ [Next]_vars => OInv'
  <2> SUFFICES ASSUME Orderly, OInv, [Next]_vars PROVE OInv'
    OBVIOUS
  <2>1. CASE Next
    BY <2>1, TypeStep, MutexStep, OpStep, LoopStep, FlagStep DEF OInv, IInv
  <2>2. CASE UNCHANGED vars
    <3>1. IInv'
      BY <2>2 DEF OInv, IInv, TypeOK, MutexInv, AtCache, AtCalibration
    <3>2. OpInv'
      BY <2>2 DEF OInv, OpInv, OpAt
    <3>3. LoopInv'
      BY <2>2 DEF OInv, LoopInv
    <3>4. FlagInv'
      BY <2>2 DEF OInv, FlagInv, FlagAt, FlagMeansThread, Managing
    <3> QED  BY <3>1, <3>2, <3>3, <3>4 DEF OInv
  <2> QED  BY <2>1, <2>2
<1>3. Orderly => []Orderly
  <2>1. Orderly => Orderly'
    OBVIOUS
  <2> QED  BY <2>1, PTL
<1> QED  BY <1>1, <1>2, <1>3, PTL DEF Spec

\* With one owner, no thread is assigned over, joined twice or left to be
\* destroyed while it can be joined (encoder_reader.cpp:21-27, 51-77).
THEOREM NoTermination == Orderly => (Spec => []NoTerminate)
<1>1. OInv => NoTerminate
  BY DEF OInv, FlagInv, FlagAt, NoTerminate, Terminates
<1> QED  BY ThreadInvariance, <1>1, PTL

\* With one owner, the flag tells whether there is a thread, whenever a thread
\* could not be created, too (encoder_reader.cpp:51-65).
THEOREM FlagTruth == Orderly => (Spec => []FlagMeansThread)
<1>1. OInv => FlagMeansThread
  BY DEF OInv, FlagInv
<1> QED  BY ThreadInvariance, <1>1, PTL

\* With one owner, no update thread runs without a handle or outlives the
\* component (encoder_reader.cpp:21-27, 67-77).
THEOREM NoOrphans == Orderly => (Spec => []NoOrphanLoop)
<1>1. OInv => NoOrphanLoop
  BY DEF OInv, LoopInv, FlagInv, FlagAt, NoOrphanLoop
<1> QED  BY ThreadInvariance, <1>1, PTL

(***************************************************************************)
(* No deadlock.  Races are kept out by MutexInv: who is at the data owns   *)
(* the mutex.  That nobody waits for ever needs the converse, and for the  *)
(* join that the loop it waits for is on its way out.                      *)
(***************************************************************************)
LoopLabels == {"unborn", "loopCheck", "read", "lockData", "inData", "ended"}

\* No way out of a method leaves a mutex locked; the calibration's is taken by two
\* methods for a step of their own, and by no loop.
OwnerInv ==
    /\ \A a \in data_mutex : AtCache(a)
    /\ \A a \in calibration_mutex : AtCalibration(a)
    /\ \A a \in Actors : pc[a] \in {"lockCalibration", "inCalibration"}
                            => op[a] \in {"set_calibration", "get_angles"}
    /\ \A k \in Loops : op[k] = "update" /\ pc[k] \in LoopLabels

\* An actor that finds a mutex it needs locked, or joins a loop that still runs.
Blocked(a) ==
    \/ pc[a] = "lockData" /\ data_mutex # {}
    \/ pc[a] = "lockCalibration" /\ calibration_mutex # {}
    \/ pc[a] = "lockBoth" /\ ~(data_mutex = {} /\ calibration_mutex = {})
    \/ pc[a] = "join" /\ \A k \in update_thread : pc[k] # "ended"

\* An actor whose next step waits for nothing: it is under a mutex and releases it,
\* or a loop between its mutexes.
Advances(a) ==
    \/ pc[a] \in {"inData", "inBoth"}
    \/ pc[a] = "inCalibration" /\ op[a] \in {"set_calibration", "get_angles"}
    \/ a \in Loops /\ pc[a] \in {"loopCheck", "read"}
    \/ a \in Loops /\ pc[a] = "lockData" /\ data_mutex = {}

\* Whenever somebody waits, somebody can go on, and whoever joins the loop has told
\* it to end (encoder_reader.cpp:67-77, 131-154): stop_update_thread() waits for a
\* loop that may wait for a mutex, but never with a mutex held.
NoDeadlock ==
    /\ (\E a \in Actors : Blocked(a)) => \E b \in Actors : Advances(b)
    /\ \A c \in Callers : pc[c] = "join" => ~thread_running /\ update_thread # {}

\* Where a method ends there is no mutex, and a loop ends its turn at its check.
LEMMA Ends ==
    \A a \in Actors :
        /\ After(a) \notin {"inData", "inCalibration", "inBoth", "lockCalibration"}
        /\ a \in Loops => After(a) = "loopCheck"
  BY DEF After

\* Each step keeps the owners where they are.
LEMMA OwnerStep ==
    ASSUME IInv, OwnerInv, [Next]_vars
    PROVE  OwnerInv'
<1> USE DEF IInv, TypeOK, MutexInv, OwnerInv, AtCache, AtCalibration, LoopLabels
<1>1. ASSUME NEW c \in Callers, Call(c)
      PROVE  OwnerInv'
  <2>1. PICK o \in Methods : op' = [op EXCEPT ![c] = o] /\ pc' = [pc EXCEPT ![c] = FirstStep(o)]
    BY <1>1, Begins
  <2>2. /\ FirstStep(o) \notin {"inData", "inCalibration", "inBoth"}
        /\ FirstStep(o) = "lockCalibration" => o = "set_calibration"
    BY DEF Methods, FirstStep
  <2> QED  BY <1>1, <2>1, <2>2, Cast DEF Call
<1>2. ASSUME Move
      PROVE  OwnerInv'
  BY <1>2 DEF Move
<1>3. ASSUME NEW c \in Callers, StartCheck(c), UNCHANGED <<config, hand, shared, mutexes, local>>
      PROVE  OwnerInv'
  <2>1. /\ After(c) \notin {"inData", "inCalibration", "inBoth", "lockCalibration"}
        /\ c \in Loops => After(c) = "loopCheck"
    BY Ends, Cast
  <2> QED  BY <1>3, <2>1, Cast DEF StartCheck
<1>4. ASSUME NEW c \in Callers, StartFlag(c), UNCHANGED <<config, hand, shared, mutexes, local>>
      PROVE  OwnerInv'
  BY <1>4, Cast DEF StartFlag
<1>5. ASSUME NEW c \in Callers, Spawn(c), UNCHANGED <<config, hand, shared, mutexes, local>>
      PROVE  OwnerInv'
  <2>1. /\ After(c) \notin {"inData", "inCalibration", "inBoth", "lockCalibration"}
        /\ c \in Loops => After(c) = "loopCheck"
    BY Ends, Cast
  <2>2. PICK k \in Loops : pc[k] = "unborn" /\ pc' = [pc EXCEPT ![c] = After(c), ![k] = "loopCheck"]
    BY <1>5 DEF Spawn
  <2>3. /\ pc[c] = "spawn" /\ pc[k] = "unborn" /\ op' = op
        /\ data_mutex' = data_mutex /\ calibration_mutex' = calibration_mutex
    BY <1>5, <2>2 DEF Spawn
  <2>4. /\ k \in Actors /\ c \in Actors /\ c # k /\ c \notin Loops
        /\ pc'[c] = After(c) /\ pc'[k] = "loopCheck"
        /\ \A a \in Actors \ {c, k} : pc'[a] = pc[a]
    BY <2>2, <2>3, Cast
  <2>5. \A a \in data_mutex \cup calibration_mutex : a \in Actors \ {c, k}
    BY <2>3
  <2>6. /\ \A a \in data_mutex' : AtCache(a)'
        /\ \A a \in calibration_mutex' : AtCalibration(a)'
    BY <2>3, <2>4, <2>5
  <2>7. ASSUME NEW a \in Actors, pc'[a] \in {"lockCalibration", "inCalibration"}
        PROVE  op'[a] \in {"set_calibration", "get_angles"}
    BY <2>1, <2>3, <2>4, <2>7
  <2>8. ASSUME NEW j \in Loops PROVE op'[j] = "update" /\ pc'[j] \in LoopLabels
    BY <2>3, <2>4, <2>8, Cast
  <2> QED  BY <2>6, <2>7, <2>8
<1>6. ASSUME NEW c \in Callers, SpawnFails(c), UNCHANGED <<config, hand, shared, mutexes, local>>
      PROVE  OwnerInv'
  <2>1. /\ After(c) \notin {"inData", "inCalibration", "inBoth", "lockCalibration"}
        /\ c \in Loops => After(c) = "loopCheck"
    BY Ends, Cast
  <2> QED  BY <1>6, <2>1, Cast DEF SpawnFails
<1>7. ASSUME NEW c \in Callers, StopCheck(c), UNCHANGED <<config, hand, shared, mutexes, local>>
      PROVE  OwnerInv'
  <2>1. /\ After(c) \notin {"inData", "inCalibration", "inBoth", "lockCalibration"}
        /\ c \in Loops => After(c) = "loopCheck"
    BY Ends, Cast
  <2> QED  BY <1>7, <2>1, Cast DEF StopCheck
<1>8. ASSUME NEW c \in Callers, StopFlag(c), UNCHANGED <<config, hand, shared, mutexes, local>>
      PROVE  OwnerInv'
  BY <1>8, Cast DEF StopFlag
<1>9. ASSUME NEW c \in Callers, Joinable(c), UNCHANGED <<config, hand, shared, mutexes, local>>
      PROVE  OwnerInv'
  <2>1. /\ After(c) \notin {"inData", "inCalibration", "inBoth", "lockCalibration"}
        /\ c \in Loops => After(c) = "loopCheck"
    BY Ends, Cast
  <2> QED  BY <1>9, <2>1, Cast DEF Joinable
<1>10. ASSUME NEW c \in Callers, Join(c), UNCHANGED <<config, hand, shared, mutexes, local>>
       PROVE  OwnerInv'
  <2>1. /\ After(c) \notin {"inData", "inCalibration", "inBoth", "lockCalibration"}
        /\ c \in Loops => After(c) = "loopCheck"
    BY Ends, Cast
  <2>0. \A k \in update_thread : k \in Loops
    OBVIOUS
  <2>2. PICK k \in Loops : pc[k] = "ended" /\ pc' = [pc EXCEPT ![c] = After(c), ![k] = "unborn"]
    BY <1>10, <2>0 DEF Join
  <2>3. /\ pc[c] = "join" /\ pc[k] = "ended" /\ op' = op
        /\ data_mutex' = data_mutex /\ calibration_mutex' = calibration_mutex
    BY <1>10, <2>2 DEF Join
  <2>4. /\ k \in Actors /\ c \in Actors /\ c # k /\ c \notin Loops
        /\ pc'[c] = After(c) /\ pc'[k] = "unborn"
        /\ \A a \in Actors \ {c, k} : pc'[a] = pc[a]
    BY <2>2, <2>3, Cast
  <2>5. \A a \in data_mutex \cup calibration_mutex : a \in Actors \ {c, k}
    BY <2>3
  <2>6. /\ \A a \in data_mutex' : AtCache(a)'
        /\ \A a \in calibration_mutex' : AtCalibration(a)'
    BY <2>3, <2>4, <2>5
  <2>7. ASSUME NEW a \in Actors, pc'[a] \in {"lockCalibration", "inCalibration"}
        PROVE  op'[a] \in {"set_calibration", "get_angles"}
    BY <2>1, <2>3, <2>4, <2>7
  <2>8. ASSUME NEW j \in Loops PROVE op'[j] = "update" /\ pc'[j] \in LoopLabels
    BY <2>3, <2>4, <2>8, Cast
  <2> QED  BY <2>6, <2>7, <2>8
<1>11. ASSUME NEW k \in Loops, NextTurn(k)
       PROVE  OwnerInv'
  BY <1>11, Cast DEF NextTurn, LoopCheck
<1>12. ASSUME NEW a \in Actors, LockData(a)
       PROVE  OwnerInv'
  BY <1>12 DEF LockData
<1>13. ASSUME NEW a \in Actors, LockCalibration(a)
       PROVE  OwnerInv'
  BY <1>13 DEF LockCalibration
<1>14. ASSUME NEW a \in Actors, LockBoth(a)
       PROVE  OwnerInv'
  BY <1>14 DEF LockBoth
<1>15. ASSUME NEW a \in Actors, Read(a)
       PROVE  OwnerInv'
  BY <1>15 DEF Read, AfterRead
<1>16. ASSUME NEW a \in Actors, ReadFails(a)
       PROVE  OwnerInv'
  <2>1. /\ After(a) \notin {"inData", "inCalibration", "inBoth", "lockCalibration"}
        /\ a \in Loops => After(a) = "loopCheck"
    BY Ends, Cast
  <2> QED  BY <1>16, <2>1 DEF ReadFails
<1>17. ASSUME NEW a \in Actors, Store(a)
       PROVE  OwnerInv'
  <2>1. /\ AfterStore(a) \notin {"inData", "inCalibration", "inBoth", "lockCalibration"}
        /\ a \in Loops => AfterStore(a) = "loopCheck"
    BY Ends DEF AfterStore
  <2> QED  BY <1>17, <2>1 DEF Store
<1>18. ASSUME NEW a \in Actors, SetZero(a)
       PROVE  OwnerInv'
  <2>1. /\ After(a) \notin {"inData", "inCalibration", "inBoth", "lockCalibration"}
        /\ a \in Loops => After(a) = "loopCheck"
    BY Ends, Cast
  <2> QED  BY <1>18, <2>1 DEF SetZero
<1>19. ASSUME NEW a \in Actors, set_calibration(a)
       PROVE  OwnerInv'
  <2>1. /\ After(a) \notin {"inData", "inCalibration", "inBoth", "lockCalibration"}
        /\ a \in Loops => After(a) = "loopCheck"
    BY Ends, Cast
  <2> QED  BY <1>19, <2>1 DEF set_calibration
<1>20. ASSUME NEW a \in Actors, get_cached_data(a)
       PROVE  OwnerInv'
  BY <1>20 DEF get_cached_data
<1>21. ASSUME NEW a \in Actors, get_cached_angles(a)
       PROVE  OwnerInv'
  <2>1. /\ After(a) \notin {"inData", "inCalibration", "inBoth", "lockCalibration"}
        /\ a \in Loops => After(a) = "loopCheck"
    BY Ends, Cast
  <2> QED  BY <1>21, <2>1 DEF get_cached_angles
<1>22. CASE UNCHANGED vars
  BY <1>22
<1> HIDE DEF IInv, TypeOK, MutexInv, OwnerInv, AtCache, AtCalibration, LoopLabels
<1> QED
  BY <1>1, <1>2, <1>3, <1>4, <1>5, <1>6, <1>7,
     <1>8, <1>9, <1>10, <1>11, <1>12, <1>13, <1>14,
     <1>15, <1>16, <1>17, <1>18, <1>19, <1>20, <1>21, <1>22
     DEF Next, ManageThread, Manage, Acquire, Work

\* The owners of the mutexes are where they can release them, throughout.
LEMMA OwnerInvariance == Spec => []OwnerInv
<1>1. Init => OwnerInv
  BY Cast DEF Init, ThreadInit, OwnerInv, LoopLabels
<1> QED  BY <1>1, OwnerStep, Invariance, PTL DEF Spec

\* With one owner, no circle of waiting actors, stop and destructor included: the
\* part of CallsReturn that is not about fairness (encoder_reader.cpp:21-27, 67-77,
\* 131-154).
THEOREM DeadlockFreedom == Orderly => (Spec => []NoDeadlock)
<1>1. ASSUME OInv, OwnerInv
      PROVE  NoDeadlock
  <2>1. \A c \in Callers : pc[c] = "join" => ~thread_running /\ update_thread # {}
    BY <1>1 DEF OInv, FlagInv, FlagAt
  <2>2. data_mutex \subseteq Actors /\ calibration_mutex \subseteq Actors
        /\ update_thread \subseteq Loops
    BY <1>1 DEF OInv, IInv, TypeOK
  <2>3. data_mutex # {} \/ calibration_mutex # {} => \E b \in Actors : Advances(b)
    BY <1>1, <2>2 DEF OwnerInv, AtCache, AtCalibration, Advances
  <2>4. ASSUME NEW c \in Actors, pc[c] = "join", \A k \in update_thread : pc[k] # "ended"
        PROVE  \E b \in Actors : Advances(b)
    <3>1. c \in Callers
      BY <1>1, <2>4 DEF OwnerInv, LoopLabels, Actors
    <3>2. PICK k \in update_thread : TRUE
      BY <2>1, <2>4, <3>1
    <3>3. k \in Loops /\ update_thread = {k}
      BY <1>1, <2>2, <3>2 DEF OInv, IInv, TypeOK
    <3>4. pc[k] \in {"loopCheck", "read", "lockData", "inData"}
      BY <1>1, <2>4, <3>3 DEF OInv, LoopInv, OwnerInv, LoopLabels
    <3>5. CASE pc[k] = "lockData" /\ data_mutex # {}
      BY <2>3, <3>5
    <3>6. CASE ~(pc[k] = "lockData" /\ data_mutex # {})
      BY <3>3, <3>4, <3>6, Cast DEF Advances
    <3> QED  BY <3>5, <3>6
  <2>5. ASSUME NEW a \in Actors, Blocked(a)
        PROVE  \E b \in Actors : Advances(b)
    BY <2>3, <2>4, <2>5 DEF Blocked
  <2> QED  BY <2>1, <2>5 DEF NoDeadlock
<1> QED  BY <1>1, ThreadInvariance, OwnerInvariance, PTL
===============================================================================
