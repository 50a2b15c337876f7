---------------------------- MODULE GloveSDKProofs ----------------------------
(***************************************************************************)
(* For every set of clients, every application, any number of calls and    *)
(* any choice of configuration: the types of GloveSDK, the mutual          *)
(* exclusion of initialize() and shutdown(), and that initialized_ is only *)
(* ever seen with all four components behind it.  Under the rules Orderly  *)
(* and NoShutdownBesideUse for the application: no std::terminate, no lost *)
(* update thread, no circle of waiting threads, and no use of a component  *)
(* that has been freed.                                                    *)
(***************************************************************************)
EXTENDS GloveSDK, TLAPS

StartLabels == {"startEnsure", "startCheck", "startFlag", "spawn"}
StopLabels  == {"stopCheck", "stopFlag", "joinable", "join"}
InitLabels  == {"initCheck", "create", "bringUp", "publish"}
DownLabels  == {"downCheck", "retract"}
Building    == {"create", "bringUp", "publish", "free"}

\* Which methods a place in the code belongs to.
MethodInv ==
    \A c \in Clients :
        /\ pc[c] \in InitLabels => op[c] = "initialize"
        /\ pc[c] \in DownLabels => op[c] \in {"shutdown", "destroy"}
        /\ pc[c] \in {"lock", "free"} => op[c] \in {"initialize", "shutdown", "destroy"}
        /\ pc[c] \in StartLabels => op[c] \in {"initialize", "start"}
        /\ pc[c] \in StopLabels => op[c] \in {"stop", "shutdown", "destroy"}

\* Under init_mutex_: all of initialize(), shutdown() and the destructor, with
\* the start() and stop() they call.
Locked(c) == \/ pc[c] \in InitLabels \cup DownLabels \cup {"free"}
             \/ pc[c] \in StartLabels \cup StopLabels /\ op[c] \notin {"start", "stop"}

MutexInv == \A c \in Clients : Locked(c) => init_mutex = {c}

\* The components exist up to where initialize() has come and down to where
\* cleanup_resources() has come; otherwise all of them or none.
PartsInv ==
    /\ initialized => \A i \in Stages : Order[i] \in parts
    /\ \A c \in Clients :
          /\ pc[c] \in Building => ~initialized
          /\ pc[c] \in {"lock", "initCheck"} /\ op[c] = "initialize" => stage[c] = 1
          /\ pc[c] = "create" => \A i \in Stages : i < stage[c] => Order[i] \in parts
          /\ pc[c] = "bringUp" => \A i \in Stages : i <= stage[c] => Order[i] \in parts
          /\ pc[c] = "publish" => \A i \in Stages : Order[i] \in parts
          /\ pc[c] = "free" => \A i \in Stages : i > stage[c] => Order[i] \notin parts
    /\ ~initialized /\ (\A c \in Clients : pc[c] \notin Building) => parts = {}

IInv == TypeOK /\ MethodInv /\ MutexInv /\ PartsInv

USE DEF config, sdk, loops, client, vars, Goto, Stage, Unlock, ReturnUnlocked, ReturnFromStart,
        ReturnFromStop

LEMMA Begins ==
    ASSUME TypeOK, NEW c \in Clients, Begin(c)
    PROVE  \E o \in Methods, i \in Stages :
              /\ op' = [op EXCEPT ![c] = o] /\ pc' = [pc EXCEPT ![c] = FirstStep(o)]
              /\ stage' = [stage EXCEPT ![c] = i] /\ (o # "use" => i = 1)
<1>1. allowed[c] \in SUBSET Methods
  BY SdkAssumption DEF TypeOK
<1>2. QED
  BY <1>1 DEF Begin

LEMMA TypeStep ==
    ASSUME IInv, Next
    PROVE  TypeOK'
<1> USE SdkAssumption DEF IInv, TypeOK, Labels, Methods, Stages, Parts
<1>1. ASSUME NEW c \in Clients, Begin(c)
      PROVE  TypeOK'
  BY <1>1 DEF Begin, FirstStep
<1>2. ASSUME NEW c \in Clients, Lock(c)
      PROVE  TypeOK'
  BY <1>2 DEF Lock
<1>3. ASSUME NEW c \in Clients, InitCheck(c)
      PROVE  TypeOK'
  BY <1>3 DEF InitCheck
<1>4. ASSUME NEW c \in Clients, Create(c)
      PROVE  TypeOK'
  BY <1>4 DEF Create
<1>5. ASSUME NEW c \in Clients, BringUp(c)
      PROVE  TypeOK'
  BY <1>5 DEF BringUp
<1>6. ASSUME NEW c \in Clients, BringUpFails(c)
      PROVE  TypeOK'
  BY <1>6 DEF BringUpFails
<1>7. ASSUME NEW c \in Clients, Publish(c)
      PROVE  TypeOK'
  BY <1>7 DEF Publish
<1>8. ASSUME NEW c \in Clients, Free(c)
      PROVE  TypeOK'
  BY <1>8 DEF Free
<1>9. ASSUME NEW c \in Clients, StartEnsure(c)
      PROVE  TypeOK'
  BY <1>9 DEF StartEnsure
<1>10. ASSUME NEW c \in Clients, StartCheck(c)
      PROVE  TypeOK'
  BY <1>10 DEF StartCheck
<1>11. ASSUME NEW c \in Clients, StartFlag(c)
      PROVE  TypeOK'
  BY <1>11 DEF StartFlag
<1>12. ASSUME NEW c \in Clients, Spawn(c)
      PROVE  TypeOK'
  BY <1>12 DEF Spawn
<1>13. ASSUME NEW c \in Clients, SpawnFails(c)
      PROVE  TypeOK'
  BY <1>13 DEF SpawnFails
<1>14. ASSUME NEW c \in Clients, StopCheck(c)
      PROVE  TypeOK'
  BY <1>14 DEF StopCheck
<1>15. ASSUME NEW c \in Clients, StopFlag(c)
      PROVE  TypeOK'
  BY <1>15 DEF StopFlag
<1>16. ASSUME NEW c \in Clients, Joinable(c)
      PROVE  TypeOK'
  BY <1>16 DEF Joinable
<1>17. ASSUME NEW c \in Clients, Join(c)
      PROVE  TypeOK'
  BY <1>17 DEF Join
<1>18. ASSUME NEW c \in Clients, DownCheck(c)
      PROVE  TypeOK'
  BY <1>18 DEF DownCheck
<1>19. ASSUME NEW c \in Clients, Retract(c)
      PROVE  TypeOK'
  <2>1. pc' \in [Clients -> Labels] /\ stage' \in [Clients -> Stages]
    BY <1>19 DEF Retract
  <2>2. QED
    BY <1>19, <2>1 DEF Retract
<1>20. ASSUME NEW c \in Clients, UseEnsure(c)
      PROVE  TypeOK'
  BY <1>20 DEF UseEnsure
<1>21. ASSUME NEW c \in Clients, Used(c)
      PROVE  TypeOK'
  BY <1>21 DEF Used
<1>22. ASSUME NEW k \in Loops, LoopCheck(k)
      PROVE  TypeOK'
  BY <1>22 DEF LoopCheck
<1>23. ASSUME NEW k \in Loops, LoopTest(k)
      PROVE  TypeOK'
  BY <1>23 DEF LoopTest, NextStage
<1>24. ASSUME NEW k \in Loops, LoopUsed(k)
      PROVE  TypeOK'
  BY <1>24 DEF LoopUsed, NextStage
<1>25. QED
  BY <1>1, <1>2, <1>3, <1>4, <1>5, <1>6, <1>7, <1>8, <1>9, <1>10, <1>11,
     <1>12, <1>13, <1>14, <1>15, <1>16, <1>17, <1>18, <1>19, <1>20, <1>21, <1>22,
     <1>23, <1>24 DEF Next, Step, LoopStep

LEMMA MethodStep ==
    ASSUME IInv, Next
    PROVE  MethodInv'
<1> USE DEF IInv, TypeOK, MethodInv, StartLabels, StopLabels, InitLabels, DownLabels, Building
<1>1. ASSUME NEW c \in Clients, Begin(c)
      PROVE  MethodInv'
  <2>1. PICK o \in Methods, i \in Stages :
              /\ op' = [op EXCEPT ![c] = o] /\ pc' = [pc EXCEPT ![c] = FirstStep(o)]
              /\ stage' = [stage EXCEPT ![c] = i] /\ (o # "use" => i = 1)
    BY <1>1, Begins
  <2>2. pc[c] = "idle" /\ UNCHANGED <<config, sdk, loops>>
    BY <1>1 DEF Begin
  <2>3. QED
    BY <2>1, <2>2 DEF FirstStep, Methods
<1>2. ASSUME NEW c \in Clients, Lock(c)
      PROVE  MethodInv'
  BY <1>2 DEF Lock
<1>3. ASSUME NEW c \in Clients, InitCheck(c)
      PROVE  MethodInv'
  BY <1>3 DEF InitCheck
<1>4. ASSUME NEW c \in Clients, Create(c)
      PROVE  MethodInv'
  BY <1>4 DEF Create
<1>5. ASSUME NEW c \in Clients, BringUp(c)
      PROVE  MethodInv'
  BY <1>5 DEF BringUp
<1>6. ASSUME NEW c \in Clients, BringUpFails(c)
      PROVE  MethodInv'
  BY <1>6 DEF BringUpFails
<1>7. ASSUME NEW c \in Clients, Publish(c)
      PROVE  MethodInv'
  BY <1>7 DEF Publish
<1>8. ASSUME NEW c \in Clients, Free(c)
      PROVE  MethodInv'
  BY <1>8 DEF Free
<1>9. ASSUME NEW c \in Clients, StartEnsure(c)
      PROVE  MethodInv'
  BY <1>9 DEF StartEnsure
<1>10. ASSUME NEW c \in Clients, StartCheck(c)
      PROVE  MethodInv'
  BY <1>10 DEF StartCheck
<1>11. ASSUME NEW c \in Clients, StartFlag(c)
      PROVE  MethodInv'
  BY <1>11 DEF StartFlag
<1>12. ASSUME NEW c \in Clients, Spawn(c)
      PROVE  MethodInv'
  BY <1>12 DEF Spawn
<1>13. ASSUME NEW c \in Clients, SpawnFails(c)
      PROVE  MethodInv'
  BY <1>13 DEF SpawnFails
<1>14. ASSUME NEW c \in Clients, StopCheck(c)
      PROVE  MethodInv'
  BY <1>14 DEF StopCheck
<1>15. ASSUME NEW c \in Clients, StopFlag(c)
      PROVE  MethodInv'
  BY <1>15 DEF StopFlag
<1>16. ASSUME NEW c \in Clients, Joinable(c)
      PROVE  MethodInv'
  BY <1>16 DEF Joinable
<1>17. ASSUME NEW c \in Clients, Join(c)
      PROVE  MethodInv'
  BY <1>17 DEF Join
<1>18. ASSUME NEW c \in Clients, DownCheck(c)
      PROVE  MethodInv'
  BY <1>18 DEF DownCheck
<1>19. ASSUME NEW c \in Clients, Retract(c)
      PROVE  MethodInv'
  BY <1>19 DEF Retract
<1>20. ASSUME NEW c \in Clients, UseEnsure(c)
      PROVE  MethodInv'
  BY <1>20 DEF UseEnsure
<1>21. ASSUME NEW c \in Clients, Used(c)
      PROVE  MethodInv'
  BY <1>21 DEF Used
<1>22. ASSUME NEW k \in Loops, LoopCheck(k)
      PROVE  MethodInv'
  BY <1>22 DEF LoopCheck
<1>23. ASSUME NEW k \in Loops, LoopTest(k)
      PROVE  MethodInv'
  BY <1>23 DEF LoopTest
<1>24. ASSUME NEW k \in Loops, LoopUsed(k)
      PROVE  MethodInv'
  BY <1>24 DEF LoopUsed
<1> HIDE DEF IInv, TypeOK, MethodInv, StartLabels, StopLabels, InitLabels, DownLabels, Building
<1>25. QED
  BY <1>1, <1>2, <1>3, <1>4, <1>5, <1>6, <1>7, <1>8, <1>9, <1>10, <1>11,
     <1>12, <1>13, <1>14, <1>15, <1>16, <1>17, <1>18, <1>19, <1>20, <1>21, <1>22,
     <1>23, <1>24 DEF Next, Step, LoopStep

LEMMA MutexStep ==
    ASSUME IInv, Next
    PROVE  MutexInv'
<1> USE DEF IInv, TypeOK, MethodInv, MutexInv, Locked, StartLabels, StopLabels, InitLabels, DownLabels, Building
<1>1. ASSUME NEW c \in Clients, Begin(c)
      PROVE  MutexInv'
  <2>1. PICK o \in Methods, i \in Stages :
              /\ op' = [op EXCEPT ![c] = o] /\ pc' = [pc EXCEPT ![c] = FirstStep(o)]
              /\ stage' = [stage EXCEPT ![c] = i] /\ (o # "use" => i = 1)
    BY <1>1, Begins
  <2>2. pc[c] = "idle" /\ UNCHANGED <<config, sdk, loops>>
    BY <1>1 DEF Begin
  <2>3. QED
    BY <2>1, <2>2 DEF FirstStep, Methods
<1>2. ASSUME NEW c \in Clients, Lock(c)
      PROVE  MutexInv'
  BY <1>2 DEF Lock
<1>3. ASSUME NEW c \in Clients, InitCheck(c)
      PROVE  MutexInv'
  <2>1. pc[c] = "initCheck" /\ op' = op /\ Locked(c) /\ init_mutex = {c}
    BY <1>3 DEF InitCheck
  <2>2. CASE initialized
    BY <1>3, <2>1, <2>2 DEF InitCheck
  <2>3. CASE ~initialized
    BY <1>3, <2>1, <2>3 DEF InitCheck
  <2> QED  BY <2>2, <2>3
<1>4. ASSUME NEW c \in Clients, Create(c)
      PROVE  MutexInv'
  BY <1>4 DEF Create
<1>5. ASSUME NEW c \in Clients, BringUp(c)
      PROVE  MutexInv'
  BY <1>5 DEF BringUp
<1>6. ASSUME NEW c \in Clients, BringUpFails(c)
      PROVE  MutexInv'
  BY <1>6 DEF BringUpFails
<1>7. ASSUME NEW c \in Clients, Publish(c)
      PROVE  MutexInv'
  BY <1>7 DEF Publish
<1>8. ASSUME NEW c \in Clients, Free(c)
      PROVE  MutexInv'
  BY <1>8 DEF Free
<1>9. ASSUME NEW c \in Clients, StartEnsure(c)
      PROVE  MutexInv'
  BY <1>9 DEF StartEnsure
<1>10. ASSUME NEW c \in Clients, StartCheck(c)
      PROVE  MutexInv'
  BY <1>10 DEF StartCheck
<1>11. ASSUME NEW c \in Clients, StartFlag(c)
      PROVE  MutexInv'
  BY <1>11 DEF StartFlag
<1>12. ASSUME NEW c \in Clients, Spawn(c)
      PROVE  MutexInv'
  <2>1. \/ op[c] = "initialize" /\ pc' = [pc EXCEPT ![c] = "idle"] /\ init_mutex' = {}
        \/ op[c] = "start" /\ pc' = [pc EXCEPT ![c] = "idle"] /\ init_mutex' = init_mutex
    BY <1>12 DEF Spawn
  <2>2. op' = op /\ pc[c] = "spawn"
    BY <1>12 DEF Spawn
  <2>3. QED
    BY <2>1, <2>2
<1>13. ASSUME NEW c \in Clients, SpawnFails(c)
      PROVE  MutexInv'
  <2>1. op' = op /\ pc[c] = "spawn"
    BY <1>13 DEF SpawnFails
  <2>2. CASE op[c] = "initialize"
    <3>1. /\ init_mutex = {c} /\ init_mutex' = {}
          /\ pc' = [pc EXCEPT ![c] = "idle"]
      BY <1>13, <2>1, <2>2 DEF SpawnFails, ReturnFromStart
    <3> QED  BY <2>1, <3>1
  <2>3. CASE op[c] # "initialize"
    <3>1. init_mutex' = init_mutex /\ pc' = [pc EXCEPT ![c] = "idle"]
      BY <1>13, <2>1, <2>3 DEF SpawnFails, ReturnFromStart
    <3> QED  BY <2>1, <3>1
  <2> QED  BY <2>2, <2>3
<1>14. ASSUME NEW c \in Clients, StopCheck(c)
      PROVE  MutexInv'
  BY <1>14 DEF StopCheck
<1>15. ASSUME NEW c \in Clients, StopFlag(c)
      PROVE  MutexInv'
  BY <1>15 DEF StopFlag
<1>16. ASSUME NEW c \in Clients, Joinable(c)
      PROVE  MutexInv'
  BY <1>16 DEF Joinable
<1>17. ASSUME NEW c \in Clients, Join(c)
      PROVE  MutexInv'
  BY <1>17 DEF Join
<1>18. ASSUME NEW c \in Clients, DownCheck(c)
      PROVE  MutexInv'
  BY SMTT(40), <1>18 DEF DownCheck
<1>19. ASSUME NEW c \in Clients, Retract(c)
      PROVE  MutexInv'
  BY <1>19 DEF Retract
<1>20. ASSUME NEW c \in Clients, UseEnsure(c)
      PROVE  MutexInv'
  BY <1>20 DEF UseEnsure
<1>21. ASSUME NEW c \in Clients, Used(c)
      PROVE  MutexInv'
  BY <1>21 DEF Used
<1>22. ASSUME NEW k \in Loops, LoopCheck(k)
      PROVE  MutexInv'
  BY <1>22 DEF LoopCheck
<1>23. ASSUME NEW k \in Loops, LoopTest(k)
      PROVE  MutexInv'
  BY <1>23 DEF LoopTest
<1>24. ASSUME NEW k \in Loops, LoopUsed(k)
      PROVE  MutexInv'
  BY <1>24 DEF LoopUsed
<1> HIDE DEF IInv, TypeOK, MethodInv, MutexInv, Locked, StartLabels, StopLabels, InitLabels, DownLabels, Building
<1>25. QED
  BY <1>1, <1>2, <1>3, <1>4, <1>5, <1>6, <1>7, <1>8, <1>9, <1>10, <1>11,
     <1>12, <1>13, <1>14, <1>15, <1>16, <1>17, <1>18, <1>19, <1>20, <1>21, <1>22,
     <1>23, <1>24 DEF Next, Step, LoopStep

LEMMA PartsStep ==
    ASSUME IInv, Next
    PROVE  PartsInv'
<1> USE DEF IInv, TypeOK, MethodInv, MutexInv, Locked, PartsInv, Stages, Order, Parts, StartLabels, StopLabels, InitLabels, DownLabels, Building
<1>1. ASSUME NEW c \in Clients, Begin(c)
      PROVE  PartsInv'
  <2>1. PICK o \in Methods, i \in Stages :
              /\ op' = [op EXCEPT ![c] = o] /\ pc' = [pc EXCEPT ![c] = FirstStep(o)]
              /\ stage' = [stage EXCEPT ![c] = i] /\ (o # "use" => i = 1)
    BY <1>1, Begins
  <2>2. pc[c] = "idle" /\ UNCHANGED <<config, sdk, loops>>
    BY <1>1 DEF Begin
  <2>3. QED
    BY <2>1, <2>2 DEF FirstStep, Methods
<1>2. ASSUME NEW c \in Clients, Lock(c)
      PROVE  PartsInv'
  BY <1>2 DEF Lock
<1>3. ASSUME NEW c \in Clients, InitCheck(c)
      PROVE  PartsInv'
  BY <1>3 DEF InitCheck
<1>4. ASSUME NEW c \in Clients, Create(c)
      PROVE  PartsInv'
  BY <1>4 DEF Create
<1>5. ASSUME NEW c \in Clients, BringUp(c)
      PROVE  PartsInv'
  BY <1>5 DEF BringUp
<1>6. ASSUME NEW c \in Clients, BringUpFails(c)
      PROVE  PartsInv'
  BY <1>6 DEF BringUpFails
<1>7. ASSUME NEW c \in Clients, Publish(c)
      PROVE  PartsInv'
  BY <1>7 DEF Publish
<1>8. ASSUME NEW c \in Clients, Free(c)
      PROVE  PartsInv'
  <2>1. /\ ~initialized /\ ~initialized' /\ op' = op
        /\ \A d \in Clients \ {c} : pc'[d] = pc[d] /\ stage'[d] = stage[d]
        /\ \A d \in Clients \ {c} : pc[d] \notin Building \cup {"initCheck"}
    BY <1>8 DEF Free
  <2>2. CASE stage[c] > 1
    BY <1>8, <2>1, <2>2 DEF Free
  <2>3. CASE stage[c] = 1
    <3>1. parts' = {}
      BY <1>8, <2>3 DEF Free
    <3>2. pc'[c] \in {"idle", "destroyed"} /\ stage' = stage
      BY <1>8, <2>3 DEF Free
    <3>3. QED
      BY <2>1, <3>1, <3>2
  <2>4. QED
    BY <2>2, <2>3
<1>9. ASSUME NEW c \in Clients, StartEnsure(c)
      PROVE  PartsInv'
  BY <1>9 DEF StartEnsure
<1>10. ASSUME NEW c \in Clients, StartCheck(c)
      PROVE  PartsInv'
  BY <1>10 DEF StartCheck
<1>11. ASSUME NEW c \in Clients, StartFlag(c)
      PROVE  PartsInv'
  BY <1>11 DEF StartFlag
<1>12. ASSUME NEW c \in Clients, Spawn(c)
      PROVE  PartsInv'
  BY <1>12 DEF Spawn
<1>13. ASSUME NEW c \in Clients, SpawnFails(c)
      PROVE  PartsInv'
  BY <1>13 DEF SpawnFails
<1>14. ASSUME NEW c \in Clients, StopCheck(c)
      PROVE  PartsInv'
  BY <1>14 DEF StopCheck
<1>15. ASSUME NEW c \in Clients, StopFlag(c)
      PROVE  PartsInv'
  BY <1>15 DEF StopFlag
<1>16. ASSUME NEW c \in Clients, Joinable(c)
      PROVE  PartsInv'
  BY <1>16 DEF Joinable
<1>17. ASSUME NEW c \in Clients, Join(c)
      PROVE  PartsInv'
  BY <1>17 DEF Join
<1>18. ASSUME NEW c \in Clients, DownCheck(c)
      PROVE  PartsInv'
  BY <1>18 DEF DownCheck
<1>19. ASSUME NEW c \in Clients, Retract(c)
      PROVE  PartsInv'
  BY <1>19 DEF Retract
<1>20. ASSUME NEW c \in Clients, UseEnsure(c)
      PROVE  PartsInv'
  BY <1>20 DEF UseEnsure
<1>21. ASSUME NEW c \in Clients, Used(c)
      PROVE  PartsInv'
  BY <1>21 DEF Used
<1>22. ASSUME NEW k \in Loops, LoopCheck(k)
      PROVE  PartsInv'
  BY <1>22 DEF LoopCheck
<1>23. ASSUME NEW k \in Loops, LoopTest(k)
      PROVE  PartsInv'
  BY <1>23 DEF LoopTest
<1>24. ASSUME NEW k \in Loops, LoopUsed(k)
      PROVE  PartsInv'
  BY <1>24 DEF LoopUsed
<1> HIDE DEF IInv, TypeOK, MethodInv, MutexInv, Locked, PartsInv, Stages, Order, Parts, StartLabels, StopLabels, InitLabels, DownLabels, Building
<1>25. QED
  BY <1>1, <1>2, <1>3, <1>4, <1>5, <1>6, <1>7, <1>8, <1>9, <1>10, <1>11,
     <1>12, <1>13, <1>14, <1>15, <1>16, <1>17, <1>18, <1>19, <1>20, <1>21, <1>22,
     <1>23, <1>24 DEF Next, Step, LoopStep

LEMMA InitInv == Init => IInv
<1> SUFFICES ASSUME Init PROVE IInv
  OBVIOUS
<1>1. TypeOK
  <2>1. calls \in [Clients -> 0..MaxCalls] /\ stage \in [Clients -> Stages]
    BY SdkAssumption DEF Init, Stages
  <2>2. at \in [Loops -> 2..4]
    BY DEF Init
  <2>3. QED
    BY <2>1, <2>2 DEF Init, TypeOK, Labels, Methods, Parts
<1>2. MethodInv /\ MutexInv /\ PartsInv
  BY DEF Init, MethodInv, MutexInv, Locked, PartsInv, StartLabels, StopLabels, InitLabels,
         DownLabels, Building
<1>3. QED
  BY <1>1, <1>2 DEF IInv

LEMMA Invariance == Spec => []IInv
<1>1. IInv /\ [Next]_vars => IInv'
  <2> SUFFICES ASSUME IInv, [Next]_vars PROVE IInv'
    OBVIOUS
  <2>1. CASE Next
    BY <2>1, TypeStep, MethodStep, MutexStep, PartsStep DEF IInv
  <2>2. CASE UNCHANGED vars
    BY <2>2 DEF IInv, TypeOK, MethodInv, MutexInv, Locked, PartsInv
  <2>3. QED
    BY <2>1, <2>2
<1>2. QED
  BY InitInv, <1>1, PTL DEF Spec

\* Every variable of the SDK keeps its type (src/glove_sdk.cpp).
THEOREM TypeCorrect == Spec => []TypeOK
<1>1. IInv => TypeOK
  BY DEF IInv
<1>2. QED
  BY Invariance, <1>1, PTL

\* initialized_ is never seen without all four components behind it, whichever
\* methods run concurrently (glove_sdk.cpp:84, 107-109).
THEOREM PartsSafety == Spec => []PartsBacked
<1>1. IInv => PartsBacked
  BY DEF IInv, TypeOK, PartsInv, PartsBacked, Parts, Stages
<1>2. QED
  BY Invariance, <1>1, PTL

-----------------------------------------------------------------------------
(***************************************************************************)
(* Applications that keep the rules the code needs but nowhere states:     *)
(* start(), stop() and the destructor are for a thread that has the SDK    *)
(* for itself.  There the two sections that change update_thread_ exclude  *)
(* each other, and the update thread is never lost, joined twice or left   *)
(* running over freed components.                                          *)
(***************************************************************************)
Orderly == \A app \in Applications :
              \/ \A c \in Clients : app[c] \cap {"start", "stop", "destroy"} = {}
              \/ \E c \in Clients : \A d \in Clients \ {c} : app[d] = {}

AllowedInv == \A c \in Clients : pc[c] # "idle" => op[c] \in allowed[c]
              
DestroyedInv == \A c \in Clients : pc[c] = "destroyed" => op[c] = "destroy" /\ ~initialized

\* Clients that start or stop the update thread, or bring the SDK up or down.
Busy(c) == pc[c] \in StartLabels \cup StopLabels \cup InitLabels \cup DownLabels
                        \cup {"free", "destroyed"}

ThreadInv ==
    /\ \A k \in Loops : loop[k] # "unborn" => update_thread = {k}
    /\ ~initialized => update_thread = {} /\ ~thread_running
    /\ (~thread_running /\ \A c \in Clients : pc[c] \notin {"joinable", "join"})
          => update_thread = {}
    /\ \A c \in Clients :
          /\ pc[c] \in StartLabels \ {"startEnsure"} => initialized
          /\ pc[c] = "startFlag" => ~thread_running
          /\ pc[c] = "spawn" => thread_running /\ update_thread = {}
          /\ pc[c] \in {"joinable", "join"} => ~thread_running
          /\ pc[c] = "join" => update_thread # {}
          /\ pc[c] \in StopLabels \cup {"retract"} /\ op[c] # "stop" => initialized
          /\ pc[c] = "retract" => ~thread_running

OInv == IInv /\ AllowedInv /\ DestroyedInv /\ ThreadInv

LEMMA Alone ==
    ASSUME Orderly, OInv, NEW c \in Clients, NEW d \in Clients, Busy(c), Busy(d)
    PROVE  c = d
<1>1. CASE \A e \in Clients : allowed[e] \cap {"start", "stop", "destroy"} = {}
  <2>1. Locked(c) /\ Locked(d)
    BY <1>1 DEF OInv, AllowedInv, DestroyedInv, Busy, Locked, StartLabels, StopLabels
  <2>2. QED
    BY <2>1 DEF OInv, IInv, MutexInv
<1>2. CASE \E e \in Clients : \A f \in Clients \ {e} : allowed[f] = {}
  BY <1>2 DEF OInv, AllowedInv, Busy, StartLabels, StopLabels, InitLabels, DownLabels
<1>3. QED
  BY <1>1, <1>2 DEF Orderly, OInv, IInv, TypeOK

LEMMA AllowedStep ==
    ASSUME OInv, Next
    PROVE  AllowedInv'
<1> USE DEF OInv, IInv, TypeOK, AllowedInv
<1>1. ASSUME NEW c \in Clients, Begin(c)
      PROVE  AllowedInv'
  BY <1>1 DEF Begin
<1>2. ASSUME NEW c \in Clients, Lock(c)
      PROVE  AllowedInv'
  BY <1>2 DEF Lock
<1>3. ASSUME NEW c \in Clients, InitCheck(c)
      PROVE  AllowedInv'
  BY <1>3 DEF InitCheck
<1>4. ASSUME NEW c \in Clients, Create(c)
      PROVE  AllowedInv'
  BY <1>4 DEF Create
<1>5. ASSUME NEW c \in Clients, BringUp(c)
      PROVE  AllowedInv'
  BY <1>5 DEF BringUp
<1>6. ASSUME NEW c \in Clients, BringUpFails(c)
      PROVE  AllowedInv'
  BY <1>6 DEF BringUpFails
<1>7. ASSUME NEW c \in Clients, Publish(c)
      PROVE  AllowedInv'
  BY <1>7 DEF Publish
<1>8. ASSUME NEW c \in Clients, Free(c)
      PROVE  AllowedInv'
  BY <1>8 DEF Free
<1>9. ASSUME NEW c \in Clients, StartEnsure(c)
      PROVE  AllowedInv'
  BY <1>9 DEF StartEnsure
<1>10. ASSUME NEW c \in Clients, StartCheck(c)
      PROVE  AllowedInv'
  BY <1>10 DEF StartCheck
<1>11. ASSUME NEW c \in Clients, StartFlag(c)
      PROVE  AllowedInv'
  BY <1>11 DEF StartFlag
<1>12. ASSUME NEW c \in Clients, Spawn(c)
      PROVE  AllowedInv'
  BY <1>12 DEF Spawn
<1>13. ASSUME NEW c \in Clients, SpawnFails(c)
      PROVE  AllowedInv'
  BY <1>13 DEF SpawnFails
<1>14. ASSUME NEW c \in Clients, StopCheck(c)
      PROVE  AllowedInv'
  BY <1>14 DEF StopCheck
<1>15. ASSUME NEW c \in Clients, StopFlag(c)
      PROVE  AllowedInv'
  BY <1>15 DEF StopFlag
<1>16. ASSUME NEW c \in Clients, Joinable(c)
      PROVE  AllowedInv'
  BY <1>16 DEF Joinable
<1>17. ASSUME NEW c \in Clients, Join(c)
      PROVE  AllowedInv'
  BY <1>17 DEF Join
<1>18. ASSUME NEW c \in Clients, DownCheck(c)
      PROVE  AllowedInv'
  BY <1>18 DEF DownCheck
<1>19. ASSUME NEW c \in Clients, Retract(c)
      PROVE  AllowedInv'
  BY <1>19 DEF Retract
<1>20. ASSUME NEW c \in Clients, UseEnsure(c)
      PROVE  AllowedInv'
  BY <1>20 DEF UseEnsure
<1>21. ASSUME NEW c \in Clients, Used(c)
      PROVE  AllowedInv'
  BY <1>21 DEF Used
<1>22. ASSUME NEW k \in Loops, LoopCheck(k)
      PROVE  AllowedInv'
  BY <1>22 DEF LoopCheck
<1>23. ASSUME NEW k \in Loops, LoopTest(k)
      PROVE  AllowedInv'
  BY <1>23 DEF LoopTest
<1>24. ASSUME NEW k \in Loops, LoopUsed(k)
      PROVE  AllowedInv'
  BY <1>24 DEF LoopUsed
<1> HIDE DEF OInv, IInv, TypeOK, AllowedInv
<1>25. QED
  BY <1>1, <1>2, <1>3, <1>4, <1>5, <1>6, <1>7, <1>8, <1>9, <1>10, <1>11,
     <1>12, <1>13, <1>14, <1>15, <1>16, <1>17, <1>18, <1>19, <1>20, <1>21, <1>22,
     <1>23, <1>24 DEF Next, Step, LoopStep

LEMMA DestroyedStep ==
    ASSUME Orderly, OInv, Next
    PROVE  DestroyedInv'
<1> USE DEF OInv, IInv, TypeOK, DestroyedInv, MethodInv, PartsInv, Building, StartLabels, StopLabels, InitLabels, DownLabels
<1> USE Alone DEF Busy
<1>1. ASSUME NEW c \in Clients, Begin(c)
      PROVE  DestroyedInv'
  <2>1. PICK o \in Methods, i \in Stages :
              /\ op' = [op EXCEPT ![c] = o] /\ pc' = [pc EXCEPT ![c] = FirstStep(o)]
              /\ stage' = [stage EXCEPT ![c] = i] /\ (o # "use" => i = 1)
    BY <1>1, Begins
  <2>2. pc[c] = "idle" /\ UNCHANGED <<config, sdk, loops>>
    BY <1>1 DEF Begin
  <2>3. QED
    BY <2>1, <2>2 DEF FirstStep, Methods
<1>2. ASSUME NEW c \in Clients, Lock(c)
      PROVE  DestroyedInv'
  BY <1>2 DEF Lock
<1>3. ASSUME NEW c \in Clients, InitCheck(c)
      PROVE  DestroyedInv'
  BY <1>3 DEF InitCheck
<1>4. ASSUME NEW c \in Clients, Create(c)
      PROVE  DestroyedInv'
  BY <1>4 DEF Create
<1>5. ASSUME NEW c \in Clients, BringUp(c)
      PROVE  DestroyedInv'
  BY <1>5 DEF BringUp
<1>6. ASSUME NEW c \in Clients, BringUpFails(c)
      PROVE  DestroyedInv'
  BY <1>6 DEF BringUpFails
<1>7. ASSUME NEW c \in Clients, Publish(c)
      PROVE  DestroyedInv'
  BY <1>7 DEF Publish
<1>8. ASSUME NEW c \in Clients, Free(c)
      PROVE  DestroyedInv'
  BY <1>8 DEF Free
<1>9. ASSUME NEW c \in Clients, StartEnsure(c)
      PROVE  DestroyedInv'
  BY <1>9 DEF StartEnsure
<1>10. ASSUME NEW c \in Clients, StartCheck(c)
      PROVE  DestroyedInv'
  BY <1>10 DEF StartCheck
<1>11. ASSUME NEW c \in Clients, StartFlag(c)
      PROVE  DestroyedInv'
  BY <1>11 DEF StartFlag
<1>12. ASSUME NEW c \in Clients, Spawn(c)
      PROVE  DestroyedInv'
  BY <1>12 DEF Spawn
<1>13. ASSUME NEW c \in Clients, SpawnFails(c)
      PROVE  DestroyedInv'
  BY <1>13 DEF SpawnFails
<1>14. ASSUME NEW c \in Clients, StopCheck(c)
      PROVE  DestroyedInv'
  BY <1>14 DEF StopCheck
<1>15. ASSUME NEW c \in Clients, StopFlag(c)
      PROVE  DestroyedInv'
  BY <1>15 DEF StopFlag
<1>16. ASSUME NEW c \in Clients, Joinable(c)
      PROVE  DestroyedInv'
  BY <1>16 DEF Joinable
<1>17. ASSUME NEW c \in Clients, Join(c)
      PROVE  DestroyedInv'
  BY <1>17 DEF Join
<1>18. ASSUME NEW c \in Clients, DownCheck(c)
      PROVE  DestroyedInv'
  BY <1>18 DEF DownCheck
<1>19. ASSUME NEW c \in Clients, Retract(c)
      PROVE  DestroyedInv'
  BY <1>19 DEF Retract
<1>20. ASSUME NEW c \in Clients, UseEnsure(c)
      PROVE  DestroyedInv'
  BY <1>20 DEF UseEnsure
<1>21. ASSUME NEW c \in Clients, Used(c)
      PROVE  DestroyedInv'
  BY <1>21 DEF Used
<1>22. ASSUME NEW k \in Loops, LoopCheck(k)
      PROVE  DestroyedInv'
  BY <1>22 DEF LoopCheck
<1>23. ASSUME NEW k \in Loops, LoopTest(k)
      PROVE  DestroyedInv'
  BY <1>23 DEF LoopTest
<1>24. ASSUME NEW k \in Loops, LoopUsed(k)
      PROVE  DestroyedInv'
  BY <1>24 DEF LoopUsed
<1> HIDE DEF OInv, IInv, TypeOK, DestroyedInv, MethodInv, PartsInv, Building, StartLabels, StopLabels, InitLabels, DownLabels
<1>25. QED
  BY <1>1, <1>2, <1>3, <1>4, <1>5, <1>6, <1>7, <1>8, <1>9, <1>10, <1>11,
     <1>12, <1>13, <1>14, <1>15, <1>16, <1>17, <1>18, <1>19, <1>20, <1>21, <1>22,
     <1>23, <1>24 DEF Next, Step, LoopStep

LEMMA ThreadStep ==
    ASSUME Orderly, OInv, Next
    PROVE  ThreadInv'
<1> USE DEF OInv, IInv, TypeOK, ThreadInv, MethodInv, PartsInv, StartLabels, StopLabels, InitLabels, DownLabels, Building
<1> USE Alone DEF Busy
<1>1. ASSUME NEW c \in Clients, Begin(c)
      PROVE  ThreadInv'
  <2>1. PICK o \in Methods, i \in Stages :
              /\ op' = [op EXCEPT ![c] = o] /\ pc' = [pc EXCEPT ![c] = FirstStep(o)]
              /\ stage' = [stage EXCEPT ![c] = i] /\ (o # "use" => i = 1)
    BY <1>1, Begins
  <2>2. pc[c] = "idle" /\ UNCHANGED <<config, sdk, loops>>
    BY <1>1 DEF Begin
  <2>3. QED
    BY <2>1, <2>2 DEF FirstStep, Methods
<1>2. ASSUME NEW c \in Clients, Lock(c)
      PROVE  ThreadInv'
  BY <1>2 DEF Lock
<1>3. ASSUME NEW c \in Clients, InitCheck(c)
      PROVE  ThreadInv'
  BY <1>3 DEF InitCheck
<1>4. ASSUME NEW c \in Clients, Create(c)
      PROVE  ThreadInv'
  BY <1>4 DEF Create
<1>5. ASSUME NEW c \in Clients, BringUp(c)
      PROVE  ThreadInv'
  BY <1>5 DEF BringUp
<1>6. ASSUME NEW c \in Clients, BringUpFails(c)
      PROVE  ThreadInv'
  BY <1>6 DEF BringUpFails
<1>7. ASSUME NEW c \in Clients, Publish(c)
      PROVE  ThreadInv'
  BY <1>7 DEF Publish
<1>8. ASSUME NEW c \in Clients, Free(c)
      PROVE  ThreadInv'
  BY <1>8 DEF Free
<1>9. ASSUME NEW c \in Clients, StartEnsure(c)
      PROVE  ThreadInv'
  BY <1>9 DEF StartEnsure
<1>10. ASSUME NEW c \in Clients, StartCheck(c)
      PROVE  ThreadInv'
  BY <1>10 DEF StartCheck
<1>11. ASSUME NEW c \in Clients, StartFlag(c)
      PROVE  ThreadInv'
  BY <1>11 DEF StartFlag
<1>12. ASSUME NEW c \in Clients, Spawn(c)
      PROVE  ThreadInv'
  <2>1. PICK k \in Loops : /\ loop[k] = "unborn" /\ update_thread' = {k}
                           /\ loop' = [loop EXCEPT ![k] = "check"]
    BY <1>12 DEF Spawn
  <2>2. /\ pc[c] = "spawn" /\ update_thread = {} /\ pc' = [pc EXCEPT ![c] = "idle"]
        /\ UNCHANGED <<initialized, thread_running, op>>
    BY <1>12 DEF Spawn
  <2>3. \A j \in Loops : loop'[j] # "unborn" => update_thread' = {j}
    BY <2>1, <2>2
  <2>4. initialized /\ thread_running
    BY <2>2
  <2>5. QED
    BY <2>2, <2>3, <2>4
<1>13. ASSUME NEW c \in Clients, SpawnFails(c)
      PROVE  ThreadInv'
  BY <1>13 DEF SpawnFails
<1>14. ASSUME NEW c \in Clients, StopCheck(c)
      PROVE  ThreadInv'
  BY <1>14 DEF StopCheck
<1>15. ASSUME NEW c \in Clients, StopFlag(c)
      PROVE  ThreadInv'
  BY <1>15 DEF StopFlag
<1>16. ASSUME NEW c \in Clients, Joinable(c)
      PROVE  ThreadInv'
  BY <1>16 DEF Joinable
<1>17. ASSUME NEW c \in Clients, Join(c)
      PROVE  ThreadInv'
  BY <1>17 DEF Join
<1>18. ASSUME NEW c \in Clients, DownCheck(c)
      PROVE  ThreadInv'
  BY <1>18 DEF DownCheck
<1>19. ASSUME NEW c \in Clients, Retract(c)
      PROVE  ThreadInv'
  BY <1>19 DEF Retract
<1>20. ASSUME NEW c \in Clients, UseEnsure(c)
      PROVE  ThreadInv'
  BY <1>20 DEF UseEnsure
<1>21. ASSUME NEW c \in Clients, Used(c)
      PROVE  ThreadInv'
  BY <1>21 DEF Used
<1>22. ASSUME NEW k \in Loops, LoopCheck(k)
      PROVE  ThreadInv'
  BY <1>22 DEF LoopCheck
<1>23. ASSUME NEW k \in Loops, LoopTest(k)
      PROVE  ThreadInv'
  BY <1>23 DEF LoopTest
<1>24. ASSUME NEW k \in Loops, LoopUsed(k)
      PROVE  ThreadInv'
  BY <1>24 DEF LoopUsed
<1> HIDE DEF OInv, IInv, TypeOK, ThreadInv, MethodInv, PartsInv, StartLabels, StopLabels, InitLabels, DownLabels, Building
<1>25. QED
  BY <1>1, <1>2, <1>3, <1>4, <1>5, <1>6, <1>7, <1>8, <1>9, <1>10, <1>11,
     <1>12, <1>13, <1>14, <1>15, <1>16, <1>17, <1>18, <1>19, <1>20, <1>21, <1>22,
     <1>23, <1>24 DEF Next, Step, LoopStep

LEMMA OrderlyInit == Init => AllowedInv /\ DestroyedInv /\ ThreadInv
  BY DEF Init, AllowedInv, DestroyedInv, ThreadInv, StartLabels, StopLabels

LEMMA OrderlyInvariance ==
    ASSUME Orderly
    PROVE  Spec => []OInv
<1>1. Init => OInv
  BY InitInv, OrderlyInit DEF OInv
<1>2. OInv /\ [Next]_vars => OInv'
  <2> SUFFICES ASSUME OInv, [Next]_vars PROVE OInv'
    OBVIOUS
  <2>1. IInv'
    <3>1. CASE Next
      BY <3>1, TypeStep, MethodStep, MutexStep, PartsStep DEF IInv, OInv
    <3>2. CASE UNCHANGED vars
      BY <3>2 DEF OInv, IInv, TypeOK, MethodInv, MutexInv, Locked, PartsInv
    <3>3. QED
      BY <3>1, <3>2
  <2>2. CASE Next
    BY <2>1, <2>2, AllowedStep, DestroyedStep, ThreadStep DEF OInv
  <2>3. CASE UNCHANGED vars
    BY <2>1, <2>3 DEF OInv, AllowedInv, DestroyedInv, ThreadInv
  <2>4. QED
    BY <2>2, <2>3
<1>3. QED
  BY <1>1, <1>2, PTL DEF Spec

\* In an orderly application no call ends in std::terminate
\* (glove_sdk.cpp:17-23, 122-148).
THEOREM OrderlyNoTerminate ==
    ASSUME Orderly
    PROVE  Spec => []NoTerminate
<1>1. OInv => NoTerminate
  BY DEF OInv, DestroyedInv, ThreadInv, NoTerminate, Terminates
<1>2. QED
  BY OrderlyInvariance, <1>1, PTL

\* In an orderly application there is one update thread at most, and
\* update_thread_ can join it (glove_sdk.cpp:122-148).
THEOREM OrderlyNoOrphan ==
    ASSUME Orderly
    PROVE  Spec => []NoOrphanLoop
<1>1. OInv => NoOrphanLoop
  BY DEF OInv, ThreadInv, NoOrphanLoop
<1>2. QED
  BY OrderlyInvariance, <1>1, PTL

\* In an orderly application an SDK that is down is at rest: no component, no
\* update thread, no running flag (glove_sdk.cpp:95-112, 199-212).
THEOREM OrderlyQuiet ==
    ASSUME Orderly
    PROVE  Spec => []QuietWhenDown
<1>1. OInv => QuietWhenDown
  BY DEF OInv, IInv, TypeOK, MutexInv, Locked, PartsInv, ThreadInv, QuietWhenDown,
         InitLabels, Building
<1>2. QED
  BY OrderlyInvariance, <1>1, PTL

\* In an orderly application the update loop never uses a freed component:
\* shutdown() has joined it before the first one goes (glove_sdk.cpp:104-109).
LoopsBacked == \A k \in Loops : loop[k] = "using" => parts = Parts

THEOREM OrderlyLoops ==
    ASSUME Orderly
    PROVE  Spec => []LoopsBacked
<1>1. OInv => LoopsBacked
  BY DEF OInv, IInv, TypeOK, PartsInv, ThreadInv, LoopsBacked, Parts, Stages
<1>2. QED
  BY OrderlyInvariance, <1>1, PTL

-----------------------------------------------------------------------------
(***************************************************************************)
(* The rule for API calls: as many threads as one likes, if none of them   *)
(* meets a shutdown() or the destructor on another thread.                 *)
(***************************************************************************)
NoShutdownBesideUse ==
    \A app \in Applications, c, d \in Clients :
        c # d /\ "use" \in app[c] => app[d] \cap {"shutdown", "destroy"} = {}

UseInv == \A c \in Clients : /\ pc[c] \in {"useEnsure", "using"} => op[c] = "use"
                             /\ pc[c] = "using" => initialized

LEMMA OthersStill ==
    ASSUME TypeOK, NEW c \in Clients, Begin(c) \/ Step(c)
    PROVE  \A d \in Clients \ {c} : pc'[d] = pc[d] /\ op'[d] = op[d]
<1> USE DEF TypeOK
<1>1. CASE Begin(c) \/ Lock(c) \/ InitCheck(c) \/ Create(c) \/ BringUp(c)
  BY <1>1 DEF Begin, Lock, InitCheck, Create, BringUp
<1>2. CASE BringUpFails(c) \/ Publish(c) \/ Free(c) \/ StartEnsure(c) \/ StartCheck(c)
  BY <1>2 DEF BringUpFails, Publish, Free, StartEnsure, StartCheck, ReturnFromStart
<1>3. CASE StartFlag(c) \/ Spawn(c) \/ SpawnFails(c) \/ StopCheck(c) \/ StopFlag(c)
  BY <1>3 DEF StartFlag, Spawn, SpawnFails, StopCheck, StopFlag, ReturnFromStart
<1>4. CASE Joinable(c) \/ Join(c) \/ DownCheck(c) \/ Retract(c) \/ UseEnsure(c) \/ Used(c)
  BY <1>4 DEF Joinable, Join, DownCheck, Retract, UseEnsure, Used
<1> QED  BY <1>1, <1>2, <1>3, <1>4 DEF Step

\* Only shutdown() and the destructor take initialized_ back.
LEMMA StaysInitialized ==
    ASSUME IInv, NEW c \in Clients, Begin(c) \/ Step(c), initialized
    PROVE  initialized' \/ (Retract(c) /\ op[c] \in {"shutdown", "destroy"})
<1>1. CASE Begin(c) \/ Lock(c) \/ InitCheck(c) \/ Create(c) \/ BringUp(c)
  BY <1>1 DEF Begin, Lock, InitCheck, Create, BringUp
<1>2. CASE BringUpFails(c) \/ Publish(c) \/ Free(c) \/ StartEnsure(c) \/ StartCheck(c)
  BY <1>2 DEF BringUpFails, Publish, Free, StartEnsure, StartCheck
<1>3. CASE StartFlag(c) \/ Spawn(c) \/ SpawnFails(c) \/ StopCheck(c) \/ StopFlag(c)
  BY <1>3 DEF StartFlag, Spawn, SpawnFails, StopCheck, StopFlag
<1>4. CASE Joinable(c) \/ Join(c) \/ DownCheck(c) \/ UseEnsure(c) \/ Used(c)
  BY <1>4 DEF Joinable, Join, DownCheck, UseEnsure, Used
<1>5. CASE Retract(c)
  BY <1>5 DEF Retract, IInv, MethodInv, DownLabels
<1> QED  BY <1>1, <1>2, <1>3, <1>4, <1>5 DEF Step

\* A client comes to a component through ensure_initialized() only.
LEMMA ToTheComponent ==
    ASSUME IInv, NEW c \in Clients, Begin(c) \/ Step(c), pc'[c] \in {"useEnsure", "using"},
           pc[c] = "useEnsure" => op[c] = "use"
    PROVE  op'[c] = "use" /\ (pc'[c] = "using" => initialized')
<1> USE DEF IInv, TypeOK
<1>1. CASE Begin(c)
  <2>1. PICK o \in Methods : op' = [op EXCEPT ![c] = o] /\ pc' = [pc EXCEPT ![c] = FirstStep(o)]
    BY <1>1, Begins
  <2> QED  BY <2>1 DEF FirstStep, Methods
<1>2. CASE Lock(c) \/ InitCheck(c) \/ Create(c) \/ BringUp(c) \/ BringUpFails(c)
  BY <1>2 DEF Lock, InitCheck, Create, BringUp, BringUpFails
<1>3. CASE Publish(c) \/ StartEnsure(c) \/ StartCheck(c) \/ StartFlag(c)
  BY <1>3 DEF Publish, StartEnsure, StartCheck, StartFlag, ReturnFromStart
<1>4. CASE Free(c)
  BY <1>4 DEF Free, MethodInv
<1>5. CASE Spawn(c) \/ SpawnFails(c)
  BY <1>5 DEF Spawn, SpawnFails, ReturnFromStart
<1>6. CASE StopCheck(c) \/ StopFlag(c) \/ Joinable(c) \/ Join(c)
  BY <1>6 DEF StopCheck, StopFlag, Joinable, Join
<1>7. CASE DownCheck(c) \/ Retract(c) \/ Used(c)
  BY <1>7 DEF DownCheck, Retract, Used
<1>8. CASE UseEnsure(c)
  BY <1>8 DEF UseEnsure
<1> QED  BY <1>1, <1>2, <1>3, <1>4, <1>5, <1>6, <1>7, <1>8 DEF Step

\* In an orderly application, nobody is inside a component that has been freed,
\* however many threads call the API, as long as no other thread shuts the SDK
\* down (glove_sdk.cpp:95-112; its comment promises it without that rule).
THEOREM OrderlyUse ==
    ASSUME Orderly, NoShutdownBesideUse
    PROVE  Spec => []NoUseAfterFree
<1>1. Init => UseInv
  BY DEF Init, UseInv
<1>2. OInv /\ UseInv /\ [Next]_vars => UseInv'
  <2> SUFFICES ASSUME OInv, UseInv, [Next]_vars, NEW c \in Clients,
                      pc'[c] \in {"useEnsure", "using"}
               PROVE  op'[c] = "use" /\ (pc'[c] = "using" => initialized')
    BY DEF UseInv
  <2>1. CASE UNCHANGED vars
    BY <2>1 DEF UseInv
  <2>2. CASE \E k \in Loops : LoopStep(k)
    BY <2>2 DEF LoopStep, LoopCheck, LoopTest, LoopUsed, UseInv
  <2>3. ASSUME NEW d \in Clients, Begin(d) \/ Step(d)
        PROVE  op'[c] = "use" /\ (pc'[c] = "using" => initialized')
    <3>1. CASE d = c
      BY <2>3, <3>1, ToTheComponent DEF OInv, UseInv
    <3>2. CASE d # c
      <4>1. pc'[c] = pc[c] /\ op'[c] = op[c]
        BY <2>3, <3>2, OthersStill DEF OInv, IInv
      <4>2. op[c] = "use" /\ (pc[c] = "using" => initialized)
        BY <4>1 DEF UseInv
      <4>3. ASSUME Retract(d), op[d] \in {"shutdown", "destroy"} PROVE FALSE
        <5>1. pc[d] # "idle" /\ pc[c] # "idle"
          BY <4>1, <4>3 DEF Retract
        <5>2. op[d] \in allowed[d] /\ "use" \in allowed[c] /\ allowed \in Applications
          BY <4>2, <5>1 DEF OInv, AllowedInv, IInv, TypeOK
        <5> QED  BY <3>2, <4>3, <5>2 DEF NoShutdownBesideUse
      <4> QED  BY <2>3, <4>1, <4>2, <4>3, StaysInitialized DEF OInv
    <3> QED  BY <3>1, <3>2
  <2> HIDE DEF vars
  <2> QED  BY <2>1, <2>2, <2>3 DEF Next
<1>3. OInv /\ UseInv => NoUseAfterFree
  <2> SUFFICES ASSUME OInv, UseInv PROVE NoUseAfterFree
    OBVIOUS
  <2>1. initialized => \A i \in Stages : Order[i] \in parts
    BY DEF OInv, IInv, PartsInv
  <2>2. ASSUME NEW c \in Clients, pc[c] = "using" PROVE Order[stage[c]] \in parts
    BY <2>1, <2>2 DEF UseInv, OInv, IInv, TypeOK
  <2>3. ASSUME NEW k \in Loops, loop[k] = "using" PROVE Order[at[k]] \in parts
    <3>1. initialized
      BY <2>3 DEF OInv, ThreadInv
    <3>2. at[k] \in Stages
      BY DEF OInv, IInv, TypeOK, Stages
    <3> QED  BY <2>1, <3>1, <3>2
  <2> QED  BY <2>2, <2>3 DEF NoUseAfterFree
<1> HIDE DEF vars
<1> QED  BY OrderlyInvariance, <1>1, <1>2, <1>3, PTL DEF Spec

(***************************************************************************)
(* Waiting: for init_mutex_, and for the update thread in join().          *)
(***************************************************************************)
\* The converse of MutexInv, and of the first line of ThreadInv: init_mutex_ is
\* held by a client at a place under it, and the thread that can be joined exists.
OwnerInv == /\ \A c \in init_mutex : Locked(c)
            /\ \A k \in update_thread : loop[k] # "unborn"

Blocked(c) == \/ pc[c] = "lock" /\ init_mutex # {}
              \/ pc[c] = "join" /\ \A k \in update_thread : loop[k] # "ended"

\* Whoever waits waits, in the end, for a client under init_mutex_ that waits for
\* nothing, or for an update loop that is about to see that it has to end: the
\* loop takes no mutex of GloveSDK, and shutdown() joins it with init_mutex_ held
\* (glove_sdk.cpp:26, 95-112, 138-148).
NoDeadlock ==
    (\E c \in Clients : Blocked(c))
        => \/ \E d \in init_mutex : Locked(d) /\ ~Blocked(d)
           \/ ~thread_running /\ \E k \in update_thread : loop[k] \in {"check", "test", "using"}

\* A client that holds init_mutex_ after a step is at a place under it.
LEMMA HeldUnder ==
    ASSUME IInv, OwnerInv, NEW c \in Clients, Begin(c) \/ Step(c), c \in init_mutex'
    PROVE  Locked(c)'
<1> USE DEF IInv, TypeOK, MethodInv, OwnerInv, Locked, StartLabels, StopLabels, InitLabels, DownLabels
<1>1. CASE Begin(c) \/ Lock(c) \/ UseEnsure(c) \/ Used(c)
  BY <1>1 DEF Begin, Lock, UseEnsure, Used
<1>2. CASE InitCheck(c) \/ Create(c) \/ BringUp(c) \/ BringUpFails(c) \/ Publish(c)
  BY <1>2 DEF InitCheck, Create, BringUp, BringUpFails, Publish
<1>3. CASE Free(c) \/ DownCheck(c) \/ Retract(c)
  BY <1>3 DEF Free, DownCheck, Retract
<1>4. CASE StartEnsure(c) \/ StartCheck(c) \/ StartFlag(c)
  BY <1>4 DEF StartEnsure, StartCheck, StartFlag
<1>5. CASE Spawn(c) \/ SpawnFails(c)
  BY <1>5 DEF Spawn, SpawnFails
<1>6. CASE StopCheck(c) \/ StopFlag(c) \/ Joinable(c) \/ Join(c)
  BY <1>6 DEF StopCheck, StopFlag, Joinable, Join
<1> QED  BY <1>1, <1>2, <1>3, <1>4, <1>5, <1>6 DEF Step

\* A client takes init_mutex_ for itself only, and what it spawns it can join.
LEMMA TakesForItself ==
    ASSUME TypeOK, OwnerInv, NEW c \in Clients, Begin(c) \/ Step(c)
    PROVE  /\ init_mutex' \subseteq init_mutex \cup {c}
           /\ \A k \in update_thread' : loop'[k] # "unborn"
<1> USE DEF TypeOK, OwnerInv
<1>1. CASE Begin(c) \/ Lock(c) \/ UseEnsure(c) \/ Used(c)
  BY <1>1 DEF Begin, Lock, UseEnsure, Used
<1>2. CASE InitCheck(c) \/ Create(c) \/ BringUp(c) \/ BringUpFails(c) \/ Publish(c)
  BY <1>2 DEF InitCheck, Create, BringUp, BringUpFails, Publish
<1>3. CASE Free(c) \/ DownCheck(c) \/ Retract(c)
  BY <1>3 DEF Free, DownCheck, Retract
<1>4. CASE StartEnsure(c) \/ StartCheck(c) \/ StartFlag(c)
  BY <1>4 DEF StartEnsure, StartCheck, StartFlag
<1>5. CASE Spawn(c) \/ SpawnFails(c)
  BY <1>5 DEF Spawn, SpawnFails
<1>6. CASE StopCheck(c) \/ StopFlag(c) \/ Joinable(c) \/ Join(c)
  BY <1>6 DEF StopCheck, StopFlag, Joinable, Join
<1> QED  BY <1>1, <1>2, <1>3, <1>4, <1>5, <1>6 DEF Step

\* The owner of init_mutex_ is where it can release it, throughout.
LEMMA OwnerInvariance == Spec => []OwnerInv
<1>1. Init => OwnerInv
  BY DEF Init, OwnerInv
<1>2. IInv /\ OwnerInv /\ [Next]_vars => OwnerInv'
  <2> SUFFICES ASSUME IInv, OwnerInv, [Next]_vars
               PROVE  OwnerInv'
    OBVIOUS
  <2>0. init_mutex \subseteq Clients /\ update_thread \subseteq Loops
        /\ loop \in [Loops -> {"unborn", "check", "test", "using", "ended"}]
    BY DEF IInv, TypeOK
  <2>1. CASE UNCHANGED vars
    BY <2>1 DEF OwnerInv, Locked
  <2>2. CASE \E k \in Loops : LoopStep(k)
    BY <2>0, <2>2 DEF LoopStep, LoopCheck, LoopTest, LoopUsed, OwnerInv, Locked
  <2>3. ASSUME NEW c \in Clients, Begin(c) \/ Step(c)
        PROVE  OwnerInv'
    <3>1. /\ init_mutex' \subseteq init_mutex \cup {c}
          /\ \A k \in update_thread' : loop'[k] # "unborn"
      BY <2>3, TakesForItself DEF IInv
    <3>2. \A d \in Clients \ {c} : pc'[d] = pc[d] /\ op'[d] = op[d]
      BY <2>3, OthersStill DEF IInv
    <3>3. ASSUME NEW d \in init_mutex' PROVE Locked(d)'
      <4>1. CASE d = c
        BY <2>3, <3>3, <4>1, HeldUnder
      <4>2. CASE d # c
        <5>1. d \in init_mutex /\ d \in Clients \ {c}
          BY <2>0, <3>1, <3>3, <4>2
        <5>2. Locked(d)
          BY <5>1 DEF OwnerInv
        <5> QED  BY <3>2, <5>1, <5>2 DEF Locked
      <4> QED  BY <4>1, <4>2
    <3> QED  BY <3>1, <3>3 DEF OwnerInv
  <2> HIDE DEF vars
  <2> QED  BY <2>1, <2>2, <2>3 DEF Next
<1> HIDE DEF vars
<1> QED  BY <1>1, <1>2, Invariance, PTL DEF Spec

\* In an orderly application no circle of threads waits for one another, update
\* loop included: the part of CallsReturn that is not about fairness
\* (glove_sdk.cpp:17-23, 25-148).
THEOREM DeadlockFreedom ==
    ASSUME Orderly
    PROVE  Spec => []NoDeadlock
<1>1. OInv /\ OwnerInv => NoDeadlock
  <2> SUFFICES ASSUME OInv, OwnerInv
               PROVE  NoDeadlock
    OBVIOUS
  <2>0. init_mutex \subseteq Clients /\ update_thread \subseteq Loops
        /\ loop \in [Loops -> {"unborn", "check", "test", "using", "ended"}]
    BY DEF OInv, IInv, TypeOK
  <2>1. ASSUME NEW c \in Clients, pc[c] = "join", \A k \in update_thread : loop[k] # "ended"
        PROVE  /\ ~thread_running
               /\ \E k \in update_thread : loop[k] \in {"check", "test", "using"}
    <3>1. ~thread_running /\ update_thread # {}
      BY <2>1 DEF OInv, ThreadInv
    <3>2. PICK k \in update_thread : TRUE
      BY <3>1
    <3>3. loop[k] \in {"check", "test", "using"}
      BY <2>0, <2>1, <3>2 DEF OwnerInv
    <3> QED  BY <3>1, <3>2, <3>3
  <2>2. ASSUME NEW d \in init_mutex, Blocked(d)
        PROVE  pc[d] = "join" /\ \A k \in update_thread : loop[k] # "ended"
    <3>1. pc[d] # "lock"
      BY <2>2 DEF OwnerInv, Locked, InitLabels, DownLabels, StartLabels, StopLabels
    <3> QED  BY <2>2, <3>1 DEF Blocked
  <2>3. ASSUME NEW c \in Clients, Blocked(c), pc[c] = "lock", init_mutex # {},
               \A d \in init_mutex : Locked(d) => Blocked(d)
        PROVE  /\ ~thread_running
               /\ \E k \in update_thread : loop[k] \in {"check", "test", "using"}
    <3>1. PICK d \in init_mutex : TRUE
      BY <2>3
    <3>2. Blocked(d) /\ d \in Clients
      BY <2>0, <2>3, <3>1 DEF OwnerInv
    <3> QED  BY <2>1, <2>2, <3>1, <3>2
  <2>4. ASSUME NEW c \in Clients, Blocked(c)
        PROVE  \/ \E d \in init_mutex : Locked(d) /\ ~Blocked(d)
               \/ /\ ~thread_running
                  /\ \E k \in update_thread : loop[k] \in {"check", "test", "using"}
    <3>1. CASE pc[c] = "lock" /\ init_mutex # {}
      BY <2>3, <2>4, <3>1
    <3>2. CASE pc[c] = "join" /\ \A k \in update_thread : loop[k] # "ended"
      BY <2>1, <3>2
    <3> QED  BY <2>4, <3>1, <3>2 DEF Blocked
  <2> QED  BY <2>4 DEF NoDeadlock
<1> HIDE DEF vars
<1> QED  BY <1>1, OrderlyInvariance, OwnerInvariance, PTL
===============================================================================
