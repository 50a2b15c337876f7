---------------------------- MODULE PollingProofs -----------------------------
(***************************************************************************)
(* For any number of motors, threads and calls: Polling keeps its types,   *)
(* the encoders and the motors never show each other's replies or the      *)
(* IMU's, and in step every reading is of what it is cached for; true      *)
(* means that every request was answered, initialize() keeps its order,    *)
(* and no batch leaves a motor out.                                        *)
(***************************************************************************)
EXTENDS Polling, TLAPS, SequenceTheorems

USE DEF tvars, run, readers, vars

\* The exchange that is under way is about the request whose turn it is, and in
\* step takes no other's reply.
ExchangeAt(t) ==
    /\ InStage(t) /\ calls[t] \in 1..MaxCalls
    /\ asked[<<t, calls[t]>>] = Current(t)
    /\ in_step => answer[t] \subseteq {<<t, calls[t]>>}
ExchangeInv == \A t \in Threads : pc[t] = "exchange" => ExchangeAt(t)

IInv == TypeOK /\ ExchangeInv

LEMMA KindTypes ==
    /\ Encoders \in Readings /\ Imu \in Readings /\ Nothing \in Readings
    /\ Encoders \in Kinds /\ Imu \in Kinds
    /\ \A i \in Motors, c \in Commands \cup {"status"} : [what |-> c, motor |-> i] \in Kinds
  BY DEF Readings, Kinds, MotorKinds

LEMMA BatchTypes ==
    /\ \A c \in Commands \cup {"status"} : ForAll(c) \in Seq(Kinds)
    /\ \A k \in Kinds : <<k>> \in Seq(Kinds)
<1>1. ASSUME NEW c \in Commands \cup {"status"}
      PROVE  ForAll(c) \in Seq(Kinds)
  <2>1. ForAll(c) \in [1..NUM_MOTORS -> Kinds]
    BY KindTypes DEF ForAll, Motors
  <2> QED  BY <2>1, PollingAssumption
<1> QED  BY <1>1

\* What a method may have to do is a sequence of batches of requests.
LEMMA PlanTypes ==
    ASSUME NEW m \in Methods, NEW p \in Plans(m)
    PROVE  p \in Batches
<1> USE DEF Batches
<1>1. CASE m = "initialize"
  <2>1. p = <<ForAll("mode"), ForAll("force"), <<Encoders>>, <<Imu>>>>
    BY <1>1 DEF Plans
  <2> QED  BY <2>1, BatchTypes, KindTypes DEF Commands
<1>2. CASE m = "update"
  <2>1. p = <<ForAll("status"), <<Encoders>>, <<Imu>>>>
    BY <1>2 DEF Plans
  <2> QED  BY <2>1, BatchTypes, KindTypes
<1>3. CASE m = "calibrate"
  <2>1. p = <<<<Encoders>>, <<Imu>>>>
    BY <1>3 DEF Plans
  <2> QED  BY <2>1, BatchTypes, KindTypes
<1>4. CASE m = "set_all"
  <2>1. PICK c \in Commands : p = <<ForAll(c)>>
    BY <1>4 DEF Plans
  <2> QED  BY <2>1, BatchTypes
<1>5. CASE m = "set"
  <2>1. PICK c \in Commands, i \in Motors : p = <<<<[what |-> c, motor |-> i]>>>>
    BY <1>5 DEF Plans
  <2> QED  BY <2>1, BatchTypes, KindTypes
<1>6. CASE m = "get_status"
  <2>1. PICK i \in Motors : p = <<<<[what |-> "status", motor |-> i]>>>>
    BY <1>6 DEF Plans
  <2> QED  BY <2>1, BatchTypes, KindTypes
<1> QED  BY <1>1, <1>2, <1>3, <1>4, <1>5, <1>6 DEF Methods

LEMMA RestTypes ==
    ASSUME NEW q \in Batches, q # <<>>
    PROVE  /\ Tail(q) \in Batches
           /\ Head(q) # <<>> => /\ Head(Head(q)) \in Kinds
                                /\ <<Tail(Head(q))>> \o Tail(q) \in Batches
<1>1. Tail(q) \in Batches /\ Head(q) \in Seq(Kinds)
  BY DEF Batches
<1>2. ASSUME Head(q) # <<>>
      PROVE  Head(Head(q)) \in Kinds /\ Tail(Head(q)) \in Seq(Kinds)
  BY <1>1, <1>2
<1>3. ASSUME NEW s \in Seq(Kinds)
      PROVE  <<s>> \o Tail(q) \in Batches
  BY <1>1 DEF Batches
<1> QED  BY <1>1, <1>2, <1>3

\* A request that is done with leaves the types as they are.
LEMMA DoneTypes ==
    ASSUME TypeOK, NEW t \in Threads, InStage(t), NEW how \in Outcomes, Done(t, how)
    PROVE  /\ todo' \in [Threads -> Batches]
           /\ outcome' \in [Threads -> [Kinds -> Outcomes]]
           /\ pc' \in [Threads -> {"idle", "ready", "exchange"}]
           /\ pc'[t] = "ready"
           /\ \A u \in Threads \ {t} : pc'[u] = pc[u] /\ todo'[u] = todo[u]
<1>1. todo[t] \in Batches
  BY DEF TypeOK
<1>2. <<Tail(Head(todo[t]))>> \o Tail(todo[t]) \in Batches
  BY <1>1, RestTypes DEF InStage
<1>3. todo' \in [Threads -> Batches] /\ \A u \in Threads \ {t} : todo'[u] = todo[u]
  BY <1>2 DEF Done, TypeOK
<1>4. outcome' \in [Threads -> [Kinds -> Outcomes]]
  BY DEF Done, TypeOK
<1> QED  BY <1>3, <1>4 DEF Done, TypeOK

LEMMA InitInv == Init => IInv
<1> SUFFICES ASSUME Init PROVE IInv
  OBVIOUS
<1>1. /\ todo \in [Threads -> Batches] /\ calls \in [Threads -> 0..MaxCalls]
      /\ left \in [Threads -> SUBSET Methods] /\ in_step \in BOOLEAN
  BY PollingAssumption DEF Init, TInit, Batches
<1>2. TypeOK
  BY <1>1, KindTypes DEF Init, TInit, TypeOK, Outcomes
<1>3. ExchangeInv
  BY DEF Init, ExchangeInv
<1> QED  BY <1>2, <1>3 DEF IInv

\* A thread that leaves its exchange lets those of the others go on.
LEMMA OthersGoOn ==
    ASSUME ExchangeInv, NEW t \in Threads, UNCHANGED <<calls, asked, answer, in_step>>,
           pc'[t] # "exchange",
           \A u \in Threads \ {t} : pc'[u] = pc[u] /\ todo'[u] = todo[u]
    PROVE  ExchangeInv'
<1>1. ASSUME NEW u \in Threads, pc'[u] = "exchange"
      PROVE  ExchangeAt(u)'
  <2>1. u # t /\ pc[u] = "exchange" /\ todo'[u] = todo[u]
    BY <1>1
  <2>2. ExchangeAt(u)
    BY <2>1 DEF ExchangeInv
  <2> QED  BY <2>1, <2>2 DEF ExchangeAt, InStage, Current
<1> QED  BY <1>1 DEF ExchangeInv

\* What a request's outcome is read from keeps its type, and the exchanges that
\* are under way go on as they were.
LEMMA InvStep ==
    ASSUME IInv, Next
    PROVE  IInv'
<1> USE DEF IInv, TypeOK, ExchangeInv, ExchangeAt
<1>1. ASSUME Link
      PROVE  IInv'
  BY <1>1 DEF Link, SetLink, InStage, Current
<1>2. ASSUME NEW t \in Threads, Call(t)
      PROVE  IInv'
  <2>0. PICK m \in left[t] :
           /\ job' = [job EXCEPT ![t] = m] /\ left' = [left EXCEPT ![t] = @ \ {m}]
           /\ \E p \in Plans(m) : todo' = [todo EXCEPT ![t] = p]
    BY <1>2 DEF Call
  <2>1. PICK p \in Plans(m) : todo' = [todo EXCEPT ![t] = p]
    BY <2>0
  <2>2. m \in Methods /\ left[t] \ {m} \subseteq Methods
    OBVIOUS
  <2>3. p \in Batches
    BY <2>2, PlanTypes
  <2>4. /\ pc' = [pc EXCEPT ![t] = "ready"]
        /\ outcome' = [outcome EXCEPT ![t] = [k \in Kinds |-> "unasked"]]
        /\ UNCHANGED <<tvars, in_step, result, asked, readers>>
    BY <1>2 DEF Call
  <2>5. TypeOK'
    BY <2>0, <2>1, <2>2, <2>3, <2>4 DEF Outcomes
  <2>6. ExchangeInv'
    BY <2>1, <2>4 DEF InStage, Current
  <2> QED  BY <2>5, <2>6
<1>3. ASSUME NEW t \in Threads, Refuse(t)
      PROVE  IInv'
  <2>1. /\ InStage(t) /\ Done(t, "refused")
        /\ UNCHANGED <<tvars, in_step, left, job, result, asked, readers>>
    BY <1>3 DEF Refuse
  <2>2. TypeOK'
    BY <2>1, DoneTypes DEF Outcomes
  <2>3. ExchangeInv'
    BY <2>1, DoneTypes, OthersGoOn DEF Outcomes
  <2> QED  BY <2>2, <2>3
<1>4. ASSUME NEW t \in Threads, Ask(t)
      PROVE  IInv'
  <2>1. /\ InStage(t) /\ calls[t] < MaxCalls /\ pc[t] = "ready"
        /\ calls' = [calls EXCEPT ![t] = calls[t] + 1]
        /\ answer' = [answer EXCEPT ![t] = {}]
        /\ up' = up /\ pending' = pending
        /\ asked' = [asked EXCEPT ![<<t, calls'[t]>>] = Current(t)]
        /\ outcome' = [outcome EXCEPT ![t][Current(t)] = "asked"]
        /\ pc' = [pc EXCEPT ![t] = "exchange"]
        /\ UNCHANGED <<in_step, left, job, todo, result, readers>>
    BY <1>4 DEF Ask, Begin
  <2>2. PICK ph \in {"idle", "asking", "awaiting"} : phase' = [phase EXCEPT ![t] = ph]
    BY <1>4 DEF Ask, Begin
  <2>3. calls[t] \in Nat /\ calls'[t] = calls[t] + 1 /\ calls[t] + 1 \in 1..MaxCalls
    BY <2>1, PollingAssumption
  <2>4. calls' \in [Threads -> 0..MaxCalls] /\ <<t, calls'[t]>> \in Requests
    BY <2>1, <2>3 DEF Requests
  <2>5. Current(t) \in Kinds
    BY <2>1, RestTypes DEF InStage, Current
  <2>6. asked' \in [Requests -> Readings] /\ asked'[<<t, calls'[t]>>] = Current(t)
    BY <2>1, <2>4, <2>5 DEF Readings
  <2>7. TypeOK'
    BY <2>1, <2>2, <2>4, <2>6 DEF Outcomes
  <2>8. ASSUME NEW u \in Threads, pc'[u] = "exchange"
        PROVE  ExchangeAt(u)'
    <3>1. CASE u = t
      BY <3>1, <2>1, <2>3, <2>6 DEF InStage, Current
    <3>2. CASE u # t
      <4>1. <<u, calls[u]>> # <<t, calls'[t]>>
        BY <3>2
      <4>2. <<u, calls[u]>> \in Requests /\ ExchangeAt(u)
        BY <3>2, <2>1, <2>8 DEF Requests
      <4>3. asked'[<<u, calls[u]>>] = asked[<<u, calls[u]>>]
        BY <4>1, <4>2, <2>1
      <4>4. calls'[u] = calls[u] /\ answer'[u] = answer[u] /\ todo' = todo /\ in_step' = in_step
        BY <3>2, <2>1
      <4> QED  BY <4>2, <4>3, <4>4 DEF InStage, Current
    <3> QED  BY <3>1, <3>2
  <2> QED  BY <2>7, <2>8
<1>5. ASSUME NEW t \in Threads, Exchange(t)
      PROVE  IInv'
  <2>1. pc[t] = "exchange" /\ UNCHANGED <<in_step, left, run, asked, readers>>
    BY <1>5 DEF Exchange
  <2>2. /\ up' = up /\ calls' = calls
        /\ phase' \in [Threads -> {"idle", "asking", "awaiting"}]
        /\ pending' \subseteq Requests
    <3>1. CASE Send(t)
      <4>1. <<t, calls[t]>> \in Requests
        BY <2>1 DEF Requests
      <4> QED  BY <3>1, <4>1 DEF Send
    <3>2. CASE Take(t)
      BY <3>2 DEF Take
    <3>3. CASE GiveUp(t)
      BY <3>3 DEF GiveUp
    <3> QED  BY <1>5, <3>1, <3>2, <3>3 DEF Exchange
  <2>3. \/ answer' = answer
        \/ /\ \E r \in pending : answer' = [answer EXCEPT ![t] = {r}]
           /\ in_step => answer'[t] = {<<t, calls[t]>>}
    BY <1>5 DEF Exchange, Send, Take, GiveUp
  <2>4. answer' \in [Threads -> {{}} \cup {{r} : r \in Requests}]
    <3>1. ASSUME NEW r \in pending, answer' = [answer EXCEPT ![t] = {r}]
          PROVE  answer' \in [Threads -> {{}} \cup {{q} : q \in Requests}]
      <4>1. {r} \in {{}} \cup {{q} : q \in Requests}
        OBVIOUS
      <4>2. answer \in [Threads -> {{}} \cup {{q} : q \in Requests}]
        OBVIOUS
      <4> HIDE DEF IInv, TypeOK
      <4> QED  BY <3>1, <4>1, <4>2
    <3> QED  BY <2>3, <3>1
  <2>5. TypeOK'
    BY <2>1, <2>2, <2>4
  <2>6. ASSUME NEW u \in Threads, pc'[u] = "exchange"
        PROVE  ExchangeAt(u)'
    <3>1. ExchangeAt(u)
      BY <2>1, <2>6
    <3>2. in_step => answer'[u] \subseteq {<<u, calls[u]>>}
      BY <3>1, <2>3
    <3> QED  BY <3>1, <3>2, <2>1, <2>2 DEF InStage, Current
  <2> QED  BY <2>5, <2>6
<1>6. ASSUME NEW t \in Threads, Handle(t)
      PROVE  IInv'
  <2>1. PICK r \in answer[t], how \in {"own", "other", "failed"} :
           /\ Done(t, how)
           /\ Keep(t, Current(t), asked[r]) \/ UNCHANGED readers
    BY <1>6 DEF Handle
  <2>2. InStage(t) /\ UNCHANGED <<tvars, in_step, left, job, result, asked>>
    BY <1>6 DEF Handle
  <2>3. r \in Requests /\ asked[r] \in Readings
    OBVIOUS
  <2>4. /\ cached_status' \in [Motors -> Readings]
        /\ {encoders', encoder_zero', imu', imu_zero'} \subseteq Readings
    BY <2>1, <2>3 DEF Keep
  <2>5. TypeOK'
    <3>1. /\ todo' \in [Threads -> Batches]
          /\ outcome' \in [Threads -> [Kinds -> Outcomes]]
          /\ pc' \in [Threads -> {"idle", "ready", "exchange"}]
      BY <2>1, <2>2, DoneTypes DEF Outcomes
    <3> QED  BY <2>2, <2>4, <3>1
  <2>6. ExchangeInv'
    <3>1. /\ pc'[t] # "exchange"
          /\ \A u \in Threads \ {t} : pc'[u] = pc[u] /\ todo'[u] = todo[u]
      BY <2>1, <2>2, DoneTypes DEF Outcomes
    <3>2. UNCHANGED <<calls, asked, answer, in_step>> /\ ExchangeInv
      BY <2>2
    <3> HIDE DEF IInv, TypeOK, ExchangeInv
    <3> QED  BY <3>1, <3>2, OthersGoOn
  <2> QED  BY <2>5, <2>6
<1>7. ASSUME NEW t \in Threads, NoAnswer(t)
      PROVE  IInv'
  <2>1. /\ InStage(t) /\ Done(t, "failed")
        /\ UNCHANGED <<tvars, in_step, left, job, result, asked, readers>>
    BY <1>7 DEF NoAnswer
  <2>2. TypeOK'
    BY <2>1, DoneTypes DEF Outcomes
  <2>3. ExchangeInv'
    BY <2>1, DoneTypes, OthersGoOn DEF Outcomes
  <2> QED  BY <2>2, <2>3
<1>8. ASSUME NEW t \in Threads, NextStage(t)
      PROVE  IInv'
  <2>1. /\ pc[t] = "ready" /\ todo' = [todo EXCEPT ![t] = Tail(todo[t])] /\ todo[t] # <<>>
        /\ UNCHANGED <<tvars, in_step, left, job, pc, outcome, result, asked, readers>>
    BY <1>8 DEF NextStage, StageEnds
  <2>2. Tail(todo[t]) \in Batches
    BY <2>1, RestTypes
  <2>3. TypeOK'
    BY <2>1, <2>2
  <2>4. ExchangeInv'
    BY <2>1 DEF InStage, Current
  <2> QED  BY <2>3, <2>4
<1>9. ASSUME NEW t \in Threads, Return(t)
      PROVE  IInv'
  <2>1. /\ pc' = [pc EXCEPT ![t] = "idle"] /\ todo' = [todo EXCEPT ![t] = <<>>]
        /\ result' = [result EXCEPT ![t] = ~Failed(t)]
        /\ UNCHANGED <<tvars, in_step, left, job, outcome, asked, readers>>
    BY <1>9 DEF Return
  <2>2. result' \in [Threads -> BOOLEAN] /\ todo' \in [Threads -> Batches]
    BY <2>1 DEF Failed, Batches
  <2>3. TypeOK'
    BY <2>1, <2>2
  <2>4. ExchangeInv'
    BY <2>1 DEF InStage, Current
  <2> QED  BY <2>3, <2>4
<1> HIDE DEF IInv, TypeOK, ExchangeInv, ExchangeAt
<1> QED
  BY <1>1, <1>2, <1>3, <1>4, <1>5, <1>6, <1>7, <1>8, <1>9
     DEF Next, Work, Finish, Abandon, Stopped

LEMMA Invariance == Spec => []IInv
<1>1. IInv /\ [Next]_vars => IInv'
  <2> SUFFICES ASSUME IInv, [Next]_vars PROVE IInv'
    OBVIOUS
  <2>1. CASE UNCHANGED vars
    BY <2>1 DEF IInv, TypeOK, ExchangeInv, ExchangeAt, InStage, Current
  <2> QED  BY <2>1, InvStep
<1> QED  BY InitInv, <1>1, PTL DEF Spec

\* Every variable of the components' methods keeps its type.
THEOREM TypeCorrect == Spec => []TypeOK
<1>1. IInv => TypeOK
  BY DEF IInv
<1> QED  BY Invariance, <1>1, PTL

\* Only a reply that is understood changes what is cached.
LEMMA ReadingsChange ==
    ASSUME IInv, [Next]_vars
    PROVE  \/ UNCHANGED <<readers, in_step>>
           \/ \E t \in Threads : \E r \in answer[t] :
                 /\ pc[t] = "exchange" /\ in_step' = in_step
                 /\ TRUE \in Understood(Current(t), asked[r])
                 /\ Keep(t, Current(t), asked[r])
<1>1. ASSUME NEW t \in Threads, Handle(t)
      PROVE  \/ UNCHANGED <<readers, in_step>>
             \/ \E r \in answer[t] : /\ pc[t] = "exchange" /\ in_step' = in_step
                                     /\ TRUE \in Understood(Current(t), asked[r])
                                     /\ Keep(t, Current(t), asked[r])
  <2>1. PICK r \in answer[t], understood \in BOOLEAN :
           /\ understood \in Understood(Current(t), asked[r])
           /\ IF understood THEN Keep(t, Current(t), asked[r]) ELSE UNCHANGED readers
    BY <1>1 DEF Handle
  <2>2. pc[t] = "exchange" /\ in_step' = in_step
    BY <1>1 DEF Handle
  <2>3. CASE understood = TRUE
    BY <2>1, <2>2, <2>3
  <2>4. CASE understood = FALSE
    BY <2>1, <2>2, <2>4
  <2> QED  BY <2>3, <2>4
<1>2. CASE UNCHANGED vars
  BY <1>2
<1>3. CASE Link
  BY <1>3 DEF Link
<1>4. ASSUME NEW t \in Threads, Call(t) \/ Refuse(t) \/ Ask(t) \/ Exchange(t) \/ NoAnswer(t)
      PROVE  UNCHANGED <<readers, in_step>>
  BY <1>4 DEF Call, Refuse, Ask, Exchange, NoAnswer
<1>5. ASSUME NEW t \in Threads, NextStage(t) \/ Finish(t) \/ Abandon(t) \/ Stopped(t)
      PROVE  UNCHANGED <<readers, in_step>>
  BY <1>5 DEF NextStage, Finish, Abandon, Stopped, Return
<1> HIDE DEF readers
<1> QED
  BY <1>1, <1>2, <1>3, <1>4, <1>5 DEF Next, Work

\* The encoder parser takes encoder replies only.
LEMMA EncoderParser ==
    ASSUME NEW reply, TRUE \in Understood(Encoders, reply)
    PROVE  reply = Encoders
<1>1. Encoders.what = "encoder"
  BY DEF Encoders
<1>2. Understood(Encoders, reply) = {reply = Encoders}
  BY <1>1 DEF Understood, Commands
<1> QED  BY <1>2, Zenon

\* Whatever the network does, encoder readings come from encoder replies and
\* motor readings from motor replies (encoder_reader.cpp:79-88, motor_controller.cpp:219-233).
THEOREM Separation == Spec => []ReadingsSeparate
<1>1. Init => ReadingsSeparate
  BY DEF Init, ReadingsSeparate
<1>2. ASSUME IInv, ReadingsSeparate, [Next]_vars
      PROVE  ReadingsSeparate'
  <2>1. CASE UNCHANGED <<readers, in_step>>
    BY <1>2, <2>1 DEF ReadingsSeparate
  <2>2. ASSUME NEW t \in Threads, NEW r \in answer[t],
               TRUE \in Understood(Current(t), asked[r]), Keep(t, Current(t), asked[r])
        PROVE  ReadingsSeparate'
    <3> DEFINE k == Current(t)
               reply == asked[r]
    <3>1. k = Encoders => reply = Encoders
      BY <2>2, EncoderParser
    <3>2. k.what = "status" => reply \in MotorKinds
      BY <2>2 DEF Understood, Commands
    <3>3. {encoders', encoder_zero'} \subseteq {encoders, encoder_zero, Encoders}
      BY <2>2, <3>1 DEF Keep
    <3>4. \A i \in Motors : cached_status'[i] = cached_status[i] \/ cached_status'[i] \in MotorKinds
      BY <1>2, <2>2, <3>2 DEF Keep, IInv, TypeOK
    <3> QED  BY <1>2, <3>3, <3>4 DEF ReadingsSeparate
  <2> QED  BY <1>2, <2>1, <2>2, ReadingsChange
<1> QED  BY Invariance, <1>1, <1>2, PTL DEF Spec

\* In step, what is cached is of the motor or the sensor it is cached for, for any
\* number of motors and calls (motor_controller.cpp:264-272).
THEOREM OwnReadingsOnly == Spec => []OwnReadings
<1>1. Init => OwnReadings
  BY DEF Init, OwnReadings
<1>2. ASSUME IInv, OwnReadings, [Next]_vars
      PROVE  OwnReadings'
  <2>1. CASE UNCHANGED <<readers, in_step>>
    BY <1>2, <2>1 DEF OwnReadings
  <2>2. ASSUME NEW t \in Threads, NEW r \in answer[t], pc[t] = "exchange", in_step' = in_step,
               in_step, Keep(t, Current(t), asked[r])
        PROVE  OwnReadings'
    <3>1. asked[r] = Current(t) /\ Current(t) \in Kinds
      <4>1. ExchangeAt(t) /\ todo[t] \in Batches
        BY <1>2, <2>2 DEF IInv, TypeOK, ExchangeInv
      <4>2. r = <<t, calls[t]>>
        BY <2>2, <4>1 DEF ExchangeAt
      <4> QED  BY <4>1, <4>2, RestTypes DEF ExchangeAt, InStage, Current
    <3>2. Current(t).what = "status" =>
             Current(t) = [what |-> "status", motor |-> Current(t).motor]
      BY <3>1 DEF Kinds, MotorKinds, Encoders, Imu
    <3>3. \A i \in Motors : \/ cached_status'[i] = cached_status[i]
                            \/ cached_status'[i] = [what |-> "status", motor |-> i]
      BY <1>2, <2>2, <3>1, <3>2 DEF Keep, IInv, TypeOK
    <3>4. {imu', imu_zero'} \subseteq {imu, imu_zero, Imu}
      BY <2>2, <3>1 DEF Keep
    <3> QED  BY <1>2, <2>2, <3>3, <3>4 DEF OwnReadings
  <2>3. CASE ~in_step /\ in_step' = in_step
    BY <2>3 DEF OwnReadings
  <2> QED  BY <1>2, <2>1, <2>2, <2>3, ReadingsChange
<1> QED  BY Invariance, <1>1, <1>2, PTL DEF Spec

-----------------------------------------------------------------------------
(***************************************************************************)
(* Batches: what has been asked of a method and what is left of it.        *)
(***************************************************************************)
Items(s) == {s[j] : j \in 1..Len(s)}

\* What the stage at hand has asked or will ask.
HeadItems(t) == IF todo[t] = <<>> THEN {} ELSE Items(Head(todo[t]))
Covered(t)   == AskedOf(t) \cup HeadItems(t)

LEMMA ItemsOfRest ==
    ASSUME NEW S, NEW s \in Seq(S), s # <<>>
    PROVE  Items(s) = {Head(s)} \cup Items(Tail(s))
<1>1. Len(s) \in Nat /\ Len(s) >= 1 /\ Len(Tail(s)) = Len(s) - 1
  BY EmptySeq
<1>2. \A j \in 1..Len(Tail(s)) : Tail(s)[j] = s[j + 1]
  BY <1>1
<1>3. \A j \in 2..Len(s) : j - 1 \in 1..Len(Tail(s)) /\ Tail(s)[j - 1] = s[j]
  BY <1>1
<1>4. Head(s) = s[1]
  BY <1>1
<1>5. Items(Tail(s)) \subseteq Items(s) /\ Head(s) \in Items(s)
  BY <1>1, <1>2, <1>4 DEF Items
<1>6. ASSUME NEW j \in 1..Len(s) PROVE s[j] \in {Head(s)} \cup Items(Tail(s))
  <2>1. CASE j = 1
    BY <2>1, <1>4
  <2>2. CASE j # 1
    BY <2>2, <1>1, <1>3 DEF Items
  <2> QED  BY <2>1, <2>2
<1> QED  BY <1>5, <1>6 DEF Items

\* A request of the stage is dealt with: its outcome changes and no other's, the
\* stage covers what it did, and the later stages stay.
Touch(t, how) ==
    /\ Current(t) \in Kinds /\ Current(t) \in HeadItems(t)
    /\ todo[t] # <<>> /\ todo'[t] # <<>> /\ Len(todo'[t]) = Len(todo[t])
    /\ Covered(t)' = Covered(t) /\ HeadItems(t)' \subseteq HeadItems(t)
    /\ \A n \in 2..Len(todo[t]) : todo'[t][n] = todo[t][n]
    /\ \A k \in Kinds : outcome'[t][k] = IF k = Current(t) THEN how ELSE outcome[t][k]

LEMMA DoneCovers ==
    ASSUME TypeOK, NEW t \in Threads, InStage(t), NEW how \in Outcomes \ {"unasked"}, Done(t, how)
    PROVE  Touch(t, how)
<1> DEFINE q == todo[t]
           s == Head(q)
<1>1. q \in Batches /\ q # <<>> /\ s # <<>> /\ s \in Seq(Kinds)
  BY DEF TypeOK, InStage, Batches
<1>2. todo'[t] = <<Tail(s)>> \o Tail(q)
  BY DEF TypeOK, Done
<1>3. Current(t) \in Kinds /\ Tail(s) \in Seq(Kinds)
  BY <1>1, RestTypes DEF Current
<1>4. Len(q) \in Nat /\ Len(q) >= 1 /\ Tail(q) \in Seq(Seq(Kinds)) /\ Len(Tail(q)) = Len(q) - 1
  BY <1>1, EmptySeq DEF Batches
<1>5. todo'[t] \in Batches /\ Len(todo'[t]) = Len(q) /\ todo'[t] # <<>> /\ Head(todo'[t]) = Tail(s)
  <2>1. <<Tail(s)>> \in Seq(Seq(Kinds)) /\ Len(<<Tail(s)>>) = 1
    BY <1>3
  <2>2. todo'[t] \in Batches
    BY <1>2, <1>4, <2>1 DEF Batches
  <2>3. Len(todo'[t]) = 1 + Len(Tail(q))
    BY <1>2, <1>4, <2>1
  <2>4. todo'[t][1] = Tail(s)
    BY <1>2, <1>4, <2>1
  <2> QED  BY <2>2, <2>3, <2>4, <1>4 DEF Batches
<1>6. ASSUME NEW n \in 2..Len(q) PROVE todo'[t][n] = q[n]
  <2>1. n \in Nat /\ n - 1 \in 1..Len(Tail(q)) /\ Tail(q)[n - 1] = q[n]
    <3>1. n \in Nat /\ n - 1 \in 1..Len(Tail(q)) /\ (n - 1) + 1 = n
      BY <1>4
    <3>2. \A i \in 1..Len(Tail(q)) : Tail(q)[i] = q[i + 1]
      BY <1>1, HeadTailProperties DEF Batches
    <3> QED  BY <3>1, <3>2
  <2>2. todo'[t][n] = Tail(q)[n - 1]
    BY <1>2, <1>3, <1>4, <2>1
  <2> QED  BY <2>1, <2>2
<1>7. Items(s) = {Current(t)} \cup Items(Tail(s))
  BY <1>1, ItemsOfRest DEF Current
<1>8. HeadItems(t) = Items(s) /\ HeadItems(t)' = Items(Tail(s))
  BY <1>1, <1>5 DEF HeadItems
<1>9. outcome' = [outcome EXCEPT ![t][Current(t)] = how]
  BY DEF Done
<1>10. \A k \in Kinds : outcome'[t][k] = IF k = Current(t) THEN how ELSE outcome[t][k]
  BY <1>3, <1>9 DEF TypeOK
<1>11. AskedOf(t)' = AskedOf(t) \cup {Current(t)}
  BY <1>3, <1>10 DEF AskedOf
<1>12. Covered(t)' = Covered(t)
  BY <1>7, <1>8, <1>11 DEF Covered
<1>13. HeadItems(t)' \subseteq HeadItems(t) /\ Current(t) \in HeadItems(t)
  BY <1>7, <1>8
<1> HIDE DEF s, q
<1>14. \A n \in 2..Len(todo[t]) : todo'[t][n] = todo[t][n]
  BY <1>6 DEF q
<1> QED  BY <1>1, <1>3, <1>5, <1>10, <1>12, <1>13, <1>14 DEF q, Touch

LEMMA AskCovers ==
    ASSUME TypeOK, NEW t \in Threads, Ask(t)
    PROVE  Touch(t, "asked")
<1>1. /\ InStage(t) /\ todo' = todo
      /\ outcome' = [outcome EXCEPT ![t][Current(t)] = "asked"]
  BY DEF Ask
<1>2. todo[t] \in Batches /\ todo[t] # <<>> /\ Head(todo[t]) # <<>> /\ Head(todo[t]) \in Seq(Kinds)
  BY <1>1 DEF TypeOK, InStage, Batches
<1>3. Current(t) \in Kinds /\ Current(t) \in HeadItems(t)
  BY <1>2, RestTypes, ItemsOfRest DEF Current, HeadItems
<1>4. \A k \in Kinds : outcome'[t][k] = IF k = Current(t) THEN "asked" ELSE outcome[t][k]
  BY <1>1, <1>3 DEF TypeOK
<1>5. AskedOf(t)' = AskedOf(t) \cup {Current(t)}
  BY <1>3, <1>4 DEF AskedOf
<1>6. HeadItems(t)' = HeadItems(t)
  BY <1>1 DEF HeadItems
<1> QED  BY <1>1, <1>2, <1>3, <1>4, <1>5, <1>6 DEF Touch, Covered

(***************************************************************************)
(* What holds of a method while it goes through its stages.                *)
(***************************************************************************)
\* What the method has asked or will ask.
Due(t) == Covered(t) \cup UNION {Items(todo[t][n]) : n \in 2..Len(todo[t])}

\* All motors, or none.
BatchKinds == {"mode", "force", "position", "status"}
Whole(X) == \A c \in BatchKinds, i, j \in Motors :
                [what |-> c, motor |-> i] \in X => [what |-> c, motor |-> j] \in X

OutcomeAt(t) ==
    /\ pc[t] = "idle" <=> todo[t] = <<>>
    /\ \A k \in Kinds : /\ outcome[t][k] = "asked" => pc[t] = "exchange" /\ k = Current(t)
                        /\ in_step => outcome[t][k] # "other"
    /\ pc[t] = "idle" /\ result[t] => ~Failed(t)

WholeAt(t) ==
    job[t] \in {"initialize", "set_all", "update"} =>
        Whole(Covered(t)) /\ \A n \in 2..Len(todo[t]) : Whole(Items(todo[t][n]))

PartsAt(t) ==
    pc[t] # "idle" \/ result[t] \/ job[t] = "calibrate" => Parts(job[t]) \subseteq Due(t)

\* The stages of initialize(), counted from the last.
AllOf(what) == {[what |-> what, motor |-> i] : i \in Motors}
StageKinds(n) == CASE n = 3 -> AllOf("mode")
                   [] n = 2 -> AllOf("force")
                   [] n = 1 -> {Encoders}
                   [] OTHER -> {Imu}

\* Every motor's request of this kind got a reply, its own or a late one.
Replied(t, what) == \A i \in Motors : outcome[t][[what |-> what, motor |-> i]] \in {"own", "other"}

OrderAt(t) ==
    job[t] = "initialize" =>
        /\ pc[t] # "idle" =>
              /\ Len(todo[t]) \in 1..4
              /\ HeadItems(t) \subseteq StageKinds(Len(todo[t]) - 1)
              /\ \A n \in 2..Len(todo[t]) : Items(todo[t][n]) = StageKinds(Len(todo[t]) - n)
              /\ Len(todo[t]) >= 3 => StageKinds(Len(todo[t]) - 1) \subseteq Covered(t)
              /\ Len(todo[t]) = 4 => AskedOf(t) \subseteq AllOf("mode")
              /\ Len(todo[t]) = 3 => AskedOf(t) \subseteq AllOf("mode") \cup AllOf("force")
              /\ Len(todo[t]) <= 3 => Replied(t, "mode")
              /\ Len(todo[t]) <= 2 => Replied(t, "force")
        /\ (\E k \in AskedOf(t) : k.what = "force") => Replied(t, "mode")
        /\ AskedOf(t) \cap {Encoders, Imu} # {} => Replied(t, "force")

BatchAt(t) == OutcomeAt(t) /\ WholeAt(t) /\ PartsAt(t) /\ OrderAt(t)
BatchInv == \A t \in Threads : BatchAt(t)

LEMMA TouchOutcome ==
    ASSUME TypeOK, NEW t \in Threads, OutcomeAt(t), pc[t] # "idle", in_step' = in_step,
           NEW how \in Outcomes \ {"unasked"}, Touch(t, how),
           in_step => how # "other",
           \/ how = "asked" /\ pc[t] = "ready" /\ pc'[t] = "exchange" /\ todo' = todo
           \/ how # "asked" /\ pc'[t] = "ready"
    PROVE  OutcomeAt(t)'
<1>1. todo'[t] # <<>> /\ pc'[t] # "idle"
  BY DEF Touch
<1>2. ASSUME NEW k \in Kinds
      PROVE  outcome'[t][k] = "asked" => pc'[t] = "exchange" /\ k = Current(t)'
  <2>1. outcome'[t][k] = IF k = Current(t) THEN how ELSE outcome[t][k]
    BY DEF Touch
  <2>2. CASE k = Current(t)
    BY <2>1, <2>2 DEF Current
  <2>3. CASE k # Current(t)
    BY <2>1, <2>3 DEF OutcomeAt
  <2> QED  BY <2>2, <2>3
<1>3. ASSUME NEW k \in Kinds, in_step
      PROVE  outcome'[t][k] # "other"
  BY <1>3 DEF Touch, OutcomeAt
<1> QED  BY <1>1, <1>2, <1>3 DEF OutcomeAt

LEMMA TouchWhole ==
    ASSUME NEW t \in Threads, WholeAt(t), job'[t] = job[t], NEW how, Touch(t, how)
    PROVE  WholeAt(t)'
<1>1. Covered(t)' = Covered(t) /\ Len(todo'[t]) = Len(todo[t])
  BY DEF Touch
<1>2. \A n \in 2..Len(todo[t]) : Items(todo'[t][n]) = Items(todo[t][n])
  BY DEF Touch
<1>3. SUFFICES ASSUME job[t] \in {"initialize", "set_all", "update"}
               PROVE  /\ Whole(Covered(t))'
                      /\ \A n \in 2..Len(todo[t]) : Whole(Items(todo'[t][n]))
  BY <1>1 DEF WholeAt, Whole
<1> QED  BY <1>1, <1>2, <1>3 DEF WholeAt, Whole

LEMMA TouchParts ==
    ASSUME NEW t \in Threads, PartsAt(t), job'[t] = job[t], pc[t] # "idle", NEW how, Touch(t, how)
    PROVE  PartsAt(t)'
<1>1. Due(t)' = Due(t)
  BY DEF Touch, Due
<1> QED  BY <1>1 DEF PartsAt, Parts

LEMMA StagesApart ==
    /\ \A k \in AllOf("mode") : k.what = "mode"
    /\ \A k \in AllOf("force") : k.what = "force"
    /\ Encoders.what = "encoder" /\ Imu.what = "imu"
    /\ StageKinds(3) = AllOf("mode") /\ StageKinds(2) = AllOf("force")
    /\ StageKinds(1) = {Encoders} /\ StageKinds(0) = {Imu}
  BY DEF AllOf, Encoders, Imu, StageKinds

\* A request that is not about what keeps the replies to what.
LEMMA RepliesKept ==
    ASSUME NEW t \in Threads, NEW how, Touch(t, how), NEW what \in Commands,
           Replied(t, what), Current(t).what # what
    PROVE  Replied(t, what)'
<1> SUFFICES ASSUME NEW i \in Motors
             PROVE  outcome'[t][[what |-> what, motor |-> i]] \in {"own", "other"}
  BY DEF Replied
<1>1. [what |-> what, motor |-> i] \in Kinds
  BY KindTypes
<1>2. [what |-> what, motor |-> i] # Current(t)
  OBVIOUS
<1> QED  BY <1>1, <1>2 DEF Touch, Replied

LEMMA TouchOrder ==
    ASSUME NEW t \in Threads, OrderAt(t), job'[t] = job[t], pc[t] # "idle", pc'[t] # "idle",
           NEW how \in Outcomes \ {"unasked"}, Touch(t, how)
    PROVE  OrderAt(t)'
<1> SUFFICES ASSUME job[t] = "initialize" PROVE OrderAt(t)'
  BY DEF OrderAt
<1> DEFINE L == Len(todo[t])
<1>1. /\ L \in 1..4 /\ HeadItems(t) \subseteq StageKinds(L - 1)
      /\ \A n \in 2..L : Items(todo[t][n]) = StageKinds(L - n)
      /\ L >= 3 => StageKinds(L - 1) \subseteq Covered(t)
      /\ L = 4 => AskedOf(t) \subseteq AllOf("mode")
      /\ L = 3 => AskedOf(t) \subseteq AllOf("mode") \cup AllOf("force")
      /\ L <= 3 => Replied(t, "mode")
      /\ L <= 2 => Replied(t, "force")
  BY DEF OrderAt
<1>2. Len(todo'[t]) = L /\ Covered(t)' = Covered(t) /\ HeadItems(t)' \subseteq HeadItems(t)
  BY DEF Touch
<1>3. \A n \in 2..L : Items(todo'[t][n]) = Items(todo[t][n])
  BY DEF Touch
<1>4. Current(t) \in StageKinds(L - 1)
  BY <1>1 DEF Touch
<1>5. AskedOf(t)' = AskedOf(t) \cup {Current(t)}
  BY DEF Touch, AskedOf
<1>0. L \in {1, 2, 3, 4}
  BY <1>1
<1> HIDE DEF L
<1>6. /\ L = 4 => Current(t) \in AllOf("mode")
      /\ L = 3 => Current(t) \in AllOf("force")
      /\ L <= 2 => Current(t).what \in {"encoder", "imu"}
  <2>1. CASE L = 4
    BY <1>4, <2>1, StagesApart
  <2>2. CASE L = 3
    BY <1>4, <2>2, StagesApart
  <2>3. CASE L = 2
    BY <1>4, <2>3, StagesApart
  <2>4. CASE L = 1
    BY <1>4, <2>4, StagesApart
  <2> QED  BY <1>0, <2>1, <2>2, <2>3, <2>4
<1>7. /\ L = 4 => AskedOf(t)' \subseteq AllOf("mode")
      /\ L = 3 => AskedOf(t)' \subseteq AllOf("mode") \cup AllOf("force")
  BY <1>1, <1>5, <1>6
<1>8. /\ L <= 3 => Replied(t, "mode")'
      /\ L <= 2 => Replied(t, "force")'
  <2>1. L <= 3 => Current(t).what # "mode"
    BY <1>1, <1>6, StagesApart
  <2>2. L <= 2 => Current(t).what # "force"
    BY <1>6
  <2> QED  BY <1>1, <2>1, <2>2, RepliesKept DEF Commands
<1>9. (\E k \in AskedOf(t)' : k.what = "force") => Replied(t, "mode")'
  <2>1. L = 4 => \A k \in AskedOf(t)' : k.what # "force"
    BY <1>7, StagesApart
  <2>2. L # 4 => L <= 3
    BY <1>0
  <2> QED  BY <1>8, <2>1, <2>2
<1>10. AskedOf(t)' \cap {Encoders, Imu} # {} => Replied(t, "force")'
  <2>1. L \in {3, 4} => \A k \in AskedOf(t)' : k.what \in {"mode", "force"}
    BY <1>7, StagesApart
  <2>2. L \in {3, 4} => AskedOf(t)' \cap {Encoders, Imu} = {}
    BY <2>1, StagesApart
  <2>3. L \notin {3, 4} => L <= 2
    BY <1>0
  <2> QED  BY <1>8, <2>2, <2>3
<1>11. /\ \A n \in 2..L : Items(todo'[t][n]) = StageKinds(L - n)
       /\ L >= 3 => StageKinds(L - 1) \subseteq Covered(t)'
       /\ HeadItems(t)' \subseteq StageKinds(L - 1)
  BY <1>1, <1>2, <1>3
<1> QED  BY <1>1, <1>2, <1>7, <1>8, <1>9, <1>10, <1>11 DEF OrderAt, L

LEMMA TouchStep ==
    ASSUME TypeOK, NEW t \in Threads, BatchAt(t), pc[t] # "idle", UNCHANGED <<in_step, job>>,
           NEW how \in Outcomes \ {"unasked"}, Touch(t, how), in_step => how # "other",
           \/ how = "asked" /\ pc[t] = "ready" /\ pc'[t] = "exchange" /\ todo' = todo
           \/ how # "asked" /\ pc'[t] = "ready"
    PROVE  BatchAt(t)'
<1>1. OutcomeAt(t)'
  BY TouchOutcome DEF BatchAt
<1>2. WholeAt(t)'
  BY TouchWhole DEF BatchAt
<1>3. PartsAt(t)'
  BY TouchParts DEF BatchAt
<1>4. OrderAt(t)'
  BY TouchOrder DEF BatchAt
<1> QED  BY <1>1, <1>2, <1>3, <1>4 DEF BatchAt

LEMMA NextStageShifts ==
    ASSUME TypeOK, NEW t \in Threads, NextStage(t)
    PROVE  /\ todo[t] # <<>> /\ todo'[t] # <<>> /\ Len(todo[t]) \in Nat
           /\ Len(todo'[t]) = Len(todo[t]) - 1 /\ Len(todo[t]) >= 2
           /\ HeadItems(t) = {} /\ HeadItems(t)' = Items(todo[t][2])
           /\ \A n \in 2..Len(todo'[t]) : n + 1 \in 2..Len(todo[t]) /\ todo'[t][n] = todo[t][n + 1]
           /\ AskedOf(t)' = AskedOf(t) /\ pc[t] = "ready"
           /\ UNCHANGED <<in_step, job, pc, outcome, result>>
<1>1. /\ todo[t] # <<>> /\ Head(todo[t]) = <<>> /\ Tail(todo[t]) # <<>> /\ pc[t] = "ready"
      /\ todo' = [todo EXCEPT ![t] = Tail(todo[t])]
      /\ UNCHANGED <<in_step, job, pc, outcome, result>>
  BY DEF NextStage, StageEnds
<1>2. todo[t] \in Seq(Seq(Kinds)) /\ todo'[t] = Tail(todo[t])
  BY <1>1 DEF TypeOK, Batches
<1>3. /\ Len(todo[t]) \in Nat /\ Len(todo'[t]) = Len(todo[t]) - 1
      /\ \A n \in 1..Len(todo'[t]) : todo'[t][n] = todo[t][n + 1]
      /\ todo'[t] \in Seq(Seq(Kinds)) /\ todo'[t] # <<>>
  BY <1>1, <1>2, EmptySeq, HeadTailProperties
<1>4. Len(todo[t]) >= 2
  <2>1. Len(todo'[t]) \in Nat \ {0}
    BY <1>3, EmptySeq
  <2> QED  BY <1>3, <2>1
<1>6. HeadItems(t) = {}
  BY <1>1 DEF HeadItems, Items
<1>7. todo'[t] # <<>> /\ Head(todo'[t]) = todo[t][2]
  BY <1>1, <1>2, <1>3, <1>4
<1>8. HeadItems(t)' = Items(todo[t][2])
  BY <1>7 DEF HeadItems
<1>9. AskedOf(t)' = AskedOf(t)
  BY <1>1 DEF AskedOf
<1> QED  BY <1>1, <1>3, <1>4, <1>6, <1>7, <1>8, <1>9

LEMMA NextStageStep ==
    ASSUME TypeOK, NEW t \in Threads, BatchAt(t), NextStage(t)
    PROVE  BatchAt(t)'
<1> USE NextStageShifts
<1> DEFINE L == Len(todo[t])
           M == Len(todo'[t])
<1>0. L \in Nat /\ L >= 2 /\ M = L - 1
  OBVIOUS
<1>1. OutcomeAt(t)'
  BY DEF BatchAt, OutcomeAt, Failed
<1>2. WholeAt(t)'
  <2>1. SUFFICES ASSUME job[t] \in {"initialize", "set_all", "update"}
                 PROVE  /\ Whole(Covered(t)')
                        /\ \A n \in 2..M : Whole(Items(todo'[t][n]))
    BY DEF WholeAt, Whole
  <2>2. Whole(AskedOf(t)) /\ \A n \in 2..L : Whole(Items(todo[t][n]))
    BY <2>1 DEF BatchAt, WholeAt, Covered
  <2>3. Whole(AskedOf(t) \cup Items(todo[t][2]))
    BY <1>0, <2>2 DEF Whole
  <2> QED  BY <2>2, <2>3 DEF Covered
<1>3. PartsAt(t)'
  <2>1. Due(t) \subseteq Due(t)'
    <3>1. ASSUME NEW n \in 2..L PROVE Items(todo[t][n]) \subseteq Due(t)'
      <4>1. CASE n = 2
        BY <4>1 DEF Due, Covered
      <4>2. CASE n # 2
        <5>1. n - 1 \in 2..M /\ (n - 1) + 1 = n
          BY <1>0, <4>2
        <5>2. todo'[t][n - 1] = todo[t][n]
          BY <5>1
        <5> QED  BY <5>1, <5>2 DEF Due
      <4> QED  BY <4>1, <4>2
    <3>2. Covered(t) \subseteq Due(t)'
      BY DEF Due, Covered
    <3> QED  BY <3>1, <3>2 DEF Due
  <2> QED  BY <2>1 DEF BatchAt, PartsAt, Parts
<1>4. OrderAt(t)'
  <2>1. SUFFICES ASSUME job[t] = "initialize" PROVE OrderAt(t)'
    BY DEF OrderAt
  <2>2. /\ L \in 1..4
        /\ \A n \in 2..L : Items(todo[t][n]) = StageKinds(L - n)
        /\ L >= 3 => StageKinds(L - 1) \subseteq AskedOf(t)
        /\ L = 4 => AskedOf(t) \subseteq AllOf("mode")
        /\ L = 3 => AskedOf(t) \subseteq AllOf("mode") \cup AllOf("force")
        /\ L <= 3 => Replied(t, "mode")
        /\ L <= 2 => Replied(t, "force")
        /\ (\E k \in AskedOf(t) : k.what = "force") => Replied(t, "mode")
        /\ AskedOf(t) \cap {Encoders, Imu} # {} => Replied(t, "force")
    BY <2>1 DEF BatchAt, OrderAt, Covered
  <2>3. ~Failed(t)
    BY <2>1 DEF NextStage
  <2>4. ASSUME NEW what \in {"mode", "force"}, AllOf(what) \subseteq AskedOf(t)
        PROVE  Replied(t, what)'
    <3> SUFFICES ASSUME NEW i \in Motors
                 PROVE  outcome[t][[what |-> what, motor |-> i]] \in {"own", "other"}
      BY DEF Replied
    <3>1. [what |-> what, motor |-> i] \in Kinds /\ [what |-> what, motor |-> i] \in AskedOf(t)
      BY <2>4, KindTypes DEF AllOf, Commands
    <3>2. outcome[t][[what |-> what, motor |-> i]] \in Outcomes \ {"unasked"}
      BY <3>1 DEF TypeOK, AskedOf
    <3>3. outcome[t][[what |-> what, motor |-> i]] # "asked"
      BY <3>1 DEF BatchAt, OutcomeAt
    <3>4. outcome[t][[what |-> what, motor |-> i]] \notin {"failed", "refused"}
      BY <3>1, <2>3 DEF Failed
    <3> QED  BY <3>2, <3>3, <3>4 DEF Outcomes
  <2>13. /\ L \in {2, 3, 4} /\ M = L - 1 /\ HeadItems(t)' = Items(todo[t][2])
         /\ \A n \in 2..M : n + 1 \in 2..L /\ todo'[t][n] = todo[t][n + 1]
         /\ AskedOf(t)' = AskedOf(t)
    <3>1. L \in {2, 3, 4}
      <4>1. L \in 1..4
        BY <2>2
      <4> HIDE DEF L, M
      <4> QED  BY <1>0, <4>1
    <3>2. /\ HeadItems(t)' = Items(todo[t][2]) /\ AskedOf(t)' = AskedOf(t)
          /\ \A n \in 2..M : n + 1 \in 2..L /\ todo'[t][n] = todo[t][n + 1]
      OBVIOUS
    <3> QED  BY <1>0, <3>1, <3>2
  <2> HIDE DEF M, L
  <2>5. /\ L = 4 => Replied(t, "mode")'
        /\ L = 3 => Replied(t, "force")'
    <3>1. CASE L = 4
      BY <2>2, <2>4, <3>1, StagesApart
    <3>2. CASE L = 3
      BY <2>2, <2>4, <3>2, StagesApart
    <3> QED  BY <3>1, <3>2
  <2>6. \A what \in Commands : Replied(t, what)' <=> Replied(t, what)
    BY DEF Replied
  <2>7. /\ Replied(t, "mode")'
        /\ M <= 2 => Replied(t, "force")'
    <3>1. Replied(t, "mode")' <=> Replied(t, "mode")
      BY <2>6 DEF Commands
    <3>2. Replied(t, "force")' <=> Replied(t, "force")
      BY <2>6 DEF Commands
    <3>3. CASE L = 4
      BY <2>5, <2>13, <3>3
    <3>4. CASE L = 3
      BY <2>2, <2>5, <3>1, <3>4
    <3>5. CASE L = 2
      BY <2>2, <3>1, <3>2, <3>5
    <3> QED  BY <2>13, <3>3, <3>4, <3>5
  <2>8. M \in {1, 2, 3} /\ HeadItems(t)' = StageKinds(M - 1)
    <3>1. Items(todo[t][2]) = StageKinds(L - 2) /\ L - 2 = M - 1
      BY <2>2, <2>13
    <3> QED  BY <2>13, <3>1
  <2>9. \A n \in 2..M : Items(todo'[t][n]) = StageKinds(M - n)
    <3> TAKE n \in 2..M
    <3>1. n + 1 \in 2..L /\ todo'[t][n] = todo[t][n + 1] /\ L - (n + 1) = M - n
      BY <2>13
    <3> QED  BY <2>2, <3>1
  <2>10. M = 3 => AskedOf(t)' \subseteq AllOf("mode") \cup AllOf("force")
    <3>1. M = 3 => L = 4
      BY <2>13
    <3> QED  BY <2>2, <2>13, <3>1
  <2>11. AskedOf(t)' \cap {Encoders, Imu} # {} => Replied(t, "force")'
    BY <2>2, <2>6 DEF Commands
  <2>12. HeadItems(t)' \subseteq Covered(t)'
    BY DEF Covered
  <2>14. M \in 1..4 /\ M # 4 /\ M <= 3
    BY <2>8
  <2> HIDE NextStageShifts
  <2> QED  BY <2>7, <2>8, <2>9, <2>10, <2>11, <2>12, <2>14 DEF OrderAt, M
<1> QED  BY <1>1, <1>2, <1>3, <1>4 DEF BatchAt

LEMMA ReturnStep ==
    ASSUME TypeOK, NEW t \in Threads, BatchAt(t), Finish(t) \/ Abandon(t) \/ Stopped(t)
    PROVE  BatchAt(t)'
<1>1. /\ StageEnds(t) /\ todo' = [todo EXCEPT ![t] = <<>>] /\ pc' = [pc EXCEPT ![t] = "idle"]
      /\ result' = [result EXCEPT ![t] = ~Failed(t)]
      /\ UNCHANGED <<in_step, job, outcome>>
  BY DEF Finish, Abandon, Stopped, Return
<1>2. /\ todo'[t] = <<>> /\ pc'[t] = "idle" /\ result'[t] = ~Failed(t)
      /\ pc[t] = "ready" /\ todo[t] # <<>> /\ Head(todo[t]) = <<>>
  BY <1>1 DEF TypeOK, StageEnds
<1>3. AskedOf(t)' = AskedOf(t) /\ Covered(t) = AskedOf(t) /\ Covered(t)' = AskedOf(t)
  <2>1. AskedOf(t)' = AskedOf(t)
    BY <1>1 DEF AskedOf
  <2>2. HeadItems(t) = {} /\ HeadItems(t)' = {}
    BY <1>2 DEF HeadItems, Items
  <2> QED  BY <2>1, <2>2 DEF Covered
<1>4. Len(todo'[t]) = 0
  BY <1>2
<1>5. OutcomeAt(t)'
  <2>1. Failed(t)' <=> Failed(t)
    BY <1>1 DEF Failed
  <2>2. ASSUME NEW k \in Kinds
        PROVE  outcome'[t][k] # "asked" /\ (in_step' => outcome'[t][k] # "other")
    BY <1>1, <1>2 DEF BatchAt, OutcomeAt
  <2> QED  BY <1>2, <2>1, <2>2 DEF OutcomeAt
<1>6. WholeAt(t)'
  BY <1>1, <1>3, <1>4 DEF BatchAt, WholeAt, Whole
<1>7. PartsAt(t)'
  <2>1. CASE Finish(t)
    <3>1. todo[t] \in Seq(Seq(Kinds)) /\ Tail(todo[t]) = <<>>
      BY <2>1 DEF Finish, TypeOK, Batches
    <3>2. Len(todo[t]) = 1
      <4>1. Len(todo[t]) \in Nat \ {0} /\ Len(Tail(todo[t])) = Len(todo[t]) - 1
        BY <1>2, <3>1, EmptySeq, HeadTailProperties
      <4>2. Len(Tail(todo[t])) = 0
        BY <3>1, EmptySeq
      <4> QED  BY <4>1, <4>2
    <3>3. Due(t) = AskedOf(t)
      BY <1>3, <3>2 DEF Due
    <3>4. Parts(job[t]) \subseteq AskedOf(t)
      BY <1>2, <3>3 DEF BatchAt, PartsAt
    <3> QED  BY <1>1, <1>3, <3>4 DEF PartsAt, Due, Parts
  <2>2. CASE Abandon(t)
    <3>1. job'[t] = "initialize" /\ ~result'[t]
      BY <1>1, <1>2, <2>2 DEF Abandon
    <3> QED  BY <1>2, <3>1 DEF PartsAt
  <2>3. CASE Stopped(t)
    <3>1. Parts(job[t])' = {}
      BY <1>1, <2>3 DEF Stopped, Parts
    <3> QED  BY <3>1 DEF PartsAt
  <2> QED  BY <2>1, <2>2, <2>3
<1>8. OrderAt(t)'
  <2>1. \A what \in Commands : Replied(t, what)' <=> Replied(t, what)
    BY <1>1 DEF Replied
  <2> QED  BY <1>1, <1>2, <1>3, <2>1 DEF BatchAt, OrderAt, Commands
<1> QED  BY <1>5, <1>6, <1>7, <1>8 DEF BatchAt

LEMMA ItemsOfOne ==
    ASSUME NEW k
    PROVE  Items(<<k>>) = {k}
  BY DEF Items

LEMMA ItemsOfAll ==
    ASSUME NEW what
    PROVE  Items(ForAll(what)) = AllOf(what)
<1>1. Len(ForAll(what)) = NUM_MOTORS /\ DOMAIN ForAll(what) = 1..NUM_MOTORS
  BY PollingAssumption DEF ForAll, Motors
<1> QED  BY <1>1 DEF Items, AllOf, ForAll, Motors

LEMMA WholeBatches ==
    /\ Whole({})
    /\ \A c \in BatchKinds : Whole(AllOf(c))
    /\ Whole({Encoders}) /\ Whole({Imu})
  BY DEF Whole, AllOf, BatchKinds, Encoders, Imu

LEMMA CallStep ==
    ASSUME TypeOK, NEW t \in Threads, BatchAt(t), Call(t)
    PROVE  BatchAt(t)'
<1>m. PICK m \in left[t] :
          /\ job' = [job EXCEPT ![t] = m]
          /\ \E p \in Plans(m) : todo' = [todo EXCEPT ![t] = p]
  BY DEF Call
<1>p. PICK p \in Plans(m) : todo' = [todo EXCEPT ![t] = p]
  BY <1>m
<1>1. /\ job' = [job EXCEPT ![t] = m] /\ todo' = [todo EXCEPT ![t] = p]
      /\ pc' = [pc EXCEPT ![t] = "ready"]
      /\ outcome' = [outcome EXCEPT ![t] = [k \in Kinds |-> "unasked"]]
      /\ in_step' = in_step
  BY <1>m, <1>p DEF Call
<1>2. /\ m \in Methods /\ job'[t] = m /\ todo'[t] = p /\ pc'[t] = "ready"
      /\ \A k \in Kinds : outcome'[t][k] = "unasked"
  BY <1>1 DEF TypeOK
<1>3. AskedOf(t)' = {}
  BY <1>2 DEF AskedOf
<1> DEFINE I(n) == Items(p[n])
<1>4. /\ m = "initialize" => /\ Len(p) = 4 /\ I(1) = AllOf("mode") /\ I(2) = AllOf("force")
                             /\ I(3) = {Encoders} /\ I(4) = {Imu}
      /\ m = "update" => /\ Len(p) = 3 /\ I(1) = AllOf("status")
                         /\ I(2) = {Encoders} /\ I(3) = {Imu}
      /\ m = "calibrate" => Len(p) = 2 /\ I(1) = {Encoders} /\ I(2) = {Imu}
      /\ m = "set_all" => Len(p) = 1 /\ \E c \in BatchKinds : I(1) = AllOf(c)
      /\ p # <<>> /\ Head(p) = p[1]
  <2>1. CASE m = "initialize"
    <3>1. p = <<ForAll("mode"), ForAll("force"), <<Encoders>>, <<Imu>>>>
      BY <2>1 DEF Plans
    <3>2. Len(p) = 4 /\ p[1] = ForAll("mode") /\ p[2] = ForAll("force")
          /\ p[3] = <<Encoders>> /\ p[4] = <<Imu>>
      BY <3>1
    <3>3. p # <<>> /\ Head(p) = p[1]
      BY <3>1
    <3> QED  BY <2>1, <3>2, <3>3, ItemsOfAll, ItemsOfOne
  <2>2. CASE m = "update"
    <3>1. p = <<ForAll("status"), <<Encoders>>, <<Imu>>>>
      BY <2>2 DEF Plans
    <3>2. Len(p) = 3 /\ p[1] = ForAll("status") /\ p[2] = <<Encoders>> /\ p[3] = <<Imu>>
      BY <3>1
    <3>3. p # <<>> /\ Head(p) = p[1]
      BY <3>1
    <3> QED  BY <2>2, <3>2, <3>3, ItemsOfAll, ItemsOfOne
  <2>3. CASE m = "calibrate"
    <3>1. p = <<<<Encoders>>, <<Imu>>>>
      BY <2>3 DEF Plans
    <3>2. Len(p) = 2 /\ p[1] = <<Encoders>> /\ p[2] = <<Imu>>
      BY <3>1
    <3>3. p # <<>> /\ Head(p) = p[1]
      BY <3>1
    <3> QED  BY <2>3, <3>2, <3>3, ItemsOfOne
  <2>4. CASE m = "set_all"
    <3>1. PICK c \in Commands \ {"speed"} : p = <<ForAll(c)>>
      BY <2>4 DEF Plans
    <3> QED  BY <2>4, <3>1, ItemsOfAll DEF Commands, BatchKinds
  <2>5. CASE m = "set"
    <3>1. PICK s : p = <<s>>
      BY <2>5 DEF Plans
    <3> QED  BY <2>5, <3>1
  <2>6. CASE m = "get_status"
    <3>1. PICK s : p = <<s>>
      BY <2>6 DEF Plans
    <3> QED  BY <2>6, <3>1
  <2> QED  BY <1>2, <2>1, <2>2, <2>3, <2>4, <2>5, <2>6 DEF Methods
<1> HIDE DEF I
<1>5. Covered(t)' = I(1) /\ HeadItems(t)' = I(1)
  BY <1>2, <1>3, <1>4 DEF Covered, HeadItems, I
<1>6. OutcomeAt(t)'
  BY <1>2, <1>4 DEF OutcomeAt
<1>7. WholeAt(t)'
  <2> SUFFICES ASSUME m \in {"initialize", "set_all", "update"}
               PROVE  Whole(I(1)) /\ \A n \in 2..Len(p) : Whole(I(n))
    BY <1>2, <1>5 DEF WholeAt, I, Whole
  <2>1. CASE m = "initialize"
    <3>1. \A n \in 2..4 : n = 2 \/ n = 3 \/ n = 4
      OBVIOUS
    <3>2. Whole(I(1)) /\ Whole(I(2)) /\ Whole(I(3)) /\ Whole(I(4))
      BY <1>4, <2>1, WholeBatches DEF BatchKinds
    <3> QED  BY <1>4, <2>1, <3>1, <3>2
  <2>2. CASE m = "update"
    <3>1. \A n \in 2..3 : n = 2 \/ n = 3
      OBVIOUS
    <3>2. Whole(I(1)) /\ Whole(I(2)) /\ Whole(I(3))
      BY <1>4, <2>2, WholeBatches DEF BatchKinds
    <3> QED  BY <1>4, <2>2, <3>1, <3>2
  <2>3. CASE m = "set_all"
    <3>1. Whole(I(1)) /\ Len(p) = 1
      BY <1>4, <2>3, WholeBatches
    <3> QED  BY <3>1
  <2> QED  BY <2>1, <2>2, <2>3
<1>8. PartsAt(t)'
  <2>1. Due(t)' = I(1) \cup UNION {I(n) : n \in 2..Len(p)}
    BY <1>2, <1>5 DEF Due, I
  <2>2. CASE m = "initialize"
    <3>3. Len(p) = 4 /\ \A n \in 2..4 : n = 2 \/ n = 3 \/ n = 4
      BY <1>4, <2>2
    <3>4. I(2) \cup I(3) \cup I(4) \subseteq Due(t)' /\ I(1) \subseteq Due(t)'
      BY <2>1, <3>3
    <3>2. Parts("initialize") \subseteq AllOf("mode") \cup AllOf("force") \cup {Encoders, Imu}
      BY DEF Parts, AllOf
    <3> QED  BY <1>2, <1>4, <2>2, <3>2, <3>4 DEF PartsAt, Parts
  <2>3. CASE m = "calibrate"
    <3>1. Len(p) = 2 /\ 2..2 = {2}
      BY <1>4, <2>3
    <3>3. Due(t)' = I(1) \cup I(2)
      BY <2>1, <3>1
    <3> QED  BY <1>2, <1>4, <2>3, <3>3 DEF PartsAt, Parts
  <2>4. CASE m \notin {"initialize", "calibrate"}
    BY <1>2, <2>4 DEF PartsAt, Parts
  <2> QED  BY <2>2, <2>3, <2>4
<1>9. OrderAt(t)'
  <2> SUFFICES ASSUME m = "initialize" PROVE OrderAt(t)'
    BY <1>2 DEF OrderAt
  <2>1. Len(p) = 4
    BY <1>4
  <2>2. ASSUME NEW n \in 1..4 PROVE I(n) = StageKinds(4 - n)
    <3>1. n \in {1, 2, 3, 4} /\ 4 - 1 = 3 /\ 4 - 2 = 2 /\ 4 - 3 = 1 /\ 4 - 4 = 0
      OBVIOUS
    <3> QED  BY <1>4, <3>1, StagesApart
  <2>3. HeadItems(t)' = StageKinds(3) /\ Covered(t)' = StageKinds(3)
    BY <1>5, <2>2
  <2>4. \A n \in 2..4 : Items(p[n]) = StageKinds(4 - n)
    BY <2>2 DEF I
  <2> QED  BY <1>2, <1>3, <2>1, <2>3, <2>4 DEF OrderAt
<1> QED  BY <1>6, <1>7, <1>8, <1>9 DEF BatchAt

\* Where nothing of a method changes, what holds of it stays.
LEMMA BatchKept ==
    ASSUME NEW t \in Threads, BatchAt(t), in_step' = in_step,
           job'[t] = job[t], todo'[t] = todo[t], pc'[t] = pc[t],
           outcome'[t] = outcome[t], result'[t] = result[t]
    PROVE  BatchAt(t)'
<1>1. AskedOf(t)' = AskedOf(t) /\ HeadItems(t)' = HeadItems(t) /\ Covered(t)' = Covered(t)
  BY DEF AskedOf, HeadItems, Covered
<1>2. Due(t)' = Due(t)
  BY <1>1 DEF Due
<1>3. OutcomeAt(t)'
  BY DEF BatchAt, OutcomeAt, Failed, Current
<1>4. WholeAt(t)'
  BY <1>1 DEF BatchAt, WholeAt, Whole
<1>5. PartsAt(t)'
  BY <1>2 DEF BatchAt, PartsAt, Parts
<1>6. OrderAt(t)'
  <2>1. \A what \in Commands : Replied(t, what)' <=> Replied(t, what)
    BY DEF Replied
  <2> QED  BY <1>1, <2>1 DEF BatchAt, OrderAt, Commands
<1> QED  BY <1>3, <1>4, <1>5, <1>6 DEF BatchAt

\* A step is one thread's, and the others' methods stay as they are.
LEMMA OneThread ==
    ASSUME TypeOK, NEW t \in Threads, Call(t) \/ Work(t)
    PROVE  /\ in_step' = in_step
           /\ \A u \in Threads \ {t} :
                 /\ job'[u] = job[u] /\ todo'[u] = todo[u] /\ pc'[u] = pc[u]
                 /\ outcome'[u] = outcome[u] /\ result'[u] = result[u]
<1> USE DEF TypeOK
<1>1. CASE Call(t)
  BY <1>1 DEF Call
<1>2. CASE Refuse(t) \/ NoAnswer(t)
  BY <1>2 DEF Refuse, NoAnswer, Done
<1>3. CASE Ask(t)
  BY <1>3 DEF Ask
<1>4. CASE Exchange(t)
  BY <1>4 DEF Exchange
<1>5. CASE Handle(t)
  <2>1. \E how \in Outcomes : Done(t, how)
    BY <1>5 DEF Handle, Outcomes
  <2>2. UNCHANGED <<in_step, job, result>>
    BY <1>5 DEF Handle
  <2> QED  BY <2>1, <2>2 DEF Done
<1>6. CASE NextStage(t)
  BY <1>6 DEF NextStage
<1>7. CASE Finish(t) \/ Abandon(t) \/ Stopped(t)
  BY <1>7 DEF Finish, Abandon, Stopped, Return
<1> QED  BY <1>1, <1>2, <1>3, <1>4, <1>5, <1>6, <1>7 DEF Work

LEMMA WorkStep ==
    ASSUME IInv, NEW t \in Threads, BatchAt(t), Work(t)
    PROVE  BatchAt(t)'
<1>1. TypeOK /\ (pc[t] = "exchange" => ExchangeAt(t))
  BY DEF IInv, ExchangeInv
<1>2. CASE Refuse(t)
  <2>1. /\ InStage(t) /\ Done(t, "refused") /\ pc[t] = "ready"
        /\ UNCHANGED <<in_step, job>> /\ pc'[t] = "ready"
    BY <1>1, <1>2 DEF Refuse, Done, TypeOK
  <2> QED  BY <1>1, <2>1, DoneCovers, TouchStep DEF Outcomes
<1>3. CASE Ask(t)
  <2>1. Touch(t, "asked")
    BY <1>1, <1>3, AskCovers
  <2>2. /\ pc[t] = "ready" /\ pc'[t] = "exchange" /\ todo' = todo
        /\ UNCHANGED <<in_step, job>>
    BY <1>1, <1>3 DEF Ask, TypeOK
  <2> QED  BY <1>1, <2>1, <2>2, TouchStep DEF Outcomes
<1>4. CASE Exchange(t)
  BY <1>4, BatchKept DEF Exchange
<1>5. CASE Handle(t)
  <2>1. PICK how \in {"own", "other", "failed"} :
           /\ Done(t, how)
           /\ how = "other" => answer[t] # {} /\ ~Own(t)
    BY <1>5 DEF Handle
  <2>2. pc[t] = "exchange" /\ pc'[t] = "ready" /\ UNCHANGED <<in_step, job>>
    BY <1>1, <1>5, <2>1 DEF Handle, Done, TypeOK
  <2>3. in_step => how # "other"
    BY <1>1, <2>1, <2>2 DEF ExchangeAt, Own
  <2>4. Touch(t, how)
    BY <1>1, <2>1, <2>2, DoneCovers DEF ExchangeAt, Outcomes
  <2> QED  BY <1>1, <2>2, <2>3, <2>4, TouchStep DEF Outcomes
<1>6. CASE NoAnswer(t)
  <2>1. /\ InStage(t) /\ Done(t, "failed") /\ pc[t] = "exchange"
        /\ UNCHANGED <<in_step, job>> /\ pc'[t] = "ready"
    BY <1>1, <1>6 DEF NoAnswer, Done, TypeOK, ExchangeAt
  <2> QED  BY <1>1, <2>1, DoneCovers, TouchStep DEF Outcomes
<1>7. CASE NextStage(t)
  BY <1>1, <1>7, NextStageStep
<1>8. CASE Finish(t) \/ Abandon(t) \/ Stopped(t)
  BY <1>1, <1>8, ReturnStep
<1> QED  BY <1>2, <1>3, <1>4, <1>5, <1>6, <1>7, <1>8 DEF Work

LEMMA BatchInvariance == Spec => []BatchInv
<1>1. Init => BatchInv
  <2> SUFFICES ASSUME Init, NEW t \in Threads PROVE BatchAt(t)
    BY DEF BatchInv
  <2>1. /\ job[t] = "none" /\ todo[t] = <<>> /\ pc[t] = "idle" /\ result[t] = FALSE
        /\ \A k \in Kinds : outcome[t][k] = "unasked"
    BY DEF Init
  <2>2. OutcomeAt(t)
    BY <2>1 DEF OutcomeAt
  <2> QED  BY <2>1, <2>2 DEF BatchAt, WholeAt, PartsAt, OrderAt
<1>2. IInv /\ BatchInv /\ [Next]_vars => BatchInv'
  <2> SUFFICES ASSUME IInv, BatchInv, [Next]_vars, NEW u \in Threads PROVE BatchAt(u)'
    BY DEF BatchInv
  <2>1. TypeOK /\ BatchAt(u)
    BY DEF IInv, BatchInv
  <2>2. CASE UNCHANGED vars \/ Link
    <3>1. UNCHANGED <<in_step, job, todo, pc, outcome, result>>
      BY <2>2 DEF Link
    <3> QED  BY <2>1, <3>1, BatchKept
  <2>3. CASE \E t \in Threads : Call(t) \/ Work(t)
    <3>1. PICK t \in Threads : Call(t) \/ Work(t)
      BY <2>3
    <3>2. CASE u = t
      BY <2>1, <3>1, <3>2, CallStep, WorkStep
    <3>3. CASE u # t
      BY <2>1, <3>1, <3>3, OneThread, BatchKept
    <3> QED  BY <3>2, <3>3
  <2> HIDE DEF vars
  <2> QED  BY <2>2, <2>3 DEF Next
<1> HIDE DEF vars
<1> QED  BY Invariance, <1>1, <1>2, PTL DEF Spec

\* In step, true means that every request was answered, for any number of motors
\* (motor_controller.cpp:187-217, glove_sdk.cpp:259-277).
THEOREM TrueIsTrue == Spec => []Truthful
<1>1. IInv /\ BatchInv => Truthful
  <2> SUFFICES ASSUME IInv, BatchInv, NEW t \in Threads, in_step, pc[t] = "idle", result[t],
                      NEW k \in AskedOf(t) \cup Parts(job[t])
               PROVE  outcome[t][k] = "own"
    BY DEF Truthful
  <2>1. OutcomeAt(t) /\ PartsAt(t) /\ outcome[t] \in [Kinds -> Outcomes]
    BY DEF BatchInv, BatchAt, IInv, TypeOK
  <2>2. todo[t] = <<>>
    BY <2>1 DEF OutcomeAt
  <2>3. Due(t) = AskedOf(t)
    BY <2>2 DEF Due, Covered, HeadItems
  <2>4. k \in Kinds /\ outcome[t][k] # "unasked"
    BY <2>1, <2>3 DEF PartsAt, AskedOf
  <2>5. outcome[t][k] \notin {"asked", "other", "failed", "refused"}
    BY <2>1, <2>4 DEF OutcomeAt, Failed
  <2> QED  BY <2>1, <2>4, <2>5 DEF Outcomes
<1> QED  BY Invariance, BatchInvariance, <1>1, PTL

\* initialize() does its stages in order, for any number of motors and whatever
\* the network does, and in step with every motor's own answer to the stage before
\* (motor_controller.cpp:35-48, glove_sdk.cpp:56-85).
THEOREM Staging == Spec => []StagesInOrder
<1>1. BatchInv => StagesInOrder
  <2> SUFFICES ASSUME BatchInv, NEW t \in Threads, job[t] = "initialize"
               PROVE  /\ (\E k \in AskedOf(t) : k.what = "force") => Answered(t, "mode")
                      /\ AskedOf(t) \cap {Encoders, Imu} # {} => Answered(t, "force")
    BY DEF StagesInOrder
  <2>1. OutcomeAt(t) /\ OrderAt(t)
    BY DEF BatchInv, BatchAt
  <2>2. ASSUME NEW what \in {"mode", "force"}, Replied(t, what)
        PROVE  Answered(t, what)
    <3> SUFFICES ASSUME NEW i \in Motors
                 PROVE  /\ outcome[t][[what |-> what, motor |-> i]] \in {"own", "other"}
                        /\ in_step => outcome[t][[what |-> what, motor |-> i]] = "own"
      BY DEF Answered
    <3>1. [what |-> what, motor |-> i] \in Kinds
      BY KindTypes DEF Commands
    <3> QED  BY <2>1, <2>2, <3>1 DEF OutcomeAt, Replied
  <2> QED  BY <2>1, <2>2 DEF OrderAt
<1> QED  BY BatchInvariance, <1>1, PTL

\* A batch leaves no motor out, for any number of motors and whatever fails
\* (motor_controller.cpp:187-217, 264-272).
THEOREM WholeBatch == Spec => []NoMotorLeftOut
<1>1. BatchInv => NoMotorLeftOut
  <2> SUFFICES ASSUME BatchInv, NEW t \in Threads, pc[t] = "idle"
               PROVE  /\ job[t] \in {"initialize", "set_all", "update"} => Whole(AskedOf(t))
                      /\ job[t] = "calibrate" => {Encoders, Imu} \subseteq AskedOf(t)
    BY DEF NoMotorLeftOut, Whole, BatchKinds
  <2>1. OutcomeAt(t) /\ WholeAt(t) /\ PartsAt(t)
    BY DEF BatchInv, BatchAt
  <2>2. todo[t] = <<>>
    BY <2>1 DEF OutcomeAt
  <2>3. Due(t) = AskedOf(t) /\ Covered(t) = AskedOf(t)
    BY <2>2 DEF Due, Covered, HeadItems
  <2> QED  BY <2>1, <2>3 DEF WholeAt, PartsAt, Parts
<1> QED  BY BatchInvariance, <1>1, PTL
===============================================================================
