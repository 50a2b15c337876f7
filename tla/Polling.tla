------------------------------- MODULE Polling --------------------------------
(***************************************************************************)
(* What the components do with UdpClient: every method of MotorController, *)
(* EncoderReader and ImuReader that talks to the glove is a sequence of    *)
(* exchanges, one after the other, each sent, answered or given up         *)
(* (Transport), and its reply parsed and stored.  Some stop at the first   *)
(* part that fails, some go on.                                            *)
(*                                                                         *)
(* Transport does not promise that a reply answers the request of the      *)
(* exchange that takes it.  Two kinds of instance are looked at: in_step,  *)
(* where it does (one thread and a glove that answers in time: what        *)
(* UdpClient's RepliesMatch shows), and any other.                         *)
(*                                                                         *)
(* A reading is represented by the request whose reply it was parsed from. *)
(* The mutexes of the caches are in EncoderReader and ImuReader.           *)
(***************************************************************************)
EXTENDS Transport, Sequences

CONSTANTS
    NUM_MOTORS,
    Applications    \* what each thread calls, each method at most once, and in_step

Motors   == 1..NUM_MOTORS
Commands == {"mode", "force", "position", "speed"}
Methods  == {"initialize", "update", "set", "set_all", "calibrate", "get_status"}

\* A request by what it is about: commands and polls of a motor, and the two sensors.
MotorKinds == [what : Commands \cup {"status"}, motor : Motors]
Encoders   == [what |-> "encoder", motor |-> 0]
Imu        == [what |-> "imu", motor |-> 0]
Nothing    == [what |-> "nothing", motor |-> 0]
Kinds      == MotorKinds \cup {Encoders, Imu}

ASSUME PollingAssumption ==
    /\ NUM_MOTORS \in Nat /\ MaxCalls \in Nat
    /\ Applications \subseteq [calls : [Threads -> SUBSET Methods], in_step : BOOLEAN]
    /\ \A a \in Applications, t, u \in Threads :
          a.in_step /\ a.calls[t] # {} /\ a.calls[u] # {} => t = u

VARIABLES
    in_step, left,           \* the instance at hand; the calls it still makes
    job, todo, pc,           \* each thread: its method, the stages left of it, its place
    outcome,                 \* each thread: how the requests of its method went
    result,                  \* each thread: what the method returned
    asked,                   \* what each request was about
    cached_status,           \* MotorController
    encoders, encoder_zero,  \* EncoderReader: cached reading and zero
    imu, imu_zero            \* ImuReader

run     == <<job, todo, pc, outcome, result>>
readers == <<cached_status, encoders, encoder_zero, imu, imu_zero>>
vars    == <<tvars, in_step, left, run, asked, readers>>

Init ==
    /\ TInit
    /\ \E a \in Applications : in_step = a.in_step /\ left = a.calls
    /\ job = [t \in Threads |-> "none"]
    /\ todo = [t \in Threads |-> <<>>]
    /\ pc = [t \in Threads |-> "idle"]
    /\ outcome = [t \in Threads |-> [k \in Kinds |-> "unasked"]]
    /\ result = [t \in Threads |-> FALSE]
    /\ asked = [r \in Requests |-> Nothing]
    /\ cached_status = [i \in Motors |-> Nothing]
    /\ encoders = Nothing /\ encoder_zero = Nothing
    /\ imu = Nothing /\ imu_zero = Nothing

(***************************************************************************)
(* The methods: stages, each the sequence of its requests.                 *)
(***************************************************************************)
ForAll(what) == [i \in Motors |-> [what |-> what, motor |-> i]]

Plans(m) ==
    CASE m = "initialize" -> {<<ForAll("mode"), ForAll("force"), <<Encoders>>, <<Imu>>>>}
      [] m = "update"     -> {<<ForAll("status"), <<Encoders>>, <<Imu>>>>}
      [] m = "calibrate"  -> {<<<<Encoders>>, <<Imu>>>>}
      [] m = "set_all"    -> {<<ForAll(c)>> : c \in Commands \ {"speed"}}
      [] m = "set"        -> {<<<<[what |-> c, motor |-> i]>>>> : c \in Commands, i \in Motors}
      [] m = "get_status" -> {<<<<[what |-> "status", motor |-> i]>>>> : i \in Motors}

Call(t) ==
    /\ pc[t] = "idle"
    /\ \E m \in left[t] :
          /\ job' = [job EXCEPT ![t] = m]
          /\ left' = [left EXCEPT ![t] = @ \ {m}]
          /\ \E p \in Plans(m) : todo' = [todo EXCEPT ![t] = p]
    /\ pc' = [pc EXCEPT ![t] = "ready"]
    /\ outcome' = [outcome EXCEPT ![t] = [k \in Kinds |-> "unasked"]]
    /\ UNCHANGED <<tvars, in_step, result, asked, readers>>

\* The request whose turn it is.
Current(t) == Head(Head(todo[t]))
InStage(t) == todo[t] # <<>> /\ Head(todo[t]) # <<>>

\* It is done with, and so it went.
Done(t, how) ==
    /\ outcome' = [outcome EXCEPT ![t][Current(t)] = how]
    /\ todo' = [todo EXCEPT ![t] = <<Tail(Head(@))>> \o Tail(@)]
    /\ pc' = [pc EXCEPT ![t] = "ready"]

\* Mutant of Refuse: a batch ends with a value that is out of range.
RefuseRest(t) ==
    /\ pc[t] = "ready" /\ InStage(t) /\ job[t] \in {"set", "set_all", "get_status"}
    /\ outcome' = [outcome EXCEPT ![t][Current(t)] = "refused"]
    /\ todo' = [todo EXCEPT ![t] = <<<<>>>> \o Tail(@)]
    /\ UNCHANGED <<tvars, in_step, left, job, pc, result, asked, readers>>

\* The caller's motor or value is out of range: nothing is sent.  set_all_modes()
\* has one mode for all motors, which is valid or not.
OneMode(t) == job[t] = "set_all" /\ Current(t).what = "mode"

Refuse(t) ==
    /\ pc[t] = "ready" /\ InStage(t) /\ job[t] \in {"set", "set_all", "get_status"}
    /\ OneMode(t) => \A k \in Kinds : outcome[t][k] \in {"unasked", "refused"}
    /\ Done(t, "refused")
    /\ UNCHANGED <<tvars, in_step, left, job, result, asked, readers>>

(***************************************************************************)
(* An exchange.                                                            *)
(***************************************************************************)
Ask(t) ==
    /\ pc[t] = "ready" /\ InStage(t)
    /\ OneMode(t) => \A k \in Kinds : outcome[t][k] # "refused"
    /\ Begin(t) /\ phase'[t] = "asking"
    /\ asked' = [asked EXCEPT ![<<t, calls'[t]>>] = Current(t)]
    /\ outcome' = [outcome EXCEPT ![t][Current(t)] = "asked"]
    /\ pc' = [pc EXCEPT ![t] = "exchange"]
    /\ UNCHANGED <<in_step, left, job, todo, result, readers>>

Exchange(t) ==
    /\ pc[t] = "exchange"
    /\ \/ Send(t) /\ phase'[t] = "awaiting"
       \/ Take(t) /\ (in_step => answer'[t] = {<<t, calls[t]>>})
       \/ GiveUp(t)
    /\ UNCHANGED <<in_step, left, run, asked, readers>>

\* Mutant of Understood: the encoder parser looks at no length.
UnderstoodBlindly(k, reply) ==
    IF k.what \in {"status", "imu"} /\ reply \in MotorKinds THEN BOOLEAN
    ELSE {k.what \in Commands \cup {"encoder", "imu"}}

\* A reply is understood as what was asked for: any reply will do for a command,
\* and none is too wrong for the IMU's parser but one that is too short.
Understood(k, reply) ==
    CASE k.what \in Commands -> {TRUE}
      [] k.what = "status"   -> IF reply \in MotorKinds THEN BOOLEAN ELSE {FALSE}
      [] k.what = "encoder"  -> {reply = Encoders}
      [] k.what = "imu"      -> IF reply \in MotorKinds THEN BOOLEAN ELSE {TRUE}

\* Mutant of Keep: the motor's number is taken for an index from 0.
KeepShifted(t, k, reply) ==
    /\ cached_status' = IF k.what = "status" /\ job[t] = "update"
                        THEN [i \in Motors \cup {k.motor + 1} |->
                                  IF i = k.motor + 1 THEN reply ELSE cached_status[i]]
                        ELSE cached_status
    /\ UNCHANGED <<encoders, encoder_zero, imu, imu_zero>>

\* Where the reading goes: get_motor_status() hands it to its caller, a
\* calibration makes it the zero, too.
Keep(t, k, reply) ==
    /\ cached_status' = IF k.what = "status" /\ job[t] = "update"
                        THEN [cached_status EXCEPT ![k.motor] = reply] ELSE cached_status
    /\ encoders'      = IF k = Encoders THEN reply ELSE encoders
    /\ encoder_zero'  = IF k = Encoders /\ job[t] = "calibrate" THEN reply ELSE encoder_zero
    /\ imu'           = IF k = Imu THEN reply ELSE imu
    /\ imu_zero'      = IF k = Imu /\ job[t] = "calibrate" THEN reply ELSE imu_zero

Own(t) == answer[t] = {<<t, calls[t]>>}

Handle(t) ==
    /\ pc[t] = "exchange" /\ phase[t] = "idle"
    /\ \E r \in answer[t], understood \in BOOLEAN :
          /\ understood \in Understood(Current(t), asked[r])
          /\ IF understood
             THEN Done(t, IF Own(t) THEN "own" ELSE "other") /\ Keep(t, Current(t), asked[r])
             ELSE Done(t, "failed") /\ UNCHANGED readers
    /\ UNCHANGED <<tvars, in_step, left, job, result, asked>>

NoAnswer(t) ==
    /\ pc[t] = "exchange" /\ phase[t] = "idle" /\ answer[t] = {}
    /\ Done(t, "failed")
    /\ UNCHANGED <<tvars, in_step, left, job, result, asked, readers>>

(***************************************************************************)
(* The end of a stage.  initialize() gives up after a stage of which       *)
(* anything failed; the update loop leaves between two components when it  *)
(* is stopped; the others go on.                                           *)
(***************************************************************************)
\* Mutant of Failed: a reply that does not come is not counted.
FailedRefused(t) == \E k \in Kinds : outcome[t][k] = "refused"

Failed(t)    == \E k \in Kinds : outcome[t][k] \in {"failed", "refused"}
StageEnds(t) == pc[t] = "ready" /\ todo[t] # <<>> /\ Head(todo[t]) = <<>>

Return(t) ==
    /\ pc' = [pc EXCEPT ![t] = "idle"]
    /\ todo' = [todo EXCEPT ![t] = <<>>]
    /\ result' = [result EXCEPT ![t] = ~Failed(t)]
    /\ UNCHANGED <<tvars, in_step, left, job, outcome, asked, readers>>

\* Mutant of NextStage: initialize() goes on whatever failed.
NextStageAnyway(t) ==
    /\ StageEnds(t) /\ Tail(todo[t]) # <<>>
    /\ todo' = [todo EXCEPT ![t] = Tail(@)]
    /\ UNCHANGED <<tvars, in_step, left, job, pc, outcome, result, asked, readers>>

NextStage(t) ==
    /\ StageEnds(t) /\ Tail(todo[t]) # <<>>
    /\ ~(job[t] = "initialize" /\ Failed(t))
    /\ todo' = [todo EXCEPT ![t] = Tail(@)]
    /\ UNCHANGED <<tvars, in_step, left, job, pc, outcome, result, asked, readers>>

Finish(t)  == StageEnds(t) /\ Tail(todo[t]) = <<>> /\ Return(t)
Abandon(t) == StageEnds(t) /\ Tail(todo[t]) # <<>> /\ job[t] = "initialize" /\ Failed(t) /\ Return(t)
Stopped(t) == StageEnds(t) /\ Tail(todo[t]) # <<>> /\ job[t] = "update" /\ Return(t)

\* The link goes up and down; a reply that is lost is one that nobody takes.
Link == SetLink /\ UNCHANGED <<in_step, left, run, asked, readers>>

Work(t) ==
    \/ Refuse(t) \/ Ask(t) \/ Exchange(t) \/ Handle(t) \/ NoAnswer(t)
    \/ NextStage(t) \/ Finish(t) \/ Abandon(t) \/ Stopped(t)

Next == Link \/ \E t \in Threads : Call(t) \/ Work(t)

Spec == Init /\ [][Next]_vars

-----------------------------------------------------------------------------
Outcomes == {"unasked", "asked", "refused", "failed", "own", "other"}
Readings == Kinds \cup {Nothing}
Batches  == Seq(Seq(Kinds))

\* Every variable keeps its type.
TypeOK ==
    /\ up \in BOOLEAN /\ pending \subseteq Requests
    /\ phase \in [Threads -> {"idle", "asking", "awaiting"}]
    /\ calls \in [Threads -> 0..MaxCalls]
    /\ answer \in [Threads -> {{}} \cup {{r} : r \in Requests}]
    /\ in_step \in BOOLEAN /\ left \in [Threads -> SUBSET Methods]
    /\ job \in [Threads -> Methods \cup {"none"}] /\ todo \in [Threads -> Batches]
    /\ pc \in [Threads -> {"idle", "ready", "exchange"}]
    /\ outcome \in [Threads -> [Kinds -> Outcomes]] /\ result \in [Threads -> BOOLEAN]
    /\ asked \in [Requests -> Readings]
    /\ cached_status \in [Motors -> Readings]
    /\ {encoders, encoder_zero, imu, imu_zero} \subseteq Readings

\* Whatever the network does, the encoders' cache and zero come from encoder
\* replies and a motor's status from a reply of a motor: the parsers keep the late
\* replies of the others out (encoder_reader.cpp:79-88; motor_controller.cpp:219-233).
ReadingsSeparate ==
    /\ {encoders, encoder_zero} \subseteq {Encoders, Nothing}
    /\ \A i \in Motors : cached_status[i] \in MotorKinds \cup {Nothing}

\* In step, what is cached for a motor is that motor's, what is cached of the IMU
\* is an orientation, and so is its zero, although neither parser looks at whose
\* reply it is (motor_controller.cpp:264-272, protocol.cpp:486-490).
OwnReadings ==
    in_step => /\ \A i \in Motors :
                     cached_status[i] \in {[what |-> "status", motor |-> i], Nothing}
               /\ {imu, imu_zero} \subseteq {Imu, Nothing}

\* In step, a command method, initialize() or a calibration that returns true has
\* had every one of its requests answered by the glove, however many of them
\* there were (motor_controller.cpp:187-217; motor_controller.hpp:47 "true if all
\* motors initialized successfully"; glove_sdk.cpp:259-277).
AskedOf(t) == {k \in Kinds : outcome[t][k] # "unasked"}
Parts(m)   == CASE m = "initialize" -> {[what |-> c, motor |-> i] : c \in {"mode", "force"}, i \in Motors}
                                           \cup {Encoders, Imu}
                [] m = "calibrate"  -> {Encoders, Imu}
                [] OTHER            -> {}
Truthful ==
    \A t \in Threads :
        in_step /\ pc[t] = "idle" /\ result[t] /\ job[t] # "update"
            => \A k \in AskedOf(t) \cup Parts(job[t]) : outcome[t][k] = "own"

\* initialize() sends no motor a force before every motor's mode has got a reply,
\* and asks no sensor before every motor's force has (motor_controller.cpp:35-48,
\* glove_sdk.cpp:56-85).  In step the replies are those motors' own; out of step
\* any late reply passes for one, since a command looks at nothing in its reply.
Answered(t, what) ==
    \A i \in Motors :
        LET how == outcome[t][[what |-> what, motor |-> i]] IN
        how \in {"own", "other"} /\ (in_step => how = "own")
StagesInOrder ==
    \A t \in Threads :
        job[t] = "initialize" =>
            /\ (\E k \in AskedOf(t) : k.what = "force") => Answered(t, "mode")
            /\ AskedOf(t) \cap {Encoders, Imu} # {} => Answered(t, "force")

\* A batch leaves no motor out: a value out of range, a reply that does not come
\* or one that is not understood costs that motor only (motor_controller.cpp:187-217,
\* 264-272 "Update status for all motors"), and a calibration tries both sensors.
NoMotorLeftOut ==
    \A t \in Threads :
        pc[t] = "idle" =>
            /\ \A i, j \in Motors, c \in {"mode", "force", "position", "status"} :
                  job[t] \in {"initialize", "set_all", "update"}
                  /\ [what |-> c, motor |-> i] \in AskedOf(t) => [what |-> c, motor |-> j] \in AskedOf(t)
            /\ job[t] = "calibrate" => {Encoders, Imu} \subseteq AskedOf(t)
===============================================================================
