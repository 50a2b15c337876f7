# Verification of the Joyson glove SDK

TLA+ models of the C++ SDK in this repository (`src/`, `include/joyson_glove/`),
model-checked with TLC on small instances and proved with TLAPS where that is
possible. The models are written from the code; the documents and the unit tests
are read for what they promise. Paths below are relative to the repository.

## 1. The system

The SDK talks to a glove (six motors, sixteen encoder channels, one IMU) over one
UDP socket, request by request: a caller sends a frame and waits, at most
`receive_timeout`, for a frame to come back.

```
 application threads            update thread(s)
        |                              |
     GloveSDK  ------- owns -------  unified_update_loop
        |                              |
  MotorController   EncoderReader   ImuReader      caches + calibration
        \               |              /
         +-------- UdpClient ---------+            one socket, two mutexes
                        |  Packet::serialize / deserialize, ProtocolCodec
                     network, glove
```

| Component | State | Operations | Hard behaviour |
|---|---|---|---|
| **UdpClient** (`src/udp_client.cpp`) | `socket_fd_`, `connected_`, `send_mutex_`, `receive_mutex_`, statistics under `stats_mutex_` | `connect`, `disconnect`, `send_and_receive`, `receive_packet`, `send_packet`/`send_async`, `reset_statistics` | threads meet on two mutexes taken one after the other; replies lost, late, repeated, damaged; the set-up fails half way |
| **GloveSDK** (`src/glove_sdk.cpp`) | the four components, `initialized_`, `thread_running_`, `update_thread_`, `init_mutex_` | `initialize`, `shutdown`, `start`, `stop`, destructor, `unified_update_loop`, the API calls | flags read in one step and acted on in another; creation that fails; a join that waits for a loop; components freed under a user |
| **Protocol codec** (`src/protocol.cpp`) | none: pure functions on bytes | eight encoders, `serialize`, `deserialize`, two checksums, three parsers | eight-bit sums and lengths, two byte orders, workarounds for three firmware bugs |
| **MotorController** (`src/motor_controller.cpp`) | `cached_status_[6]` under `status_mutex_`, its own update thread | validation, `set_*`, `set_all_*`, `get_motor_status`, `update_once`, `initialize`, start and stop of the thread | the reply accepted for motor *i* may be another motor's; some of six commands fail |
| **EncoderReader** (`src/encoder_reader.cpp`) | raw cache and calibration under a mutex each, its own update thread | `read_encoders`, `calibrate_zero_point`, conversions, `update_once`, start and stop of the thread | a reading stored after a newer one; a reading and the zero it is converted with taken in two steps; a thread that cannot be created |
| **ImuReader** (`src/imu_reader.cpp`) | *calibrated* cache and calibration under a mutex each, its own update thread | `read_imu`, `calibrate_zero_orientation`, `update_once`, yaw arithmetic | a reading calibrated with the old zero is stored after a new calibration |

What makes each correct:

* **UdpClient**: nobody sends or receives on a socket that another thread has
  closed; no descriptor leaks; every exchange is counted once; every call
  returns; a reply is never invented, and belongs to the request just sent as
  long as replies are prompt and one thread exchanges.
* **GloveSDK**: `initialized_` means that all components exist; nobody is inside
  a component that has been freed; no call ends in `std::terminate`; there is
  one update thread at most, and it can be joined; an SDK that is down is at
  rest; every call returns.
* **Codec**: a request survives the round trip, and a command carries the motor,
  the register and the values where the document's tables have them; damage is
  noticed; a parser takes only its own component's frames, reports what was
  measured and does not read past a body's end.
* **ImuReader**: cache and calibration are touched by one thread at a time; a
  calibrated yaw is the turn from its zero, wrapped, and in [0, 360) unless the
  reading lies more than a turn below the zero; the cached orientation comes to agree with the
  calibration in force; every call returns.
* **EncoderReader**: as ImuReader, but the cache is raw: it comes to show where
  the hand is, and angles stay within one turn of the zero. The component's own
  thread is created and joined once, the running flag tells the truth about it,
  and it does not outlive the component.
* **MotorController**, and the methods of all three that talk to the glove: an
  encoder or motor reading comes from an encoder or motor reply whatever the
  network does; as long as replies are in step it is the very one that was
  polled; a method that returns true has had every request answered;
  `initialize()` sends and asks nothing before every motor has had a reply to the
  stage before; a batch leaves no motor out.

The hazards these properties are aimed at are listed, line by line, in
`PROJECT.json`.

## 2. The modules

| Module | What it is |
|---|---|
| `UdpClient` | the client, its threads, the kernel's socket and the network |
| `Transport` | the abstract specification: what UdpClient promises to the components above |
| `UdpTransport` | the refinement mapping from UdpClient to Transport |
| `MCUdpClient` | UdpClient and the mapping, for TLC |
| `UdpClientProofs` | inductive invariant and theorems |
| `UdpTransportProofs` | UdpClient implements Transport |
| `UdpExchangeProofs` | exchanges are counted once; replies stay in step, step by step |
| `GloveSDK` | life cycle, update loop, API calls |
| `MCGloveSDK` | the applications TLC tries |
| `GloveSDKProofs` | inductive invariants and theorems |
| `Protocol` | the codec on byte sequences, and frames travelling over a line that damages them |
| `MCProtocol` | its sample values |
| `ProtocolProofs` | sums and layouts of frames of any content, inductive invariant and theorems |
| `ImuReader` | the orientation's cache and calibration, their mutexes, the yaw arithmetic |
| `MCImuReader` | the IMU's sample values |
| `ImuReaderProofs` | inductive invariant and theorems |
| `UpdateThread` | start, stop, destructor and loop of a component's own thread |
| `EncoderReader` | EXTENDS it: raw cache, calibration, angles, the mutexes |
| `MCEncoderReader` | the callers and poses TLC tries |
| `EncoderReaderProofs` | inductive invariants and theorems, UpdateThread's included |
| `Polling` | EXTENDS `Transport`: the methods of the three components as sequences of exchanges |
| `MCPolling` | the applications TLC tries |
| `PollingProofs` | inductive invariants and theorems |

Conventions: `std::optional` is a set with at most one element, and so is the
owner of a mutex. One atomic step of a model is the code between two points at
which another thread can matter: a lock, a system call, the read or write of an
atomic. Operators named after a definition with a suffix and introduced by
"Mutant of" are wrong variants, used only to show that a property notices them.

### UdpClient

Each thread has a place `pc` in a method `op`. `LockSend` and `LockReceive` are
the `lock_guard`s; `connect()` and `disconnect()` take both mutexes, a send takes
the first, a receive the second, and `send_and_receive()` takes one after the
other with neither in between (lines 206-211). Under the locks the code is
followed call by call: `AlreadyConnected`, `OpenSocket`/`SocketFails`,
`Connected`/`SetupFails`, `CloseSocket`, `Disconnected`; `SendCheck`,
`Transmit`/`SendFails`, `SendStats`; `ReceiveCheck`,
`Receive`/`Expire`/`ReceiveFails`, `ReceiveStats`. `socket_fd_` and `connected_`
are written in separate steps, as in the code, so that a state in which they
disagree exists.

External: `wire` is the set of requests the glove may still answer, `queue` the
kernel's socket buffer. `Deliver` puts a reply into the buffer of whichever
socket is open (the local port is fixed), intact or not, once or again; `Lose`
drops it. Closing the socket empties the buffer. `Expires` is `SO_RCVTIMEO`: a
`recv()` gives up only if the buffer is empty and the glove is slower than the
timeout or did not get the request; a timeout of zero never expires.

The content of a frame is the request it answers and whether it is intact: what
`Packet::deserialize()` does with bytes is the business of `Protocol`.

### Transport

An exchange asks, waits, and takes *some* reply that is pending, or gives up.
It says on purpose nothing about whose reply it is: that is all the code
guarantees, and what the components above have to live with.

### GloveSDK

Clients call methods in any order an application allows (`Applications`). The
methods are split at `init_mutex_`, at every read and write of `initialized_` and
`thread_running_`, and at the creation, join and destruction of objects.
`initialize()` creates the four components in order, any of which may fail
(`BringUpFails`), and publishes; with `auto_start_thread` it goes on into
`start()` with the mutex held. `shutdown()` and the destructor go through
`stop()`, retract `initialized_`, and free the components one by one in reverse.
The update loop reads `thread_running_` before every component, finds the
component's pointer, and uses it. `Terminates` names the client states in which
the C++ program would end in `std::terminate`.

### Protocol

Frames are sequences of bytes. The eight encoders, `serialize`, `deserialize`
with its two exceptions, both checksums and the parsers are operators; the
behaviours send one frame (any request, or a reply as the glove builds it),
change one byte of it or cut its end, and decode what arrives with every parser,
since UdpClient hands a frame to whoever is listening. The motor parser reads a
nineteenth byte of a body it only requires to have eighteen; the model lets it
be any byte. The glove's replies are external: the encoders' and the IMU's with
the firmware bugs the code works around, the motor status once in the layout the
parser and `tests/test_protocol.cpp` use, once with the ten bytes of data the
parser's comment counts, and once in the layout of `docs/PROTOCOL.md`.

### ImuReader

`Updaters` run `update_once()` for ever (GloveSDK's loop, or the reader's own);
`Callers` call the other methods. `read_imu`/`ReadFails` is the exchange, with
no mutex held; then `update_once()` calibrates under one mutex (`Apply`) and
stores under the other (`Store`), `initialize()` does the same with the cache's
mutex held throughout, and `calibrate_zero_orientation()` takes both at once
(`LockBoth`, `std::scoped_lock`) for the new zero and the cache (`SetZero`).
The yaw stands for the orientation, because roll and pitch differ from it only in
not being wrapped; the model keeps the raw yaw and the calibration it was computed
under beside the calibrated one, which the code does not, so that the properties
can say which zero was used. A reading is whatever `parse_imu_data()` makes of the
packet, and nobody checks it: a damaged IMU frame or another component's late reply
is an orientation like any other (`Protocol`, `Polling`), and `set_calibration()`
takes any offset. So `RawYaws` and `Offsets` are any integers.

### UpdateThread and EncoderReader

`UpdateThread` is what EncoderReader, ImuReader and MotorController share, by
being written alike: `StartCheck`, `StartFlag`, `Spawn`/`SpawnFails` follow
`start_update_thread()`, which unlike GloveSDK's resets the flag when the thread
cannot be created; `StopCheck`, `StopFlag`, `Joinable`, `Join` follow
`stop_update_thread()`, which is also all the destructor does; `LoopCheck` is the
loop's condition. A loop's identity can be used again once it has been joined.
The steps that would end in `std::terminate` (`Terminates`) are not taken; that
no state is reached in which one comes next is `NoTerminate`.

`EncoderReader` adds the component: `Read`/`ReadFails` is the exchange, with no
mutex held, `Store` the end of `update_once()` and of `initialize()`, `SetZero`
the calibration under both mutexes, and `get_cached_angles()` copies the reading
under one (`get_cached_data`) and takes the calibration under the other in a
later step. The hand `Move`s at any time. One channel stands for sixteen, and
angles are counted in ADC steps, 65536 to a turn, since the conversions are
linear. The age of a reading is left out.

### Polling

What the three components and GloveSDK do with the client: a method is a list of
stages, each a list of requests (`Plans`), and a request is validated (`Refuse`),
asked (`Ask`), exchanged (`Exchange`, steps of `Transport`), and its reply parsed
(`Understood`) and stored (`Handle`, `Keep`), or it fails (`NoAnswer`).
`initialize()` gives up after a stage of which anything failed (`Abandon`); the
update loop may be stopped between two components (`Stopped`); the others go on.
The value of a reading is the request it answers. `Understood` is what the
parsers can tell apart: a command's reply is not looked at at all; the motor
parser takes any motor's status (and a command's reply if it is long enough); the
encoder parser takes nothing else; the IMU parser takes an encoder frame, too.

An instance is `in_step` if replies answer the request just sent, which is what
`RepliesMatch` establishes for one thread and a prompt glove (`InStepReplies`);
otherwise a reply may be anything `Transport` lets through.

## 3. What TLC checks

| Run | Question | Result |
|---|---|---|
| `udp_contention` | two threads that connect, disconnect and exchange, with loss, duplicates, damage, late replies, failing set-up and failing `recv()`: `SocketStable`, `NoDescriptorLeak`, `ExchangesCounted`, the refinement `TransportSpec`, and `CallsReturn` | holds |
| `udp_single` | one thread, a prompt glove, any loss or damage: `RepliesMatch` | holds |
| `udp_two_threads` | the same with two threads and a perfect network | violated: replies are swapped |
| `sdk_lifecycle` | an owner thread that calls everything, or two threads that initialize and shut down: `PartsBacked`, `NoUseAfterFree`, `NoTerminate`, `NoOrphanLoop`, `QuietWhenDown`, `CallsReturn` | holds |
| `sdk_use_and_shutdown` | API calls on one thread, shutdown on another: `NoUseAfterFree` | violated |
| `sdk_concurrent_start` | two threads call `start()`, one of them perhaps from `initialize()`: `NoTerminate` | violated: the second assigns over a thread that can be joined |
| `sdk_failed_start` | `is_running()` tells whether the update thread runs, also when it could not be created | violated |
| `codec` | every request and reply, whole, cut or with any byte changed: `RoundTrip`, `DamageDetected`, `ReadingsFaithful`, `NoCrossTalk`, `RepliesUnderstood`, `ReadsWithin` | holds |
| `imu_calibration` | an update loop and two callers of all other methods: `NoDataRace`, `YawWrapped`, `StaleZeroHeals`, `CallsReturn` | holds |
| `encoder_reader` | an owner that initializes, starts, stops, calibrates and destroys, a user that calibrates and asks for angles, a thread that may not start: `NoDataRace`, `AnglesBounded`, `NoTerminate`, `FlagMeansThread`, `NoOrphanLoop`, `CacheCatchesUp`, `CallsReturn` | holds |
| `polling` | every method in step, and initialization, updates, calibration and queries out of step: `ReadingsSeparate`, `OwnReadings`, `Truthful`, `StagesInOrder`, `NoMotorLeftOut` | holds |
| `imu_stale_zero` | after a calibration the cache reflects the new zero, as the comments in `calibrate_zero_orientation()` say | violated: an update stores what it computed with the old zero; `StaleZeroHeals` says the next update repairs it |

The violated properties are quoted from the documents and comments; where they
stand and what the code does instead is under `findings` in `PROJECT.json`.
Other disagreements have no run of their own.

* `docs/PROTOCOL.md:630-634` has a frame with a wrong header, tail or length counted
  in `receive_errors`; `CounterFor` shows that it is counted in `checksum_errors`
  like any other.
* `docs/PROTOCOL.md` contradicts itself about the requests. The encoders build what its
  chapters on the commands print (:171, :256, :322, :380, :438, :500) and put every field
  where their tables have it, which is what `RoundTrip` checks. The examples further
  down print other frames for the same requests, which no encoder builds: for set
  position (1, 1000) `EE 0A 01 01 31 55 AA 03 01 29 E8 03 18 5A 7E` (:666), for read status
  (1) `EE 07 01 01 00 55 AA 00 01 01 F8 7E` (:672, :714).
* `docs/PROTOCOL.md:228-251` prints the motor status reply with 25 bytes, without target
  and command, and the parser's comment counts 25, too (`protocol.cpp:431`). The parser
  wants both bytes and refuses that layout (`parse_motor_status` of
  `DocumentedMotorReply`, which is among the frames of `codec`: `NoCrossTalk` has no
  motor reading come from it). The reply printed at :673 has a third layout, whose
  body of 13 bytes is too short for the parser.
* `imu_reader.cpp:199` says "Wrap yaw to [0, 360)". One turn is added before `fmod`, whose
  result takes the sign of its argument, so a reading more than one turn below the zero
  gives a negative yaw: a zero or a reading from a damaged frame, from a late reply of
  another component, or from a caller of `set_calibration()`. Once a
  calibration has taken far too large a reading for its zero, ordinary yaws stay
  negative until the next calibration. `YawWrapped` says exactly when.
* `docs/API_REFERENCE.md:250` and `:624` give angles in [0, 360]; below the zero they are
  negative (`Angle`).
* `encoder_reader.cpp:148` says that the calibration is applied again to the cached data;
  that cache is raw, and it is simply replaced. And `calibrate_zero_point()` resets
  the scale factors of an earlier `set_calibration()`, which no document mentions.
* A sensor's reply whose first two bytes are those of a motor packet's header (a first
  encoder channel that reads 0x55AA or 0xAA55) has its last byte compared with a motor
  checksum it does not have, and is dropped as damaged, because
  `validate_motor_checksum()` looks at the body and not at the target
  (`protocol.cpp:145-161`). `RepliesUnderstood` makes exactly this exception, and
  `EncoderReplyLost` proves that it is one. To the modules above the codec such a
  reply is one that arrived damaged, or did not arrive.

Two races of GloveSDK that `NoTerminate` would notice are kept out of `sdk_lifecycle` by
the rule its applications follow (section 4, `Orderly`): two threads in `stop()`, and a
`start()` beside a `shutdown()`. `sdk_concurrent_start` breaks that rule with two `start()`s
and shows what it is for. Out of step, what the code allows is not a property: a reply
that is one behind is cached for the wrong motor, and a late reply becomes an
orientation or passes for the answer to a command. `OwnReadings`, `Truthful` and the
sharper half of `StagesInOrder` therefore speak of instances in step.

**Bounds.** *Threads*: two, because every race found or excluded here is between
two holders of the two mutexes or of one flag; a third would only queue behind
them (the proofs below do not bound their number). *Calls* (`MaxCalls`): two per
thread in `udp_contention` (a connection and an exchange, or two exchanges after
the other thread's connection, so that a late reply meets the next exchange), six
in `udp_single` (connect, several exchanges with failures, reconnect, exchange),
five in `sdk_lifecycle` (initialize, start, stop, shutdown, and once more, or the
destructor). *Buffer* (`MaxQueue`): two datagrams, one more than an exchange
takes. *Delays*: only their order matters; 20 < 100 is a prompt glove, 150 > 100
a late one. *Loops*: two identities in the runs of
GloveSDK, one more than may live at a time; one in `encoder_reader`, used again after
each join, where the theorem `NoOrphans` covers any number. *Codec*:
damage is exhaustive (255 changes of every byte, every cut); the words requested are
some the document uses, the samples have two different bytes each and
include the tail byte, so that swapped bytes, lost high bytes and a false tail
would be noticed, and 0x55AA, with which a sensor's body begins like a motor packet
(the proofs below do not bound the samples). *IMU*: one call per caller, since a second one only repeats a
race with the loop, which never ends; yaws of 10 and
1000 degrees and an offset of 350, so that a difference wraps from below, from above by
more than one turn, and lies more than one turn below the zero. *Encoders*: three calls for the owner
(initialize, stop, and start or destroy), one for the user, poses at both ends of
the scale, one movement of the hand. *Polling*: two motors, the fewest of which
one can fail, come first, or be mistaken for the other; six exchanges, what
`initialize()` needs for them, or an update followed by a calibration.

`CHECK_DEADLOCK FALSE`, except for `ImuReader`, where a loop never ends: when every
thread has used up its calls, or the frame has been decoded, nothing is left to
do. That nobody is stuck inside a call is `CallsReturn`.

**Fairness.** In `UdpClient` a thread inside a call keeps running:
`WF_vars(Proceed(t))`, where `Proceed` holds the steps that do not fail. No
failure is assumed to happen, nobody has to call, and the glove and the network
need not answer; if they do not, it is the timeout that ends the call. Weak
fairness is enough because, with the threads making finitely many calls, a mutex
that is waited for stays free once its last owner has gone. In `GloveSDK` clients inside a call and update
threads keep running; that `update_once()` returns is what `CallsReturn` shows
of the client below it. Both rest on the operating system's scheduling of
runnable threads and, for the client, on `SO_RCVTIMEO` being set to a non-zero
value (`ReceiveTimeout > 0`, the default configuration). In `ImuReader` the loop
never ends, so a mutex is free only again and again, and waiting for one needs
strong fairness (`SF_vars(Acquire(t))`); the code supports it in that the loops
release their mutexes before an exchange and before they sleep. `StaleZeroHeals`
is conditional on updates that go on succeeding. `EncoderReader` assumes the
same, for its own loop; `CacheCatchesUp` is conditional on that loop's updates
going on to be stored. `Polling` states no fairness: that an exchange ends is
`CallsReturn` of the client, and a method is a finite sequence of them.

## 4. What is proved

All theorems hold for every value of the constants allowed by the `ASSUME`s
(which only give their types): any number of threads, calls, loops, any faults.

**`UdpClientProofs`**: `TypeCorrect`, `SocketSafety` (`SocketStable`),
`DescriptorSafety` (`NoDescriptorLeak`). The invariant is
`IInv == TypeOK /\ CallInv /\ MutexInv /\ SocketInv`. `SocketStable` alone is not
inductive: that nobody closes the socket under a receiver follows from the mutexes,
so `MutexInv` says which places in the code lie under which mutex, and that the
recorded owner is the thread at that place. `SocketInv` says that `connected_` and
`socket_fd_` agree except in the two places between the two assignments, which
is what makes the check of `connected_` a check of the descriptor. `CallInv` is
needed for types only: a thread inside a call has numbered it.

**`UdpTransportProofs`**: `Refinement` (`TransportSpec`), step by step under the
mapping of `UdpTransport`: every step of the client is the step of Transport it
looks like, or shows nothing. Besides `IInv` it needs `AnswerInv`: a call has no
answer before it has taken one from the buffer, so that an exchange begins and
waits with an empty answer, as Transport's does. What is pending is what is on
the wire or lies intact in the buffer; the lemmas about the buffer say how that
set changes when a reply is appended, taken, or thrown away with its socket.

**`UdpExchangeProofs`**: `Counting` (`ExchangesCounted`) for threads that only
exchange, connect and disconnect (`ExchangesOnly`), any number of them: the
invariant adds to which method a place belongs (`PlaceInv`), and each step adds
one thread to `Waiting`, takes one out, or leaves the set and the counters alone.
`InStepReplies` (`RepliesMatch`) under `InStep`: one thread, a reply sooner than
the timeout, no repeated reply and no failing `recv()`. The invariant says where
the reply to the current request is (still to come, alone in the buffer, or
lost) and that nothing else is anywhere; a timeout that comes while the reply is
still to come would leave it behind for the next exchange, which is why the delay
matters.

**`GloveSDKProofs`**: `TypeCorrect` and `PartsSafety` (`PartsBacked`) for any
application; the invariant adds to the types which method a place belongs to,
which places lie under `init_mutex_`, and how far creation or destruction has come
(`PartsInv`). The other properties are false of an arbitrary application: two
concurrent `start()`s do end in `std::terminate`. They are proved under the
assumption `Orderly` on the constant `Applications`: either nobody calls `start()`,
`stop()` or the destructor directly, or the SDK belongs to one thread.
`OrderlyNoTerminate`, `OrderlyNoOrphan`, `OrderlyQuiet` and `OrderlyLoops` (the
update loop never uses a component that has been freed) follow from a second
invariant, `OInv`, that describes who may touch `update_thread_`. This is the rule
an application has to follow, and both applications of `sdk_lifecycle` follow it.
`OrderlyUse` (`NoUseAfterFree`) needs a second rule, `NoShutdownBesideUse`: API
calls on any number of threads, none of them beside a `shutdown()` or destructor
on another. The run `sdk_use_and_shutdown` breaks exactly this rule.

**`ProtocolProofs`**: every property of the run `codec`, for any words, any
measurement, any change of any byte and any cut: `CodecTypeOK`, `CodecRoundTrip`,
`CodecDamageDetected`, `CodecReadingsFaithful`, `CodecNoCrossTalk`,
`CodecRepliesUnderstood`, `CodecReadsWithin`. The checksums are totals over frames of any
length and the sensors' replies are flattened sequences of words, both recursive, so
the module first gets hold of recursion: `LeastNumber` and `Induction` state induction
as a fact about a set of numbers, and from it come what a total is of a sequence with
an element more, of two sequences joined, and of one with an element changed
(`WordsSurvive` is the arithmetic of one word). Then the lemmas go from bodies to
packets and frames (lengths, where each field lies, which checksums are right), to
what `Deserialize` makes of a frame that is whole, changed or cut. The properties
speak of what arrived, so they are not inductive: `CodecInvariant` is
`IInv == FrameTypes /\ LineInv /\ DecodeInv`, where `FrameTypes` types the frame and the
line, `LineInv` says that the line holds the
frame that was sent but for the one damage it suffered, and `DecodeInv` that packet
and readings are what the decoder and the parsers make of that line; that packet and readings have
their types (the rest of `TypeOK`) follows from these, by what the decoder accepts and
what each parser reads. That a changed
byte is noticed rests on its changing the total by less than 256; that a cut
encoder frame may still pass for an IMU's, whose checksum the code has to ignore, is
the exception that `DamageDetected` makes. `EncoderReplyLost` is the one described in
section 3: of two measurements that begin with 0x55AA and differ in the low byte of
their last channel at least one is refused.

**`ImuReaderProofs`**: `TypeCorrect`, `RaceFreedom` (`NoDataRace`), `YawSafety`
(`YawWrapped`), for any number of loops and callers, any readings and any offsets.
`MutexInv` says which places lie under which mutex, where `initialize()` is the
exception that waits for one with the other held. `YawInv` says that whatever is
carried or cached is a raw yaw and what the arithmetic makes of it under the
calibration kept beside it; lemma `Wraps` is that arithmetic: the result differs from
the turn by whole turns, and is not negative if the turn is at least -360.
`DeadlockFreedom`: see below.

**`EncoderReaderProofs`**: `TypeCorrect`, `RaceFreedom` (`NoDataRace`) and
`AngleSafety` (`AnglesBounded`) for any number of callers, loops and calls, by an
invariant like ImuReader's. `NoTermination`, `FlagTruth` and `NoOrphans`
(`NoTerminate`, `FlagMeansThread`, `NoOrphanLoop`) need a rule, as for GloveSDK:
`Orderly` says that in every application at most one caller initializes, starts,
stops or destroys. The invariant behind them relates the manager's place to the
flag and to `update_thread`: while nobody is between flag and thread they agree,
and in between only the manager is, so nothing can come in between.

**`PollingProofs`**: `TypeCorrect`, `Separation` (`ReadingsSeparate`) and
`OwnReadingsOnly` (`OwnReadings`), for any number of motors, threads and
exchanges. The first needs, besides types, only that the parsers refuse what they
refuse; the second, that in step what a thread holds as its answer is what it
asked, up to the moment it is stored. `TrueIsTrue` (`Truthful`), `Staging`
(`StagesInOrder`) and `WholeBatch` (`NoMotorLeftOut`) follow from one invariant
about a method on its way through its stages, `BatchInv`: what a stage has asked
and what it will ask (`Covered`) changes only from stage to stage, so a batch that
began with all motors ends with all of them; nothing is left "asked" at the end
of a stage, so in a stage of `initialize()` that is not given up every request has had a reply
(`Replied`; `OrderAt` counts the stages from the last), and in step no reply is
another's; and what is asked and what is due
together are the parts of the method, unless it gives up and returns false.

How this rests on the client: `Polling` is written over `Transport`, its actions are
Transport's with conjuncts of their own, so that it takes no other steps holds by
construction and is not a theorem. UdpClient is proved to implement Transport
(`Refinement`), and in step `InStepTakes` (`UdpExchangeProofs`), the action property that a
step gives an exchange no reply but its own, is the guard that Polling's `Exchange`
puts on Transport's `Take`. The converse, that Polling allows everything the methods on
top of the client may do, is by reading: out of step `Exchange` takes any reply
Transport has pending, gives up at any time, and `Link` is unrestricted. It would take
the composition of both modules to prove (section 6).

**Nobody waits in a circle** (`DeadlockFreedom`, in `UdpClientProofs`,
`GloveSDKProofs`, `ImuReaderProofs` and `EncoderReaderProofs`): the half of `CallsReturn` that
is a safety property, for any number of threads. `NoDeadlock` says that whenever
somebody is `Blocked`, on a mutex or in `join()`, somebody he waits for can go on. It
needs, besides the invariants above, the converse of `MutexInv`: `OwnerInv`, a mutex
that is held is held by a thread at a place under it, never by one that has left. In
UdpClient it follows that connect() and disconnect(), which wait for the receive
mutex with the send mutex held, wait for a receiver that waits for the kernel
alone. In GloveSDK and EncoderReader, where `shutdown()` and
`stop_update_thread()` join a loop, the invariants behind `Orderly` say further that
whoever is in `join()` has taken the running flag down before, and that the loop it
waits for exists and has not been joined by another; so these two theorems assume
`Orderly`. What is left to fairness is that those who
can go on do, which TLC checks.

**Only model-checked**: liveness (`CallsReturn`, `StaleZeroHeals`, `CacheCatchesUp`),
which the prover does not reach. Every invariant and the refinement that the passing runs
check are theorems.

## 5. What is not modelled

* UdpClient's move constructor and assignment (no code of the SDK uses them) and a
  lone `send_packet()`/`send_async()`.
* The getters of a cache that only copy it under its mutex (`get_cached_status()`,
  `get_all_cached_status()`), and MotorController's `status_mutex_`, which is held
  for one assignment or one copy at a time.
* The warnings the loops print after failed reads; scale factors other than 1.
* GloveSDK's component accessors (`motor_controller()`, `encoder_reader()`, `imu_reader()`,
  `udp_client()`, `glove_sdk.hpp:88-121`): they change nothing and return a reference
  without the check of `initialized_`, with an assert on the pointer only. What an
  application does with a reference it keeps, also after `shutdown()`, is not modelled.
* In GloveSDK the components are objects that exist, are used, and are freed; what
  they do inside is in the modules above.
* Console output, time stamps and data ages, floating-point values (bit patterns in
  `Protocol`, whole degrees in `ImuReader`, so no rounding and no NaN), the sleeping of
  the loops.
* Examples, tests, build files and scripts: they keep no state of the system.

## 6. Plan

Done: `UdpClient`, `Transport`, `GloveSDK`, `Protocol`, `ImuReader`,
`UpdateThread` with `EncoderReader`, `Polling`, and their proofs; every safety
property that the runs check of them is a theorem. Left:

1. MotorController's own thread in a run of its own, with `status_mutex_`: the
   same `UpdateThread`, with a cache that nothing else is read together with.
2. The composition of `UdpClient` with `Polling` in one state space, instead of by
   way of `Transport` and the theorems `Refinement` and `InStepTakes`: that the client's
   exchanges under the methods are behaviours of `Polling`.
3. Steps towards `StaleZeroHeals` and `CacheCatchesUp`: as action properties, what one
   update that is not overtaken does to the cache.
