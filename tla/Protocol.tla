------------------------------- MODULE Protocol -------------------------------
(***************************************************************************)
(* The codec (src/protocol.cpp): the frames the SDK sends, the frames the  *)
(* glove answers with (external), and what Packet::deserialize() and the   *)
(* three parsers make of the bytes that arrive.  A frame is a sequence of  *)
(* bytes; the behaviours take one frame at a time from one end to the      *)
(* other, where at most one byte is damaged or the end is cut off.         *)
(*                                                                         *)
(* std::optional is a set of at most one element; a float is the pair of   *)
(* its 16-bit halves; the time stamps of the readings are left out.        *)
(***************************************************************************)
EXTENDS Integers, Sequences, SequencesExt

CONSTANTS
    MotorIds,   \* motor numbers in requests and replies
    Modes,      \* motor modes requested
    Words,      \* 16-bit values requested
    Samples,    \* 16-bit values the glove measures
    Damages     \* what may be added to a byte on the way, modulo 256

Byte == 0..255
Word == 0..65535

ASSUME ProtocolAssumption ==
    /\ MotorIds \subseteq Byte /\ Modes \subseteq Byte
    /\ Words \subseteq Word /\ Samples \subseteq Word
    /\ Damages \subseteq 1..255

PACKET_HEADER == \hEE
PACKET_TAIL   == \h7E
MODULE_ID     == 1
TARGET_MOTOR   == 1
TARGET_ENCODER == 2
TARGET_IMU     == 3
MotorRequestHeader  == <<\h55, \hAA>>
MotorResponseHeader == <<\hAA, \h55>>
NUM_ENCODER_CHANNELS == 16

-----------------------------------------------------------------------------
(***************************************************************************)
(* Words in bytes.                                                         *)
(***************************************************************************)
uint16_le(v)   == <<v % 256, v \div 256>>
uint16_be(v)   == <<v \div 256, v % 256>>
\* Mutant of read_uint16_le: the bytes swapped.
read_uint16_swapped(s, i) == s[i] * 256 + s[i + 1]
read_uint16_le(s, i) == s[i] + 256 * s[i + 1]
read_uint16_be(s, i) == 256 * s[i] + s[i + 1]
read_float_be(s, i)  == <<read_uint16_be(s, i), read_uint16_be(s, i + 2)>>

(***************************************************************************)
(* Checksums and frames.                                                   *)
(***************************************************************************)
Total(s) == LET upto[i \in 0..Len(s)] == IF i = 0 THEN 0 ELSE upto[i - 1] + s[i]
            IN  upto[Len(s)]

\* Mutant of Checksum: the sum is not cut down to a byte.
ChecksumWide(data) == Total(SubSeq(data, 1, Len(data) - 2))

\* All bytes but the checksum and the tail.
Checksum(data) == Total(SubSeq(data, 1, Len(data) - 2)) % 256

\* All bytes but the inner header and the checksum.
MotorChecksum(inner) == Total(SubSeq(inner, 3, Len(inner) - 1)) % 256

Packets == [header : Byte, length : Byte, module_id : Byte, target : Byte, command : Byte,
            body : Seq(Byte), checksum : Byte, tail : Byte]

Serialize(p) == <<p.header, p.length, p.module_id, p.target, p.command>>
                    \o p.body \o <<p.checksum, p.tail>>

\* A packet as the encoders build it: the length counts target, command and
\* body, the checksum is computed last.
Encoded(target, command, body) ==
    LET p == [header |-> PACKET_HEADER, length |-> (2 + Len(body)) % 256,
              module_id |-> MODULE_ID, target |-> target, command |-> command,
              body |-> body, checksum |-> 0, tail |-> PACKET_TAIL]
    IN  [p EXCEPT !.checksum = Checksum(Serialize(p))]

\* The packet inside a motor packet, with its checksum in the last place.
MotorPacket(inner) == Append(inner, MotorChecksum(Append(inner, 0)))

(***************************************************************************)
(* The eight requests.                                                     *)
(***************************************************************************)
MotorRequest(command, inner) ==
    Encoded(TARGET_MOTOR, command, MotorPacket(MotorRequestHeader \o inner))

encode_read_motor_id(id)     == MotorRequest(\h10, <<4, id, \h31, \h16, 0, 1>>)
encode_read_motor_status(id) == MotorRequest(\h20, <<3, id, \h30, 0, 0>>)
encode_set_motor_mode(id, mode) ==
    MotorRequest(\h30, <<5, id, \h32, \h25, 0>> \o uint16_le(mode))
encode_set_motor_position(id, position) ==
    MotorRequest(\h31, <<5, id, \h32, \h29, 0>> \o uint16_le(position))
encode_set_motor_force(id, force) ==
    MotorRequest(\h33, <<5, id, \h32, \h27, 0>> \o uint16_le(force))

\* Mutant of encode_set_motor_speed: the two words in the other order.
encode_set_motor_speed_swapped(id, speed, target_position) ==
    MotorRequest(\h32, <<7, id, \h32, \h28, 0>> \o uint16_le(target_position)
                           \o uint16_le(speed))

encode_set_motor_speed(id, speed, target_position) ==
    MotorRequest(\h32, <<7, id, \h32, \h28, 0>> \o uint16_le(speed)
                           \o uint16_le(target_position))
encode_read_all_encoders == Encoded(TARGET_ENCODER, 0, <<\hFF, \hFF>>)
encode_read_imu          == Encoded(TARGET_IMU, 0, <<>>)

(***************************************************************************)
(* Packet::deserialize()                                                   *)
(***************************************************************************)
ImuMark     == <<PACKET_HEADER, \h11, 1, 2>>
EncoderMark == <<PACKET_HEADER, \h25, 1, 2>>

validate_checksum(p) == Checksum(Serialize(p)) = p.checksum

validate_motor_checksum(p) ==
    Len(p.body) >= 4 /\ SubSeq(p.body, 1, 2) \in {MotorRequestHeader, MotorResponseHeader}
        => MotorChecksum(p.body) = Last(p.body)

Fields(data) ==
    LET n == Len(data) IN
    [header |-> data[1], length |-> data[2], module_id |-> data[3],
     target |-> data[4], command |-> data[5], body |-> SubSeq(data, 6, n - 2),
     checksum |-> data[n - 1], tail |-> data[n]]

\* Mutants of Deserialize: the IMU's wrong length is not allowed for, or both
\* firmware workarounds skip the outer checksum.
DeserializeStrict(data) ==
    IF Len(data) < 7 THEN {} ELSE
    LET p       == Fields(data)
        imu     == SubSeq(data, 1, 4) = ImuMark
        encoder == SubSeq(data, 1, 4) = EncoderMark
    IN  {q \in {p} : /\ q.header = PACKET_HEADER /\ q.tail = PACKET_TAIL
                     /\ encoder \/ q.length + 5 = Len(data)
                     /\ imu \/ validate_checksum(q)
                     /\ validate_motor_checksum(q)}

DeserializeLenient(data) ==
    IF Len(data) < 7 THEN {} ELSE
    LET p      == Fields(data)
        marked == SubSeq(data, 1, 4) \in {ImuMark, EncoderMark}
    IN  {q \in {p} : /\ q.header = PACKET_HEADER /\ q.tail = PACKET_TAIL
                     /\ marked \/ q.length + 5 = Len(data)
                     /\ marked \/ validate_checksum(q)
                     /\ validate_motor_checksum(q)}

\* A frame that begins like a reply of the IMU or of the encoders need not have
\* the right length, and one like the IMU's need not have the right checksum.
Deserialize(data) ==
    IF Len(data) < 7 THEN {} ELSE
    LET p       == Fields(data)
        imu     == SubSeq(data, 1, 4) = ImuMark
        encoder == SubSeq(data, 1, 4) = EncoderMark
    IN  {q \in {p} : /\ q.header = PACKET_HEADER /\ q.tail = PACKET_TAIL
                     /\ imu \/ encoder \/ q.length + 5 = Len(data)
                     /\ imu \/ validate_checksum(q)
                     /\ validate_motor_checksum(q)}

(***************************************************************************)
(* The parsers.  The motor parser asks for 18 bytes and reads 19: the last *)
(* one may lie past the end, where any byte may be found.                  *)
(***************************************************************************)
Statuses == [motor_id : Byte, target_position : Word, actual_position : Word,
             actual_current : Word, force_value : Word, force_raw : Word,
             temperature : Byte, fault_code : Byte]
Channels == [1..NUM_ENCODER_CHANNELS -> Word]
Angles   == [roll : Word \X Word, pitch : Word \X Word, yaw : Word \X Word]

ByteAt(s, i) == IF i <= Len(s) THEN {s[i]} ELSE Byte

\* Mutant of parse_motor_status: like the IMU's, by the body's size alone.
parse_motor_status_by_size(p) ==
    IF p.module_id = MODULE_ID /\ Len(p.body) >= 18
    THEN {[motor_id        |-> p.body[4],
           target_position |-> read_uint16_le(p.body, 8),
           actual_position |-> read_uint16_le(p.body, 10),
           actual_current  |-> read_uint16_le(p.body, 12),
           force_value     |-> read_uint16_le(p.body, 14),
           force_raw       |-> read_uint16_le(p.body, 16),
           temperature     |-> p.body[18],
           fault_code      |-> fault] : fault \in ByteAt(p.body, 19)}
    ELSE {}

parse_motor_status(p) ==
    IF /\ p.module_id = MODULE_ID /\ p.target = TARGET_MOTOR
       /\ Len(p.body) >= 18 /\ SubSeq(p.body, 1, 2) = MotorResponseHeader
    THEN {[motor_id        |-> p.body[4],
           target_position |-> read_uint16_le(p.body, 8),
           actual_position |-> read_uint16_le(p.body, 10),
           actual_current  |-> read_uint16_le(p.body, 12),
           force_value     |-> read_uint16_le(p.body, 14),
           force_raw       |-> read_uint16_le(p.body, 16),
           temperature     |-> p.body[18],
           fault_code      |-> fault] : fault \in ByteAt(p.body, 19)}
    ELSE {}

\* Mutant of parse_encoder_data: three floats would do for sixteen channels.
parse_encoder_data_short(p) ==
    IF p.module_id = MODULE_ID /\ p.target = TARGET_ENCODER /\ Len(p.body) >= 12
    THEN {[i \in 1..(Len(p.body) \div 2) |-> read_uint16_be(p.body, 2 * i - 1)]} ELSE {}

parse_encoder_data(p) ==
    IF p.module_id = MODULE_ID /\ p.target = TARGET_ENCODER /\ Len(p.body) >= 32
    THEN {[i \in 1..NUM_ENCODER_CHANNELS |-> read_uint16_be(p.body, 2 * i - 1)]} ELSE {}

\* The target is not looked at.
parse_imu_data(p) ==
    IF p.module_id = MODULE_ID /\ Len(p.body) >= 12
    THEN {[roll  |-> read_float_be(p.body, 1),
           pitch |-> read_float_be(p.body, 5),
           yaw   |-> read_float_be(p.body, 9)]} ELSE {}

-----------------------------------------------------------------------------
(***************************************************************************)
(* The glove's replies (external), each with what it wants to say.  The    *)
(* motor status comes in the layout the parser expects and in the one the  *)
(* protocol document shows, which has no target and no command.            *)
(***************************************************************************)
Meaning(id, a, b) ==
    [motor_id |-> id, target_position |-> a, actual_position |-> b, actual_current |-> a,
     force_value |-> b, force_raw |-> a, temperature |-> 45, fault_code |-> 3]

MotorData(m) ==
    uint16_le(m.target_position) \o uint16_le(m.actual_position)
        \o uint16_le(m.actual_current) \o uint16_le(m.force_value)
        \o uint16_le(m.force_raw) \o <<m.temperature, m.fault_code>>

MotorInner(m, data) ==
    MotorPacket(MotorResponseHeader \o <<Len(data) + 3, m.motor_id, \h30, 0, 0>> \o data)

MotorReply(m) == Serialize(Encoded(TARGET_MOTOR, \h20, MotorInner(m, MotorData(m))))

\* Ten bytes of data, as the parser's comment counts them: no temperature and no
\* fault code.
ShortMotorReply(m) ==
    Serialize(Encoded(TARGET_MOTOR, \h20, MotorInner(m, SubSeq(MotorData(m), 1, 10))))

DocumentedMotorReply(m) ==
    LET f == <<PACKET_HEADER, \h14, MODULE_ID>> \o MotorInner(m, MotorData(m)) \o <<0, PACKET_TAIL>>
    IN  [f EXCEPT ![24] = Checksum(f)]

\* The firmware's length is three too large in both sensor replies.
EncoderReply(v) ==
    LET f == EncoderMark \o <<0>> \o FlattenSeq([i \in 1..16 |-> uint16_be(v[i])])
                 \o <<0, PACKET_TAIL>>
    IN  [f EXCEPT ![38] = Checksum(f)]

\* The IMU's checksum is a constant.
ImuReply(o) ==
    ImuMark \o <<0>> \o FlattenSeq([i \in 1..3 |-> LET x == <<o.roll, o.pitch, o.yaw>>[i] IN
                                                  uint16_be(x[1]) \o uint16_be(x[2])])
        \o <<\h3A, PACKET_TAIL>>

-----------------------------------------------------------------------------
VARIABLES
    sent,      \* the frame as it left: its kind, its bytes, what it means
    line,      \* the bytes as they arrive
    damage,    \* what happened to them: "none", "byte" or "cut"
    packet,    \* what Packet::deserialize() returned
    readings,  \* what each parser makes of that
    done       \* the frame has been decoded

vars == <<sent, line, damage, packet, readings, done>>

Requests ==
    {encode_read_all_encoders, encode_read_imu}
    \cup (UNION {{encode_read_motor_id(i), encode_read_motor_status(i)} : i \in MotorIds})
    \cup {encode_set_motor_mode(i, m) : i \in MotorIds, m \in Modes}
    \cup {encode_set_motor_position(i, w) : i \in MotorIds, w \in Words}
    \cup {encode_set_motor_force(i, w) : i \in MotorIds, w \in Words}
    \cup {encode_set_motor_speed(i, v, w) : i \in MotorIds, v \in Words, w \in Words}

MotorMeanings   == {Meaning(i, a, b) : i \in MotorIds, a \in Samples, b \in Samples}
EncoderMeanings == {[i \in 1..16 |-> IF i % 2 = 0 THEN a ELSE b] : a \in Samples, b \in Samples}
ImuMeanings     == {[roll |-> <<a, b>>, pitch |-> <<b, b>>, yaw |-> <<b, a>>] :
                        a \in Samples, b \in Samples}

Frame(kind, bytes, meaning) == [kind |-> kind, bytes |-> bytes, meaning |-> meaning]

Frames ==
    {Frame("request", Serialize(p), p) : p \in Requests}
    \cup {Frame("motor", MotorReply(m), m) : m \in MotorMeanings}
    \cup {Frame("short", ShortMotorReply(m), m) : m \in MotorMeanings}
    \cup {Frame("documented", DocumentedMotorReply(m), m) : m \in MotorMeanings}
    \cup {Frame("encoder", EncoderReply(v), v) : v \in EncoderMeanings}
    \cup {Frame("imu", ImuReply(o), o) : o \in ImuMeanings}

\* One of the results a call may have, as an optional.
AnyOf(results) == IF results = {} THEN {{}} ELSE {{r} : r \in results}

Nothing == [motor |-> {}, encoder |-> {}, imu |-> {}]

Init ==
    /\ sent \in Frames
    /\ line = sent.bytes
    /\ damage = "none"
    /\ packet = {} /\ readings = Nothing
    /\ done = FALSE

DamageByte ==
    /\ ~done /\ damage = "none"
    /\ \E i \in DOMAIN line, d \in Damages : line' = [line EXCEPT ![i] = (@ + d) % 256]
    /\ damage' = "byte"
    /\ UNCHANGED <<sent, packet, readings, done>>

Cut ==
    /\ ~done /\ damage = "none"
    /\ \E n \in 1..(Len(line) - 1) : line' = SubSeq(line, 1, n)
    /\ damage' = "cut"
    /\ UNCHANGED <<sent, packet, readings, done>>

\* UdpClient hands a packet to whichever component is listening, so every
\* parser may be the one that gets it.
Decode ==
    /\ ~done
    /\ packet' = Deserialize(line)
    /\ \E status \in AnyOf(UNION {parse_motor_status(p) : p \in packet'}) :
          readings' = [motor   |-> status,
                       encoder |-> UNION {parse_encoder_data(p) : p \in packet'},
                       imu     |-> UNION {parse_imu_data(p) : p \in packet'}]
    /\ done' = TRUE
    /\ UNCHANGED <<sent, line, damage>>

Next == DamageByte \/ Cut \/ Decode

Spec == Init /\ [][Next]_vars

-----------------------------------------------------------------------------
\* Bytes on the line, in the packet and in the readings are bytes, and words are
\* words: sums and lengths are cut down to eight bits.
TypeOK ==
    /\ sent \in Frames
    /\ line \in Seq(Byte)
    /\ damage \in {"none", "byte", "cut"} /\ done \in BOOLEAN
    /\ packet \subseteq Packets
    /\ readings \in [motor : SUBSET Statuses, encoder : SUBSET Channels, imu : SUBSET Angles]

\* The command, the motor, the register and the words that a motor finds in p,
\* little-endian, where the document's tables put them.
Finds(p, command, id, register, words) ==
    LET word(i) == p.body[i] + 256 * p.body[i + 1]
    IN  /\ p.command = command /\ p.body[4] = id /\ word(6) = register
        /\ \A k \in DOMAIN words : word(6 + 2 * k) = words[k]

\* A request decodes to the very packet that was encoded, and a motor finds in a
\* command what its caller asked for (protocol.cpp:15-115, 255-390,
\* test_protocol.cpp:17-57, docs/PROTOCOL.md:264-283, 330-349, 388-407, 445-468).
RoundTrip ==
    done /\ sent.kind = "request" /\ damage = "none"
        => /\ packet = {sent.meaning}
           /\ \A p \in packet, i \in MotorIds :
                 /\ \A m \in Modes : p = encode_set_motor_mode(i, m) => Finds(p, \h30, i, \h25, <<m>>)
                 /\ \A v, w \in Words :
                       /\ p = encode_set_motor_position(i, v) => Finds(p, \h31, i, \h29, <<v>>)
                       /\ p = encode_set_motor_force(i, v)    => Finds(p, \h33, i, \h27, <<v>>)
                       /\ p = encode_set_motor_speed(i, v, w) => Finds(p, \h32, i, \h28, <<v, w>>)

\* No frame with a damaged byte is taken for a packet, unless it arrives with
\* the IMU's mark, whose checksum the firmware leaves constant; and no frame
\* that was cut short gives the reading it was sent for, though a stretch of the
\* encoders' may have its checksum by chance, and then passes for an IMU's
\* (protocol.cpp:60-112, PROTOCOL.md:620-634).
DamageDetected ==
    /\ damage = "byte" /\ sent.kind # "imu" /\ packet # {} => SubSeq(line, 1, 4) = ImuMark
    /\ damage = "cut" => /\ readings.motor = {} /\ readings.encoder = {}
                         /\ sent.kind = "imu" => readings.imu = {}

\* A motor or encoder reading, from whatever arrived, is exactly what the glove
\* measured, up to the temperature and fault code of a reply that has none; an
\* IMU reading is, if its frame was not damaged (protocol.cpp:170-186, 432-504).
ReadingsFaithful ==
    /\ \A r \in readings.motor :
          LET known == IF sent.kind = "short" THEN DOMAIN r \ {"temperature", "fault_code"}
                                             ELSE DOMAIN r
          IN  \A f \in known : r[f] = sent.meaning[f]
    /\ readings.encoder # {} => readings.encoder = {sent.meaning}
    /\ sent.kind = "imu" /\ readings.imu # {} /\ damage = "none"
           => readings.imu = {sent.meaning}

\* The motor and the encoder parsers take no frame of another kind for theirs,
\* not even a damaged one (protocol.cpp:432-474).
NoCrossTalk ==
    /\ readings.motor   # {} => sent.kind \in {"motor", "short"}
    /\ readings.encoder # {} => sent.kind = "encoder"

\* Every undamaged reply in the layout the parsers expect is understood, the
\* firmware's wrong lengths and constant checksum notwithstanding, unless it is a
\* sensor's whose first value reads like the beginning of a motor packet
\* (protocol.cpp:60-112, 145-161).
RepliesUnderstood ==
    done /\ damage = "none"
        => /\ sent.kind = "motor" => readings.motor # {}
           /\ SubSeq(sent.bytes, 6, 7) \notin {MotorRequestHeader, MotorResponseHeader}
                => /\ sent.kind = "encoder" => readings.encoder # {}
                   /\ sent.kind = "imu"     => readings.imu # {}

\* Nothing that happens to a frame on its way makes the motor parser read past
\* the end of a body: only a reply that was sent without temperature and fault
\* code does (protocol.cpp:441, 456-459).
ReadsWithin ==
    \A p \in packet : parse_motor_status(p) # {} => Len(p.body) >= 19 \/ sent.kind = "short"
=============================================================================
