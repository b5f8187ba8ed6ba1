------------------------------ MODULE WireStream ------------------------------
(***************************************************************************)
(* A sender that writes sections value by value into a buffer it has used  *)
(* before, sends them behind one of the two headers, and a receiver with a *)
(* session.  The packet under way may be lost or arrive twice; what that   *)
(* does to the snapshots is the subject of SnapshotSession.                *)
(***************************************************************************)
EXTENDS WireFormat, TLC

CONSTANTS
  Absent,       (* no value (a model value)                                *)
  Builds,       (* [traps, fill, limits]: the build, the old bits of buffers,
                   and the receiver's wire::Limits                          *)
  Writes,       (* the values that bodies are made of, to choose           *)
  Ticks, SessionIds,
  BufferBytes,  (* the payload's buffer                                    *)
  MaxSection,   (* CodecLimits::max_section_bytes, the encoder's           *)
  Tags,         (* of the sections that are written                        *)
  MaxWrites,    (* bound: values in a packet                               *)
  MaxSections,  (* bound: sections in a packet                             *)
  MaxSent       (* bound: values in a packet that is sent, or in a session *)

(* What a body may be made of: values of the code's types, and codecs that *)
(* a schema may have.                                                      *)
Writable(v) ==
  CASE v.kind = "Field" ->
         /\ v.codec.kind \in {"Bool", "UInt", "SInt", "VarUInt", "VarSInt", "FixedPoint"}
         /\ ValidField(v.codec)
         /\ v.value \in IF v.codec.kind = "Bool" THEN {0, 1} ELSE Int
         /\ v.codec.kind = "FixedPoint" => {v.codec.min, v.codec.max} \subseteq I64Min .. I64Max
    [] v.kind = "Align" -> TRUE
    [] v.kind \in {"Id", "Count"} -> v.value \in 0 .. 2 ^ U32Bits - 1
    [] v.kind = "Byte"  -> v.value \in 0 .. 2 ^ ByteBits - 1
    [] v.kind = "Index" ->
         /\ v.bits \in Nat
         /\ v.value \in 0 .. 2 ^ U64Bits - 1
         /\ v.bits = 0 => v.value = 0
    [] OTHER -> FALSE

(* A payload and the body of a session init have a length that is a u32;   *)
(* and no writer is Absent.                                                *)
ASSUME WireAssumption ==
  /\ \A b \in Builds :
       /\ b.traps \in BOOLEAN
       /\ b.fill \in {0, 1}
       /\ b.limits \in [packet : Nat, sections : Nat, section : Nat]
  /\ \A v \in Writes : Writable(v)
  /\ Ticks \subseteq 0 .. 2 ^ U32Bits - 1
  /\ SessionIds \subseteq 0 .. 2 ^ U64Bits - 1
  /\ {BufferBytes, U64Bytes + 1} \subseteq 0 .. 2 ^ U32Bits - 1
  /\ MaxSection \in Nat
  /\ Tags \subseteq SectionTags
  /\ {MAGIC, VERSION, SchemaHash} \subseteq Nat
  /\ Absent \notin [buf : Seq({0, 1}), pos : Nat, grows : BOOLEAN]

VARIABLES
  build,
  sections,     (* what was written: <<tag, values>> of a closed section     *)
  payload,      (* and its bits                                            *)
  rest,         (* the buffer behind it                                    *)
  values,       (* what the open section holds                             *)
  writer,       (* and its writer, or Absent                               *)
  sender_last,  (* the sender's last_tick, or Absent before a session      *)
  session,      (* the receiver's SessionState, or Absent                  *)
  packet        (* the packet under way, or Absent                         *)

buffer == <<sections, payload, rest, values, writer>>
link == <<sender_last, session, packet>>
vars == <<build, buffer, link>>

limits == build.limits

Fresh(b) == [i \in 1 .. ByteBits * BufferBytes |-> b.fill]

Init ==
  /\ build \in Builds
  /\ sections = <<>> /\ payload = <<>> /\ rest = Fresh(build)
  /\ values = <<>> /\ writer = Absent
  /\ sender_last = Absent /\ session = Absent /\ packet = Absent

(* The encoder starts over, with a buffer of the same old contents. *)
Reset ==
  /\ sections' = <<>> /\ payload' = <<>> /\ rest' = Fresh(build)
  /\ values' = <<>> /\ writer' = Absent

-----------------------------------------------------------------------------
(* The values of bodies: fields, the ids and counts of the body writers,   *)
(* packed indices and alignment.                                           *)
WriteValue(traps, w, v) ==
  CASE v.kind = "Field" -> WriteField(traps, w, v.codec, v.value)
    [] v.kind = "Align" -> AlignToByte(w)
    [] v.kind = "Id"    -> WriteAligned(w, LittleEndian(v.value, U32Bytes))
    [] v.kind = "Byte"  -> WriteAligned(w, Bits(v.value, ByteBits))
    [] v.kind = "Count" -> WriteVaru32(w, v.value)
    [] v.kind = "Index" -> WriteBits(w, v.value, v.bits)

ReadValue(traps, r, v) ==
  CASE v.kind = "Field" -> ReadField(traps, r, v.codec)
    [] v.kind = "Align" -> SkipToByte(r)
    [] v.kind = "Id"    -> ReadAligned(r, U32Bytes)
    [] v.kind = "Byte"  -> ReadAligned(r, 1)
    [] v.kind = "Count" -> ReadVaru32(r)
    [] v.kind = "Index" -> ReadBits(r, v.bits)

Written == Len(values) + FoldLeft(LAMBDA n, s : n + Len(s[2]), 0, sections)

MayWrite == Written < IF sender_last = Absent THEN MaxWrites ELSE MaxSent

Open ==
  /\ packet = Absent
  /\ writer = Absent
  /\ Len(sections) < MaxSections
  /\ OpenSection(rest).ok
  /\ writer' = OpenSection(rest).val
  /\ UNCHANGED <<build, sections, payload, rest, values, link>>

AppendValue(v) ==
  /\ writer # Absent
  /\ MayWrite
  /\ WriteValue(build.traps, writer, v).ok
  /\ writer' = WriteValue(build.traps, writer, v).val
  /\ values' = Append(values, v)
  /\ UNCHANGED <<build, sections, payload, rest, link>>

(* The first error ends the encoding of the packet. *)
Refuse(v) ==
  /\ writer # Absent
  /\ MayWrite
  /\ ~WriteValue(build.traps, writer, v).ok
  /\ Reset
  /\ UNCHANGED <<build, link>>

(* Mutant: the body is left without its last alignment. *)
Closed_Unaligned(tag) == CloseSection(rest, tag, writer, MaxSection)

(* Every body ends aligned; then write_section does its part. *)
Closed(tag) == AndThen(AlignToByte(writer), LAMBDA w : CloseSection(rest, tag, w, MaxSection))

Close(tag) ==
  /\ writer # Absent
  /\ Closed(tag).ok
  /\ LET closed == Closed(tag).val IN
     /\ payload' = payload \o Slice(closed.out, 0, closed.used)
     /\ rest' = SubSeq(closed.out, ByteBits * closed.used + 1, Len(closed.out))
  /\ sections' = Append(sections, <<tag, values>>)
  /\ values' = <<>>
  /\ writer' = Absent
  /\ UNCHANGED <<build, link>>

CloseFails(tag) ==
  /\ writer # Absent
  /\ ~Closed(tag).ok
  /\ Reset
  /\ UNCHANGED <<build, link>>

(* An error of a body that is not about its bits, as an order or a mask.   *)
EncoderFails ==
  /\ sections # <<>> \/ writer # Absent
  /\ Reset
  /\ UNCHANGED <<build, link>>

-----------------------------------------------------------------------------
(* The packet: its bits, what it says, and the sender's last_tick when it  *)
(* was made.                                                               *)
Packet(form, flags, tick, baseline_tick, bits) ==
  [form |-> form, flags |-> flags, tick |-> tick, baseline_tick |-> baseline_tick,
   said |-> sections, last |-> sender_last, bits |-> bits]

Sendable ==
  /\ packet = Absent
  /\ writer = Absent
  /\ Written <= MaxSent

SendPacket(flags, tick, baseline_tick) ==
  /\ Sendable
  /\ flags = FullFlag => baseline_tick = 0
  /\ packet' = Packet("packet", flags, tick, baseline_tick,
                      EncodeHeader(PacketHeader(flags, tick, baseline_tick, Bytes(payload))) \o payload)
  /\ Reset
  /\ UNCHANGED <<build, sender_last, session>>

(* encode_delta_snapshot_for_client_session_with_scratch *)
SendCompact(tick, baseline_tick) ==
  /\ Sendable
  /\ sender_last # Absent
  /\ tick > sender_last
  /\ baseline_tick <= tick
  /\ packet' = Packet("compact", DeltaFlag, tick, baseline_tick,
                      EncodeSessionHeader(DeltaFlag, tick - sender_last, tick - baseline_tick,
                                          Bytes(payload)).val \o payload)
  /\ sender_last' = tick
  /\ Reset
  /\ UNCHANGED <<build, session>>

SendInit(tick, id) ==
  /\ packet = Absent
  /\ sections = <<>> /\ writer = Absent
  /\ packet' = Packet("init", InitFlag, tick, 0, SessionInitPacket(tick, id).val)
  /\ sender_last' = tick
  /\ UNCHANGED <<build, buffer, session>>

HeardInit == AndThen(DecodePacket(packet.bits, limits), LAMBDA p : DecodeSessionInit(p))

ReceiveInit ==
  /\ packet # Absent
  /\ packet.form = "init"
  /\ HeardInit.ok
  /\ session' = HeardInit.val
  /\ UNCHANGED <<build, buffer, sender_last, packet>>

ReceiveCompact ==
  /\ packet # Absent
  /\ packet.form = "compact"
  /\ session # Absent
  /\ LET heard == DecodeSessionPacket(packet.bits, session.last_tick, limits) IN
     /\ heard.ok
     /\ session' = [session EXCEPT !.last_tick = heard.val.header.tick]
  /\ UNCHANGED <<build, buffer, sender_last, packet>>

(* The packet is gone: lost, or received as often as it will be. *)
Gone ==
  /\ packet # Absent
  /\ packet' = Absent
  /\ UNCHANGED <<build, buffer, sender_last, session>>

Next ==
  \/ Open
  \/ \E v \in Writes : AppendValue(v) \/ Refuse(v)
  \/ \E tag \in Tags : Close(tag) \/ CloseFails(tag)
  \/ EncoderFails
  \/ \E tick \in Ticks : SendPacket(FullFlag, tick, 0)
  \/ \E tick \in Ticks : \E baseline \in {0, tick - 1, tick} :
       SendPacket(DeltaFlag, tick, baseline) \/ SendCompact(tick, baseline)
  \/ \E tick \in Ticks, id \in SessionIds : SendInit(tick, id)
  \/ ReceiveInit
  \/ ReceiveCompact
  \/ Gone

Spec == Init /\ [][Next]_vars

-----------------------------------------------------------------------------
(* Properties *)

(* The types; and the buffer keeps its size: what is written moves from    *)
(* the rest to the payload, and a writer stays inside its buffer.          *)
TypeOK ==
  /\ Len(payload) + Len(rest) = ByteBits * BufferBytes
  /\ writer # Absent => writer.pos \in 0 .. Len(writer.buf)
  /\ sender_last \in Ticks \cup {Absent}
  /\ session # Absent => session.last_tick \in 0 .. 2 ^ U32Bits - 1

(* The reader, asked for the kinds of values in the order they were        *)
(* written: the values it gives, or the error that stops it.               *)
ReadBack(data, kinds) ==
  FoldLeft(LAMBDA result, v :
             AndThen(result, LAMBDA s :
             AndThen(ReadValue(build.traps, s.reader, v), LAMBDA t :
             Ok([values |-> Append(s.values, t.value), reader |-> t.reader]))),
           Ok([values |-> <<>>, reader |-> NewReader(data)]), kinds)

ValueIn(v) == IF v.kind = "Align" THEN 0 ELSE v.value

(* decode_sint takes `1i64 << bits` from what was read: with one bit less  *)
(* than an i64 that is the least i64, and the difference leaves the i64 on *)
(* its way to a negative value (snapshot.rs:787).                          *)
Wide(v) ==
  /\ v.kind = "Field"
  /\ v.codec.kind = "SInt"
  /\ v.codec.bits = U64Bits - 1
  /\ v.value < 0

(* A body reads back as it was written, whatever the buffer held before:   *)
(* every field codec, at the edges of its range (snapshot.rs,              *)
(* write_field_value and read_field_value), in a release build without     *)
(* exception.  Nothing is said of a build with overflow checks and a Wide  *)
(* value: there the decoder panics, against "Decode never panics"          *)
(* (ARCHITECTURE.md:167).                                                  *)
BodyReadsBack ==
  writer # Absent /\ ~(build.traps /\ \E v \in Range(values) : Wide(v)) =>
    LET back == ReadBack(Finish(writer), values) IN
    back.ok /\ back.val.values = [i \in DOMAIN values |-> ValueIn(values[i])]

(* A body that lost its last byte is not read: the reader runs out of      *)
(* data, it does not make values up.                                       *)
TruncationIsNoticed ==
  writer # Absent /\ writer.pos > 0 =>
    ~ReadBack(Slice(writer.buf, 0, Bytes(Finish(writer)) - 1), values).ok

VecBody(vs) ==
  Finish(FoldLeft(LAMBDA w, v : WriteValue(build.traps, w, v).val, NewVecWriter, Append(vs, [kind |-> "Align"])))

(* The sections made in place, behind room for the longest prefix and in   *)
(* a dirty buffer, are byte for byte those that encode_section makes from  *)
(* a body of the growable writer (snapshot.rs:161 and packet.rs:188).      *)
InPlaceIsEncodeSection ==
  payload = FlattenSeq([i \in DOMAIN sections |-> EncodeSection(sections[i][1], VecBody(sections[i][2]))])

(* The three varint readers (bitstream, packet.rs and session.rs) make the *)
(* same of any bytes of a body: of a varint the number its groups denote   *)
(* and the byte behind it, and an error where none ends.  Nothing is said  *)
(* of numbers beyond a u32, which the readers cut down although "Overflow  *)
(* is invalid" (WIRE_FORMAT.md:87).                                        *)
VarintReadersAgree ==
  writer # Absent =>
    LET data == Finish(writer) IN
    \A offset \in 0 .. Bytes(data) :
      LET byBits == ReadVaru32([data |-> data, pos |-> ByteBits * offset])
          bySection == SectionVaru32(data, offset)
          bySession == SessionVaru32(data, offset)
          number == Total(Shifted(data, offset))
      IN IF Ends(data, offset) = {} THEN ~(byBits.ok \/ bySection.ok \/ bySession.ok)
         ELSE number < 2 ^ U32Bits =>
                /\ byBits.ok /\ byBits.val.value = number
                /\ bySection.ok /\ bySection.val.value = number
                /\ bySession = bySection
                /\ byBits.val.reader.pos = ByteBits * bySection.val.next

SameBodies(heard, said) ==
  /\ Len(heard) = Len(said)
  /\ \A i \in DOMAIN heard : heard[i].tag = said[i][1] /\ heard[i].body = VecBody(said[i][2])

(* What the receiver's limits, which are not the sender's, keep out.       *)
BeyondLimits ==
  \/ Len(packet.said) > limits.sections
  \/ packet.form # "compact" /\ Bytes(packet.bits) > limits.packet
  \/ \E i \in DOMAIN packet.said : Bytes(VecBody(packet.said[i][2])) > limits.section

(* "For delta snapshots, `baseline_delta` MUST be > 0" (WIRE_FORMAT.md:    *)
(* 197): the encoder and the decoder of a compact header let 0 pass.       *)
OutOfFormat == packet.form = "compact" /\ packet.baseline_tick = packet.tick

(* A session that has followed the sender so far.                          *)
InStep == session # Absent /\ session.last_tick = packet.last

(* What is sent behind either header is decoded to the same flags, ticks   *)
(* and sections, up to the last tick of a u32, by a session that has       *)
(* followed the sender.  Refused are a delta against tick 0, which the     *)
(* encoders make (packet.rs:92, wire/session.rs:147), and packets beyond   *)
(* the receiver's limits, whose defaults are lower than the encoder's      *)
(* (wire limits.rs:28, codec limits.rs:30).  Nothing is said of packets    *)
(* OutOfFormat.                                                            *)
PacketArrives ==
  packet # Absent /\ packet.form # "init" /\ (packet.form = "compact" => InStep) /\ ~OutOfFormat =>
    LET heard == IF packet.form = "compact"
                 THEN DecodeSessionPacket(packet.bits, session.last_tick, limits)
                 ELSE DecodePacket(packet.bits, limits)
    IN IF (packet.flags = DeltaFlag /\ packet.baseline_tick = 0) \/ BeyondLimits
       THEN ~heard.ok
       ELSE /\ heard.ok
            /\ <<heard.val.header.flags, heard.val.header.tick, heard.val.header.baseline_tick>>
                 = <<packet.flags, packet.tick, packet.baseline_tick>>
            /\ SameBodies(heard.val.sections, packet.said)

(* Only a session init takes the session back: under duplication and loss  *)
(* last_tick never wraps around at the end of the ticks (session.rs:120).  *)
SessionAdvances ==
  [][session' # session /\ packet.form = "compact" => session'.last_tick > session.last_tick]_session
=============================================================================
