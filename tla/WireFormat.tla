------------------------------ MODULE WireFormat ------------------------------
(***************************************************************************)
(* Sections, the two packet headers and the session (src/wire,             *)
(* src/codec/src/session.rs and write_section of src/codec/src/            *)
(* snapshot.rs), on the buffers of BitStream.                              *)
(*                                                                         *)
(* A section is [tag, body], a header the record of its fields.  limits    *)
(* are the decoder's [packet, sections, section], in bytes and sections.   *)
(***************************************************************************)
EXTENDS FieldCodec

CONSTANTS MAGIC, VERSION, SchemaHash

(* SectionTag::parse *)
SectionTags == 1 .. 6
SessionInitTag == 6

(* PacketFlags and SessionFlags: one bit each, and one of them set. *)
FullFlag == 1
DeltaFlag == 2
InitFlag == 4
ValidPacketFlags == {FullFlag, DeltaFlag, InitFlag}
ValidSessionFlags == {FullFlag, DeltaFlag}

Above(n, limit, error) == IF n > limit THEN error ELSE None

-----------------------------------------------------------------------------
(* A section, put together from a body that is there. *)
EncodeSection(tag, body) == Bits(tag, ByteBits) \o Varint(Bytes(body)) \o body

(* write_section: the body is written behind room for the longest prefix,  *)
(* and moved back to where its prefix ends.                                *)
PrefixRoom == 1 + VarintBytes

OpenSection(out) ==
  Checked(Above(PrefixRoom, Bytes(out), "OutputTooSmall"),
          NewWriter(SubSeq(out, ByteBits * PrefixRoom + 1, Len(out))))

(* copy_within, which may overlap *)
MoveBytes(out, from, n, to) == Overwrite(out, ByteBits * to, Slice(out, from, n))

SectionBytes(n) == 1 + VarintLen(n) + n

CloseSection(out, tag, w, maxSection) ==
  LET n == Bytes(Finish(w))
      written == SubSeq(out, 1, ByteBits * PrefixRoom) \o w.buf
      prefixed == Overwrite(written, 0, Bits(tag, ByteBits) \o Varint(n))
  IN Checked(Then(Above(n, maxSection, "SectionBytes"),
                  Above(SectionBytes(n), Bytes(out), "OutputTooSmall")),
             [out |-> MoveBytes(prefixed, PrefixRoom, n, SectionBytes(n) - n),
              used |-> SectionBytes(n)])

(* decode_sections *)
SectionError(payload, limits, offset, len) ==
  Then(Above(len.value, limits.section, "SectionLength"),
  Then(Above(len.next + len.value, Bytes(payload), "Truncated"),
       IF ByteAt(payload, offset) \notin SectionTags THEN "UnknownSectionTag" ELSE None))

(* The sections from an offset on, of which n were decoded. *)
DecodeSections(payload, limits) ==
  LET from[offset \in 0 .. Bytes(payload), n \in 0 .. limits.sections] ==
        IF offset = Bytes(payload) THEN Ok(<<>>)
        ELSE IF n = limits.sections THEN Err("SectionCount")
        ELSE AndThen(SectionVaru32(payload, offset + 1), LAMBDA len :
             AndThen(Checked(SectionError(payload, limits, offset, len),
                             [tag |-> ByteAt(payload, offset),
                              body |-> Slice(payload, len.next, len.value)]), LAMBDA section :
             AndThen(from[len.next + len.value, n + 1], LAMBDA others : Ok(<<section>> \o others))))
  IN from[0, 0]

-----------------------------------------------------------------------------
(* The header of fixed size: its fields, in order, in little-endian bytes. *)
HeaderLayout ==
  << <<"magic", U32Bytes>>, <<"version", U16Bytes>>, <<"flags", U16Bytes>>,
     <<"schema_hash", U64Bytes>>, <<"tick", U32Bytes>>, <<"baseline_tick", U32Bytes>>,
     <<"payload_len", U32Bytes>> >>

OffsetOf(k) == Total([i \in 1 .. k - 1 |-> HeaderLayout[i][2]])
HeaderSize == OffsetOf(Len(HeaderLayout) + 1)

PacketHeader(flags, tick, baseline_tick, payload_len) ==
  [magic |-> MAGIC, version |-> VERSION, flags |-> flags, schema_hash |-> SchemaHash,
   tick |-> tick, baseline_tick |-> baseline_tick, payload_len |-> payload_len]

EncodeHeader(h) ==
  FlattenSeq([k \in DOMAIN HeaderLayout |->
    LittleEndian(h[HeaderLayout[k][1]], HeaderLayout[k][2])])

HeaderField(buf, name) ==
  LET k == CHOOSE k \in DOMAIN HeaderLayout : HeaderLayout[k][1] = name
  IN FromLittleEndian(Slice(buf, OffsetOf(k), HeaderLayout[k][2]))

ReadHeader(buf) == [name \in {HeaderLayout[k][1] : k \in DOMAIN HeaderLayout} |-> HeaderField(buf, name)]

SizeError(buf, limits) ==
  IF Bytes(buf) < HeaderSize THEN "PacketTooSmall" ELSE Above(Bytes(buf), limits.packet, "PacketBytes")

HeaderError(h, payloadBytes) ==
  CASE h.magic # MAGIC -> "InvalidMagic"
    [] h.version # VERSION -> "UnsupportedVersion"
    [] h.flags \notin ValidPacketFlags -> "InvalidFlags"
    [] h.flags = FullFlag /\ h.baseline_tick # 0 -> "InvalidBaselineTick"
    [] h.flags = DeltaFlag /\ h.baseline_tick = 0 -> "InvalidBaselineTick"
    [] h.payload_len # payloadBytes -> "PayloadLengthMismatch"
    [] OTHER -> None

DecodePacket(buf, limits) ==
  AndThen(Checked(SizeError(buf, limits), ReadHeader(buf)), LAMBDA h :
  AndThen(Checked(HeaderError(h, Bytes(buf) - HeaderSize), h), LAMBDA header :
  AndThen(DecodeSections(Slice(buf, HeaderSize, Bytes(buf) - HeaderSize), limits), LAMBDA sections :
  Ok([header |-> header, sections |-> sections]))))

-----------------------------------------------------------------------------
(* The compact header: a byte of flags and three varints. *)
EncodeSessionHeader(flags, tick_delta, baseline_delta, payload_len) ==
  Checked(IF flags \notin ValidSessionFlags THEN "LengthOverflow" ELSE None,
          Bits(flags, ByteBits) \o Varint(tick_delta) \o Varint(baseline_delta) \o Varint(payload_len))

(* Mutant: the tick wraps. *)
NextTick_Wraps(last, delta) ==
  Checked(IF delta = 0 THEN "InvalidFlags" ELSE None, (last + delta) % 2 ^ U32Bits)

(* Mutant: the last tick is not one. *)
NextTick_Exclusive(last, delta) ==
  Checked(IF delta = 0 THEN "InvalidFlags" ELSE Above(last + delta, 2 ^ U32Bits - 2, "InvalidFlags"),
          last + delta)

(* checked_add *)
NextTick(last, delta) ==
  Checked(IF delta = 0 THEN "InvalidFlags" ELSE Above(last + delta, 2 ^ U32Bits - 1, "InvalidFlags"),
          last + delta)

BaselineError(flags, tick, delta) ==
  IF \/ delta > tick
     \/ flags = FullFlag /\ delta # 0
     \/ flags = DeltaFlag /\ delta = tick
  THEN "InvalidBaselineTick" ELSE None

DecodeSessionHeader(buf, last) ==
  AndThen(Checked(IF buf = <<>> THEN "PacketTooSmall"
                  ELSE IF ByteAt(buf, 0) \notin ValidSessionFlags THEN "InvalidFlags"
                  ELSE None, ByteAt(buf, 0)), LAMBDA flags :
  AndThen(SessionVaru32(buf, 1), LAMBDA t :
  AndThen(NextTick(last, t.value), LAMBDA tick :
  AndThen(SessionVaru32(buf, t.next), LAMBDA b :
  AndThen(Checked(BaselineError(flags, tick, b.value), tick - b.value), LAMBDA baseline_tick :
  AndThen(SessionVaru32(buf, b.next), LAMBDA p :
  Ok([flags |-> flags, tick |-> tick, baseline_tick |-> baseline_tick,
      payload_len |-> p.value, header_len |-> p.next])))))))

(* decode_session_packet, with the session's last_tick.  What follows the  *)
(* payload is not looked at.                                               *)
DecodeSessionPacket(buf, last, limits) ==
  AndThen(DecodeSessionHeader(buf, last), LAMBDA h :
  AndThen(Checked(Above(h.header_len + h.payload_len, Bytes(buf), "PayloadLengthMismatch"), h),
          LAMBDA header :
  AndThen(DecodeSections(Slice(buf, header.header_len, header.payload_len), limits), LAMBDA sections :
  Ok([header |-> PacketHeader(header.flags, header.tick, header.baseline_tick, header.payload_len),
      sections |-> sections]))))

-----------------------------------------------------------------------------
(* The session init packet: an id, 0 for none, and the mode.               *)
SessionV1 == 1

SessionInitBody(id) ==
  AndThen(WriteAligned(NewVecWriter, LittleEndian(id, U64Bytes)), LAMBDA w :
  AndThen(WriteAligned(w, LittleEndian(SessionV1, 1)), LAMBDA x : Ok(Finish(x))))

SessionInitPacket(tick, id) ==
  AndThen(SessionInitBody(id), LAMBDA body :
    Ok(EncodeHeader(PacketHeader(InitFlag, tick, 0, Bytes(EncodeSection(SessionInitTag, body))))
       \o EncodeSection(SessionInitTag, body)))

ModeError(mode) == IF mode # SessionV1 THEN "SessionUnsupportedMode" ELSE None
TrailingError(r) == IF Remaining(r) # 0 THEN "TrailingSectionData" ELSE None

DecodeSessionInitBody(body) ==
  AndThen(ReadAligned(NewReader(body), U64Bytes), LAMBDA id :
  AndThen(ReadAligned(id.reader, 1), LAMBDA mode :
  Checked(Then(TrailingError(mode.reader), ModeError(mode.value)), id.value)))

SessionInitError(packet) ==
  CASE packet.header.flags # InitFlag -> "SessionMissing"
    [] packet.header.baseline_tick # 0 -> "SessionInitInvalid"
    [] packet.header.schema_hash # SchemaHash -> "SchemaMismatch"
    [] \E s \in Range(packet.sections) : s.tag # SessionInitTag -> "UnexpectedSection"
    [] Len(packet.sections) # 1 -> "SessionInitInvalid"
    [] OTHER -> None

DecodeSessionInit(packet) ==
  AndThen(Checked(SessionInitError(packet), packet), LAMBDA p :
  AndThen(DecodeSessionInitBody(p.sections[1].body), LAMBDA id :
  Ok([session_id |-> id, last_tick |-> p.header.tick])))
=============================================================================
