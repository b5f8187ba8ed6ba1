------------------------------ MODULE BitStream ------------------------------
(***************************************************************************)
(* The writers and the reader of src/bitstream and the varints of the      *)
(* wire, on buffers that are sequences of bits, each byte with its most    *)
(* significant bit first.                                                  *)
(*                                                                         *)
(* The widths are constants: TLC takes bytes of a few bits, with varints   *)
(* of enough bytes for a u32, as in the code (5 groups of 7 bits for 32).  *)
(* A write that fails may have moved the position of its writer, as a      *)
(* varint that does not fit does: every caller then drops the writer.      *)
(***************************************************************************)
EXTENDS Results, SequencesExt

CONSTANTS
  ByteBits,                        (* 8                                      *)
  U16Bytes, U32Bytes, U64Bytes,    (* 2, 4, 8                                *)
  VarintBytes                      (* 5                                      *)

GroupBits == ByteBits - 1
U32Bits == ByteBits * U32Bytes
U64Bits == ByteBits * U64Bytes

ASSUME WidthAssumption ==
  /\ ByteBits \in Nat /\ ByteBits > 1
  /\ {U16Bytes, U32Bytes, U64Bytes, VarintBytes} \subseteq Nat \ {0}
  /\ U32Bits \in (VarintBytes - 1) * GroupBits + 1 .. VarintBytes * GroupBits
  /\ {U16Bytes, U32Bytes} \subseteq 1 .. U64Bytes

(* A fact of arithmetic, for the widths there are: the provers know        *)
(* nothing of powers.                                                      *)
ASSUME PowersOfTwo ==
  \A n \in 0 .. U64Bits + VarintBytes * GroupBits :
    /\ 2 ^ n \in Nat \ {0}
    /\ \A m \in 0 .. n : 2 ^ n = 2 ^ m * 2 ^ (n - m)

Bits(v, n) == [i \in 1 .. n |-> (v \div 2 ^ (n - i)) % 2]
Zeros(n) == [i \in 1 .. n |-> 0]
Number(bits) == FoldLeft(LAMBDA acc, b : 2 * acc + b, 0, bits)

Bytes(bits) == Len(bits) \div ByteBits
RoundUp(n) == ((n + ByteBits - 1) \div ByteBits) * ByteBits

(* n bytes from a byte offset, and the byte there. *)
Slice(bits, offset, n) == SubSeq(bits, ByteBits * offset + 1, ByteBits * (offset + n))
ByteAt(bits, offset) == Number(Slice(bits, offset, 1))

Overwrite(buf, at, bits) ==
  [i \in DOMAIN buf |-> IF i - at \in DOMAIN bits THEN bits[i - at] ELSE buf[i]]

(* to_le_bytes and from_le_bytes *)
LittleEndian(v, n) == FlattenSeq([i \in 1 .. n |-> Bits(v \div 2 ^ (ByteBits * (i - 1)), ByteBits)])
FromLittleEndian(bits) ==
  FoldRight(LAMBDA i, acc : ByteAt(bits, i) + 2 ^ ByteBits * acc,
            [i \in 1 .. Bytes(bits) |-> i - 1], 0)

-----------------------------------------------------------------------------
(* BitWriter over a buffer that may hold anything, and BitVecWriter, whose *)
(* buffer grows with zeros.                                                *)

NewWriter(buf) == [buf |-> buf, pos |-> 0, grows |-> FALSE]
NewVecWriter == [buf |-> <<>>, pos |-> 0, grows |-> TRUE]

(* Mutant: the byte that is begun counts as free. *)
NoRoom_ByBytes(w, n) == IF ~w.grows /\ w.pos + n >= Len(w.buf) + ByteBits THEN "WriteOverflow" ELSE None
NoRoom(w, n) == IF ~w.grows /\ w.pos + n > Len(w.buf) THEN "WriteOverflow" ELSE None

WithCapacity(w, n) ==
  IF RoundUp(w.pos + n) > Len(w.buf)
  THEN [w EXCEPT !.buf = @ \o Zeros(RoundUp(w.pos + n) - Len(@))]
  ELSE w

Put(w, bits) == [w EXCEPT !.buf = Overwrite(@, w.pos, bits), !.pos = @ + Len(bits)]

(* ensure_bits or ensure_capacity_bits, then the bits one by one. *)
Write(w, bits) == Checked(NoRoom(w, Len(bits)), Put(WithCapacity(w, Len(bits)), bits))

WriteBits(w, v, n) ==
  IF n > U64Bits THEN Err("InvalidBitCount")
  ELSE IF n \in 1 .. U64Bits - 1 /\ v >= 2 ^ n THEN Err("ValueOutOfRange")
  ELSE Write(w, Bits(v, n))

Padding(pos) == RoundUp(pos) - pos

AlignToByte(w) == Write(w, Zeros(Padding(w.pos)))

Misaligned(pos) == IF pos % ByteBits # 0 THEN "MisalignedAccess" ELSE None

WriteAligned(w, bytes) == IF Misaligned(w.pos) # None THEN Err(Misaligned(w.pos)) ELSE Write(w, bytes)

(* varu32_len and the bytes: groups from the low end, each but the last    *)
(* with its top bit set.                                                   *)
VarintLen(v) == Min({n \in 1 .. VarintBytes : v < 2 ^ (GroupBits * n)})
VarintGroup(v, i) == (v \div 2 ^ (GroupBits * (i - 1))) % 2 ^ GroupBits

Varint(v) ==
  FlattenSeq([i \in 1 .. VarintLen(v) |->
    <<IF i < VarintLen(v) THEN 1 ELSE 0>> \o Bits(VarintGroup(v, i), GroupBits)])

WriteVaru32(w, v) == WriteAligned(w, Varint(v))

Zigzag(v) == IF v >= 0 THEN 2 * v ELSE (-2) * v - 1
WriteVars32(w, v) == WriteVaru32(w, Zigzag(v))

Finish(w) == SubSeq(w.buf, 1, RoundUp(w.pos))

-----------------------------------------------------------------------------
(* BitReader: a read gives the value and the reader after it. *)

NewReader(data) == [data |-> data, pos |-> 0]
Remaining(r) == Len(r.data) - r.pos
Eof(r, n) == IF n > Remaining(r) THEN "UnexpectedEof" ELSE None

Took(r, v, n) == [value |-> v, reader |-> [r EXCEPT !.pos = @ + n]]

ReadBits(r, n) ==
  IF n > U64Bits THEN Err("InvalidBitCount")
  ELSE Checked(Eof(r, n), Took(r, Number(SubSeq(r.data, r.pos + 1, r.pos + n)), n))

(* The padding is not looked at. *)
SkipToByte(r) == Checked(Eof(r, Padding(r.pos)), Took(r, 0, Padding(r.pos)))

ReadAligned(r, n) ==
  Checked(Then(Misaligned(r.pos), Eof(r, ByteBits * n)),
          Took(r, FromLittleEndian(Slice(r.data, r.pos \div ByteBits, n)), ByteBits * n))

-----------------------------------------------------------------------------
(* The varint readers.  All stop at the first byte without a continuation  *)
(* bit, and give up after VarintBytes bytes.                               *)

Continues(buf, at) == ByteAt(buf, at) >= 2 ^ GroupBits

(* Mutant: the end of the data ends a varint. *)
Ends_AtEof(buf, offset) ==
  {n \in 1 .. VarintBytes :
     /\ offset + n <= Bytes(buf)
     /\ ~Continues(buf, offset + n - 1) \/ offset + n = Bytes(buf)}
Ends(buf, offset) ==
  {n \in 1 .. VarintBytes : offset + n <= Bytes(buf) /\ ~Continues(buf, offset + n - 1)}

VarintError(buf, offset, truncated) ==
  IF Ends(buf, offset) # {} THEN None
  ELSE IF Bytes(buf) - offset < VarintBytes THEN truncated
  ELSE "InvalidVarint"

(* The groups, each shifted to its place. *)
Shifted(buf, offset) ==
  [i \in 1 .. Min(Ends(buf, offset)) |->
     (ByteAt(buf, offset + i - 1) % 2 ^ GroupBits) * 2 ^ (GroupBits * (i - 1))]

Total(numbers) == FoldLeft(LAMBDA a, b : a + b, 0, numbers)

(* The shift is done in a u32: what does not fit is lost group by group. *)
InU32(numbers) == [i \in DOMAIN numbers |-> numbers[i] % 2 ^ U32Bits]

VarintRead(buf, offset, v) == [value |-> v, next |-> offset + Min(Ends(buf, offset))]

(* packet.rs *)
SectionVaru32(buf, offset) ==
  Checked(VarintError(buf, offset, "Truncated"),
          VarintRead(buf, offset, Total(InU32(Shifted(buf, offset)))))

(* Mutant: the bytes are counted before the last one is looked at. *)
SessionVaru32_GivesUpEarly(buf, offset) ==
  Checked(IF Ends(buf, offset) \subseteq {VarintBytes} THEN "InvalidVarint" ELSE None,
          VarintRead(buf, offset, Total(Shifted(buf, offset)) % 2 ^ U32Bits))

(* session.rs: collected in a u64 and cast. *)
SessionVaru32(buf, offset) ==
  Checked(VarintError(buf, offset, "Truncated"),
          VarintRead(buf, offset, Total(Shifted(buf, offset)) % 2 ^ U32Bits))

(* reader.rs *)
ReadVaru32(r) ==
  LET offset == r.pos \div ByteBits IN
  Checked(Then(Misaligned(r.pos), VarintError(r.data, offset, "UnexpectedEof")),
          Took(r, Total(InU32(Shifted(r.data, offset))), ByteBits * Min(Ends(r.data, offset))))

(* read_vars32 *)
Unzigzag(n) == IF n % 2 = 0 THEN n \div 2 ELSE -(n \div 2) - 1
ReadVars32(r) ==
  AndThen(ReadVaru32(r), LAMBDA t : Ok([t EXCEPT !.value = Unzigzag(@)]))
=============================================================================
