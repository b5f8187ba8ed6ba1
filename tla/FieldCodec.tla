------------------------------ MODULE FieldCodec ------------------------------
(***************************************************************************)
(* Field values: what a schema admits (src/schema) and how a value is      *)
(* written and read (src/codec/src/snapshot.rs).                           *)
(*                                                                         *)
(* A codec is [kind], with [bits] for the fixed widths and [min, max] for  *)
(* the fixed point; a bool is 0 or 1.  A value comes with the kind of its  *)
(* field: TypeMismatch is left out.  traps says what the build does with   *)
(* an i64 that overflows: a debug build panics, a release build wraps.     *)
(***************************************************************************)
EXTENDS BitStream

I64Max == 2 ^ (U64Bits - 1) - 1
I64Min == -(2 ^ (U64Bits - 1))

AsU64(v) == v % 2 ^ U64Bits
AsI64(v) == ((v - I64Min) % 2 ^ U64Bits) + I64Min

(* The result of arithmetic on i64. *)
I64(traps, v) == IF traps /\ v \notin I64Min .. I64Max THEN Err("panic") ELSE Ok(AsI64(v))

(* validate_field, the scale aside *)
ValidField(codec) ==
  /\ codec.kind \in {"UInt", "SInt"} => codec.bits \in 1 .. U64Bits
  /\ codec.kind = "FixedPoint" => codec.min <= codec.max

RequiredBits(range) == Min({n \in 0 .. U64Bits : range < 2 ^ n})

OutOfRange(v, low, high, error) == IF v \in low .. high THEN None ELSE error

-----------------------------------------------------------------------------
(* validate_uint, encode_sint, decode_sint *)

WriteUInt(w, bits, v) ==
  AndThen(Checked(OutOfRange(v, 0, 2 ^ bits - 1, "UnsignedOutOfRange"), v),
          LAMBDA n : WriteBits(w, n, bits))

WriteSInt(w, bits, v) ==
  AndThen(Checked(OutOfRange(v, -(2 ^ (bits - 1)), 2 ^ (bits - 1) - 1, "SignedOutOfRange"),
                  AsU64(v) % 2 ^ bits),
          LAMBDA n : WriteBits(w, n, bits))

(* Mutant: the sign bit is looked for one place too high. *)
SInt_Unsigned(traps, bits, raw) ==
  IF bits = U64Bits THEN Ok(AsI64(raw))
  ELSE IF raw < 2 ^ bits THEN Ok(raw)
  ELSE I64(traps, raw - AsI64(2 ^ bits))

(* `value - (1i64 << bits)`: with one bit less than an i64 the shift is    *)
(* the least i64, and the difference is beyond the greatest.               *)
SInt(traps, bits, raw) ==
  IF bits = U64Bits THEN Ok(AsI64(raw))
  ELSE IF raw < 2 ^ (bits - 1) THEN Ok(raw)
  ELSE I64(traps, raw - AsI64(2 ^ bits))

FixedRange(traps, codec) ==
  AndThen(I64(traps, codec.max - codec.min), LAMBDA range : Ok(RequiredBits(AsU64(range))))

WriteFixedPoint(traps, w, codec, v) ==
  IF v \notin codec.min .. codec.max THEN Err("FixedPointOutOfRange")
  ELSE AndThen(I64(traps, v - codec.min), LAMBDA offset :
       AndThen(FixedRange(traps, codec), LAMBDA bits : WriteBits(w, AsU64(offset), bits)))

WithValue(taken, result) == AndThen(result, LAMBDA v : Ok([taken EXCEPT !.value = v]))

ReadFixedPoint(traps, r, codec) ==
  AndThen(FixedRange(traps, codec), LAMBDA bits :
  AndThen(ReadBits(r, bits), LAMBDA t :
  AndThen(I64(traps, codec.min + AsI64(t.value)), LAMBDA v :
  Checked(OutOfRange(v, codec.min, codec.max, "FixedPointOutOfRange"), [t EXCEPT !.value = v]))))

WriteField(traps, w, codec, v) ==
  CASE codec.kind = "Bool" -> Write(w, <<v>>)
    [] codec.kind = "UInt" -> WriteUInt(w, codec.bits, v)
    [] codec.kind = "SInt" -> WriteSInt(w, codec.bits, v)
    [] codec.kind = "VarUInt" ->
         AndThen(Checked(OutOfRange(v, 0, 2 ^ U32Bits - 1, "VarUIntOutOfRange"), w),
                 LAMBDA u : AndThen(AlignToByte(u), LAMBDA x : WriteVaru32(x, v)))
    [] codec.kind = "VarSInt" ->
         AndThen(Checked(OutOfRange(v, -(2 ^ (U32Bits - 1)), 2 ^ (U32Bits - 1) - 1,
                                    "VarSIntOutOfRange"), w),
                 LAMBDA u : AndThen(AlignToByte(u), LAMBDA x : WriteVars32(x, v)))
    [] codec.kind = "FixedPoint" -> WriteFixedPoint(traps, w, codec, v)

ReadField(traps, r, codec) ==
  CASE codec.kind = "Bool" -> ReadBits(r, 1)
    [] codec.kind = "UInt" -> ReadBits(r, codec.bits)
    [] codec.kind = "SInt" ->
         AndThen(ReadBits(r, codec.bits),
                 LAMBDA t : WithValue(t, SInt(traps, codec.bits, t.value)))
    [] codec.kind = "VarUInt" -> AndThen(SkipToByte(r), LAMBDA t : ReadVaru32(t.reader))
    [] codec.kind = "VarSInt" -> AndThen(SkipToByte(r), LAMBDA t : ReadVars32(t.reader))
    [] codec.kind = "FixedPoint" -> ReadFixedPoint(traps, r, codec)

=============================================================================
