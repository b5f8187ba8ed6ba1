----------------------------- MODULE MCWireStream -----------------------------
(* Bytes of 4 bits, a u32 of 2 bytes and a u64 of 3, varints of 3 groups of *)
(* 3 bits: as in the code a varint has room for one bit more than a u32.    *)
EXTENDS WireStream

(* The first limits let a session init through and keep long packets out,  *)
(* the second keep long sections out.                                      *)
MCBuilds ==
  {[traps |-> FALSE, fill |-> 1, limits |-> [packet |-> 19, sections |-> 2, section |-> 4]],
   [traps |-> TRUE, fill |-> 0, limits |-> [packet |-> 18, sections |-> 1, section |-> 2]]}

MCField(codec, vs) == {[kind |-> "Field", codec |-> codec, value |-> v] : v \in vs}
MCKind(kind, vs) == {[kind |-> kind, value |-> v] : v \in vs}

MCWrites ==
  MCField([kind |-> "Bool"], {0, 1})
  \cup MCField([kind |-> "UInt", bits |-> 12], {0, 4095})
  \cup MCField([kind |-> "SInt", bits |-> 3], {-4, 4})
  \cup MCField([kind |-> "SInt", bits |-> 11], {-1024, -1})
  \cup MCField([kind |-> "VarUInt"], {63, 255})
  \cup MCField([kind |-> "VarSInt"], {-128})
  \cup MCField([kind |-> "FixedPoint", min |-> -3, max |-> 2], {-3, 2})
  \cup MCField([kind |-> "FixedPoint", min |-> -2048, max |-> 2047], {2047})
  \cup MCKind("Id", {129})
  \cup MCKind("Byte", {1, 15})
  \cup MCKind("Count", {8})
  \cup {[kind |-> "Index", bits |-> 2, value |-> 2], [kind |-> "Align"]}
=============================================================================
