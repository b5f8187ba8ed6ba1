CONSTANTS
  ByteBits = 4
  U16Bytes = 1
  U32Bytes = 2
  U64Bytes = 3
  VarintBytes = 3
  Absent = Absent
  MAGIC = 77
  VERSION = 2
  SchemaHash = 1234
  Builds <- MCBuilds
  Writes <- MCWrites
  Ticks = {1, 9, 255}
  SessionIds = {2049}
  BufferBytes = 14
  MaxSection = 8
  Tags = {5}
  MaxWrites = 3
  MaxSections = 2
  MaxSent = 1
SPECIFICATION Spec
INVARIANTS
  TypeOK
  BodyReadsBack
  TruncationIsNoticed
  InPlaceIsEncodeSection
  VarintReadersAgree
  PacketArrives
PROPERTIES
  SessionAdvances
