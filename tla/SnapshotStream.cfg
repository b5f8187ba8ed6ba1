CONSTANTS
  IdBits = 1
  Setups <- MCSetups
  Forms <- MCForms
  Values <- MCValues
  MaxTick = 3
SPECIFICATION Spec
INVARIANTS
  TypeOK
  ReplicaFollows
  EncodedIsDecodable
  EncodingsAgree
  FullSnapshotRoundTrips
