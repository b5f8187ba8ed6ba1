SPECIFICATION Spec
CONSTANTS
  e1 = e1
  e2 = e2
  e3 = e3
  Absent = Absent
  Entities <- MCEntities
  Registered <- MCRegistered
  Values <- MCValues
  MaxId = 2
  MaxCreates = 2
  MaxFrames = 3
  MaxEdits = 4
  MaxInFlight = 2
  MaxFaults = 1
SYMMETRY MCSymmetry
INVARIANTS
  TypeOK
  MapsAgree
  ClientFollows
  NoFailureInStep
CHECK_DEADLOCK FALSE
