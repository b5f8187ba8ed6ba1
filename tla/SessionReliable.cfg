\* A link that keeps packets and their order; rings of two baselines and up
\* to four packets in flight, so that both rings wrap while acks are pending.
CONSTANTS
  ServerCapacity = 2
  ClientCapacity = 2
  Faults <- NoFaults
  MaxTick = 6
  MaxGap = 2
  MaxInFlight = 4
  MaxFaults = 0
  MaxSessions = 2
SPECIFICATION FairSpec
INVARIANTS
  TypeOK
  LabelsAreTrue
  NoResyncNeeded
PROPERTIES
  EveryDeltaIsApplied
  EverySnapshotArrives
CHECK_DEADLOCK FALSE
