\* Loss, duplication and reordering, in any mix; the client's ring is smaller
\* than the server's, so that deltas also find their baseline evicted.
CONSTANTS
  ServerCapacity = 3
  ClientCapacity = 2
  Faults <- AllFaults
  MaxTick = 5
  MaxGap = 2
  MaxInFlight = 3
  MaxFaults = 2
  MaxSessions = 3
SPECIFICATION FairSpec
INVARIANTS
  CleanSessionIsExact
PROPERTY
  ResyncRepairs
CHECK_DEADLOCK FALSE
