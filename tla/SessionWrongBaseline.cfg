\* One lost packet shifts the ticks the client reconstructs.
CONSTANTS
  ServerCapacity = 2
  ClientCapacity = 2
  Faults <- LossOnly
  MaxTick = 6
  MaxGap = 2
  MaxInFlight = 3
  MaxFaults = 1
  MaxSessions = 1
SPECIFICATION Spec
INVARIANT
  WrongBaselineNeverApplied
CHECK_DEADLOCK FALSE
