\* One packet arrives twice, or after the packet that follows it.
CONSTANTS
  ServerCapacity = 2
  ClientCapacity = 2
  Faults <- LateOnly
  MaxTick = 4
  MaxGap = 1
  MaxInFlight = 3
  MaxFaults = 1
  MaxSessions = 1
SPECIFICATION Spec
PROPERTY
  LateDeltasIgnored
CHECK_DEADLOCK FALSE
