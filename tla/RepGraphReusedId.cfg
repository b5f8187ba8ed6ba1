\* An id that is removed may be used again in the same tick.
CONSTANTS
  Ids <- MCIds
  Clients = {c1}
  Positions = {"near", "far"}
  Components = {p}
  Values = {v1, v2}
  Priorities = {0}
  Views <- OneView
  MaxEntities = 2
  ReuseIds = TRUE
SPECIFICATION Spec
INVARIANT
  EveryDeltaApplies
CHECK_DEADLOCK FALSE
