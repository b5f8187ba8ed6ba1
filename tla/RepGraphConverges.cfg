\* One client, three entities, at most one create, one update
\* and one destroy per delta.
CONSTANTS
  Ids <- ThreeIds
  Clients = {c1}
  Positions = {"near", "far"}
  Components = {p}
  Values = {v1, v2}
  Priorities = {0}
  Views <- CutViews
  MaxEntities = 3
  ReuseIds = FALSE
SPECIFICATION FairSpec
INVARIANTS
  KnownIsReplica
  EveryDeltaApplies
PROPERTY
  ClientsConverge
CHECK_DEADLOCK FALSE
