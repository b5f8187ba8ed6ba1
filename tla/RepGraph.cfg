\* Two clients whose views change, at most one create per delta, and fewer
\* entities tracked than the world has.
CONSTANTS
  Ids <- ThreeIds
  Clients = {c1, c2}
  Positions = {"near", "far"}
  Components = {p}
  Values = {v1, v2}
  Priorities = {0}
  Views <- RationedViews
  MaxEntities = 2
  ReuseIds = FALSE
SPECIFICATION Spec
SYMMETRY Symmetric
INVARIANTS
  TypeOK
  KnownIsReplica
  EveryDeltaApplies
  BuiltClientIsCurrent
CHECK_DEADLOCK FALSE
