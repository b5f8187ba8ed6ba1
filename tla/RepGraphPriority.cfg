\* Two entities of different priority, one create per delta.
CONSTANTS
  Ids <- MCIds
  Clients = {c1}
  Positions = {"near", "far"}
  Components = {p}
  Values = {v1, v2}
  Priorities = {0, 1}
  Views <- OneView
  MaxEntities = 2
  ReuseIds = FALSE
SPECIFICATION Spec
INVARIANT
  ImportantFirst
CHECK_DEADLOCK FALSE
