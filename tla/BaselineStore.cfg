CONSTANTS
  Capacity = 3
  Ticks <- MCTicks
  Values = {s1, s2}
  None = None
SPECIFICATION Spec
INVARIANTS
  TypeOK
  RingInv
  LookupsFindTheRightBaseline
PROPERTY
  ImplementsRecentBaselines
CHECK_DEADLOCK FALSE
