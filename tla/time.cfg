CONSTANTS
  Capacity = 1
  Leak = 2
  Ordered = TRUE
  RealTicks = FALSE
  InOrder = FALSE
  NoTime = NoTime
  MaxTime = 6
  MaxEvents = 5
SPECIFICATION Spec
INVARIANTS TypeOK SameAlerts AlertIsABurst
CHECK_DEADLOCK FALSE
