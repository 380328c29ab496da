CONSTANTS
  Routines = {r1, r2}
  Keys = {k1, k2}
  Duration = 2
  Filters = TRUE
  MaxTime = 4
  MaxOverflows = 4
SPECIFICATION Spec
INVARIANTS TypeOK VoidedForAReason
CHECK_DEADLOCK FALSE
