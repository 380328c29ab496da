CONSTANTS
  MaxId = 2
  Keys = {k1, k2}
  MaxTime = 3
  Durations = {1, 2}
  Overlap = 1
  Limit = 1
  WantSim = TRUE
  MaxFaults = 1
SPECIFICATION HSpec
INVARIANTS TypeOK NothingMissed Cleared
PROPERTIES NeverLifted Implements Converges
