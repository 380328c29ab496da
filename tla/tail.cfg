CONSTANTS
  Files = {f1, f2}
  Initial = {}
  Polling = TRUE
  None = None
  MaxCreated = 3
  MaxFaults = 2
SPECIFICATION FairSpec
INVARIANTS TypeOK MapIsExact
PROPERTY ExistingIsFollowed
CHECK_DEADLOCK FALSE
