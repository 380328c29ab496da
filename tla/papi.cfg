CONSTANTS
  Orders <- MCMixed
  MaxClock = 5
  Second = 2
  Spaced = FALSE
  MaxCrashes = 2
  MaxErrors = 1
  MaxSyncs = 0
  MaxAllow = 0
  MaxSubs = 2
SPECIFICATION Spec
INVARIANTS TypeOK NoneSkipped ReceivedOnce StoredOnce
CHECK_DEADLOCK FALSE
