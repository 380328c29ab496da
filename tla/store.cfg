CONSTANTS
  Importers = {i1}
  Parts = 2
  Lives = {0, 1}
  MaxAge = 1
  MaxItems = 1
  PageSize = 2
  Limits = {}
  MaxId = 4
  MaxClock = 3
  MaxErrors = 1
  MaxDeletes = 1
  MaxLists = 0
SPECIFICATION FairSpec
INVARIANTS TypeOK
PROPERTIES ActiveKept ImportSpared Trimmed OldGone
CHECK_DEADLOCK FALSE
