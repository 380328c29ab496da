CONSTANTS
  Handlers = {"create1", "delete1"}
  Orders <- MCSignal
  Kind <- MCKind
  Items <- MCItems
  Alert <- MCAlert
  Config <- MCAll
  BatchSize = 2
  MaxErrors = 1
SPECIFICATION FairSpec
INVARIANTS TypeOK InOnePlace
PROPERTIES CreateReturns OfferedIsTaken Forwarded
CHECK_DEADLOCK FALSE
