CONSTANTS
  Requests = {r1, r2}
  Denials = {"401", "403"}
  Overloads = {"503"}
  MaxAttempts <- MCShort
  MaxTokens = 9
  MaxBad = 2
  MaxBusy = 1
  MaxErrors = 1
SPECIFICATION FairSpec
INVARIANTS TypeOK RetryWithNewToken
PROPERTIES NotSentLate RequestsEnd
CHECK_DEADLOCK FALSE
