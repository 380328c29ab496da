CONSTANTS
  Sources = {"c1", "t1", "s1"}
  Mode <- MCMode
  Transforms = {}
  Parsers = {p1}
  Lines = 2
  Quick = FALSE
  MaxErrors = 1
  MaxRestarts = 1
  MaxSignals = 1
SPECIFICATION FairSpec
INVARIANTS TypeOK NoSendOnClosed ReadToTheEnd
PROPERTIES ShutdownEnds StreamsRestart
CHECK_DEADLOCK FALSE
