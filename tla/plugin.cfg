CONSTANTS
  Alerts = {1, 2}
  Plugins = {"plain", "timed"}
  Route <- MCRoutePlain
  Threshold <- MCThreshold
  Timed = {"timed"}
  MaxRetry = 1
  MaxFailures = 1
SPECIFICATION FairSpec
INVARIANTS TypeOK NothingStuck CopiesBounded
PROPERTIES EventuallyTaken BrokerEnds
CHECK_DEADLOCK FALSE
