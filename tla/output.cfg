CONSTANTS
  a1 = a1
  a2 = a2
  s1 = s1
  s2 = s2
  p1 = p1
  p2 = p2
  Alerts <- TwoAlerts
  Sources <- SourcesOf
  Listable <- MayBeListed
  Invalid <- MayBeInvalid
  Matches <- MatchesOf
  Outputs = {o1}
  Requests = {r1, r2}
  BatchSize = 1
  MaxFailures = 1
SPECIFICATION FairSpec
INVARIANTS TypeOK SingleOwner AckedIsStored CopiesBounded LostOnlyOnFailure
PROPERTIES EventuallyAcked OutputsEnd
CHECK_DEADLOCK FALSE
