CONSTANTS
  Lists = {"a", "b"}
  Values = {v1}
  Duration <- MCShort
  Interval = 1
  Margin = 1
  MaxOn = 4
  MaxErrors = 1
  Faults = {"command"}
  v1 = v1
SPECIFICATION FairSpec
INVARIANTS TypeOK CoveredWithin GoneWithin
PROPERTY Heals
