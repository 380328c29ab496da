SPECIFICATION FairSpec
CONSTANTS
    Servers = {s1, s2}
    PullInterval = 3
    OldAfter = 2
    LockTimeout = 2
    MaxGap = 10
    MaxFaults = 1
INVARIANTS TypeOK ExclusivePull GapBounded
PROPERTY PullsForever
