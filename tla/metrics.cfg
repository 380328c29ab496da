CONSTANTS
  Providers = 1
  Faults = {"net", "refused", "answer", "mark", "crash", "read"}
  MaxCount = 1
  MaxRows = 3
  MaxFaults = 2
SPECIFICATION FairSpec
INVARIANTS TypeOK MarkedWasSent GivenOnce
PROPERTY EventuallySettled
