CONSTANTS
  e1 = e1
  e2 = e2
  e3 = e3
  k1 = k1
  k2 = k2
  Events <- TwoEvents
  Keys = {k1, k2}
  Pourers = {p1}
  Outputs = {o1}
  MaxBuckets = 4
  Factory <- BothOverflow
  EventHolders <- AllToBoth
  OverflowHolders <- NoKeys
  ElementOf <- TwoElements
  FilterErrors <- NoErrors
  OrderEvent = TRUE
  PostOverflow = {"ok"}
  MayShutdown = FALSE
SPECIFICATION FairSpec
INVARIANTS OrderedPour
PROPERTIES PourReturns
