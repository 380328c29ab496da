CONSTANTS
  e1 = e1
  e2 = e2
  e3 = e3
  k1 = k1
  k2 = k2
  Events <- OneEvent
  Keys = {k1}
  Pourers = {p1}
  Outputs = {o1}
  MaxBuckets = 3
  Factory <- Broken
  EventHolders <- AllToK1
  OverflowHolders <- NoKeys
  ElementOf <- TwoElements
  FilterErrors <- NoErrors
  OrderEvent = FALSE
  PostOverflow = {"ok"}
  MayShutdown = FALSE
SPECIFICATION Spec
INVARIANT ReadyMeansReceiving
