CONSTANTS
  e1 = e1
  e2 = e2
  e3 = e3
  k1 = k1
  k2 = k2
  Events <- TwoEvents
  Keys = {k1, k2}
  Pourers = {p1}
  Outputs = {o1}
  MaxBuckets = 4
  Factory <- Reprocessing
  EventHolders <- AllToK1
  OverflowHolders <- JustK2
  ElementOf <- TwoElements
  FilterErrors <- NoErrors
  OrderEvent = FALSE
  PostOverflow = {"ok", "whitelisted", "error"}
  MayShutdown = TRUE
SPECIFICATION Spec
INVARIANTS DeliveredOnce AlertOnce
CHECK_DEADLOCK FALSE
