CONSTANTS
  e1 = e1
  e2 = e2
  e3 = e3
  k1 = k1
  k2 = k2
  Events <- ThreeEvents
  Keys = {k1, k2}
  Pourers = {p1}
  Outputs = {o1}
  MaxBuckets = 6
  Factory <- Filtering
  EventHolders <- AllToBoth
  OverflowHolders <- NoKeys
  ElementOf <- TwoElements
  FilterErrors <- SomeErrors
  OrderEvent = FALSE
  PostOverflow = {"ok", "whitelisted"}
  MayShutdown = FALSE
SPECIFICATION Spec
INVARIANTS DeliveredOnce NoImmortalBucket SuicideSlotFree AlertOnce
