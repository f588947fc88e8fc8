\* The store closes while a request is served, and shutdown ends.
CONSTANTS
  k1 = k1  k2 = k2  k3 = k3  c1 = c1  c2 = c2
  Main = Main
  Maintenance = Maintenance
  Caller = {c1, c2}
  Key = {k1}
  MaxAge = 1
  MaxRows = 1
  Faults = TRUE
  Drained = FALSE
  ClockSteps = TRUE
  MaxTime = 2
INVARIANT ClosedStoreUntouched
SPECIFICATION FairSpec
PROPERTY ShutdownEnds
