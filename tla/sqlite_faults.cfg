\* Statements fail, the process is killed, another process clears the file.
CONSTANTS
  k1 = k1  k2 = k2  k3 = k3  c1 = c1  c2 = c2
  Main = Main
  Maintenance = Maintenance
  Caller = {c1}
  Key = {k1, k2, k3}
  MaxAge = 3
  MaxRows = 2
  Faults = TRUE
  Drained = TRUE
  ClockSteps = FALSE
  MaxTime = 5
SPECIFICATION Spec
SYMMETRY Symmetry
INVARIANTS TypeOK CommittedRowsBounded
PROPERTIES ShutdownKeepsVisibleRows PutSurvivesItsPrune
