\* Up to two replicas, no fault: what their operations guarantee together, and
\* what they guarantee in a deployment of one.
CONSTANTS
  r1 = r1  r2 = r2  k1 = k1  k2 = k2  k3 = k3
  Replica = {r1, r2}
  Key = {k1, k2, k3}
  IndexKey = IndexKey
  MaxAge = 3
  MaxRows = 1
  Batch = 2
  Skew = 0
  Faults = FALSE
  MaxTime = 4
SPECIFICATION Spec
SYMMETRY Symmetry
INVARIANTS YoungValuesIndexed PutSurvivesItsPrune IndexBounded
CONSTRAINT StaysOpen
