\* Two replicas, every interleaving, failure and crash.
CONSTANTS
  r1 = r1  r2 = r2  k1 = k1  k2 = k2  k3 = k3
  Replica = {r1, r2}
  Key = {k1, k2}
  IndexKey = IndexKey
  MaxAge = 1
  MaxRows = 1
  Batch = 1
  Skew = 1
  Faults = TRUE
  MaxTime = 2
SPECIFICATION Spec
SYMMETRY Symmetry
INVARIANTS TypeOK ClearForgets
