\* Two connections of any kind, one or two workers, a queue of one and one upstream connection.
SPECIFICATION FairSpec
CONSTANTS
  r1 = r1  r2 = r2
  Request = {r1, r2}
  Workers = {1, 2}
  MaxQueue = 1
  PoolSize = 1
  MaxRetries = 1
  MaxLines = 1
CHECK_DEADLOCK FALSE
INVARIANT TypeOK
INVARIANT GaugesExact
INVARIANT ConnectionsReturned
INVARIANT TraceTellsAnswer
INVARIANT ReasoningRecorded
PROPERTY IsWorkPool
