\* Two requests of any kind, one upstream connection, clients that leave.
SPECIFICATION FairSpec
CONSTANTS
  r1 = r1  r2 = r2
  Request = {r1, r2}
  MaxRetries = 1
  PoolSize = 1
  MaxLines = 1
  Traced = {TRUE}
  Paused = {FALSE, TRUE}
CHECK_DEADLOCK FALSE
INVARIANT TypeOK
INVARIANT GaugesLeakOnlyLeavers
INVARIANT TraceTellsAnswer
INVARIANT ConnectionsReturned
INVARIANT NothingLostAtShutdown
PROPERTY ShutdownEnds
