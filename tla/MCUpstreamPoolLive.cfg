CONSTANTS
  r1 = r1
  r2 = r2
  r3 = r3
  Requests = {r1, r2, r3}
  max_connections = 1
  max_idle_connections = 1
  max_reuses = 2
  max_waiters = 1
  MaxId = 3
SPECIFICATION FairSpec
PROPERTY EveryAcquireCompletes ExpiredIdleIsPruned ImplementsBroker
CHECK_DEADLOCK FALSE
