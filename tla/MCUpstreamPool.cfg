CONSTANTS
  r1 = r1
  r2 = r2
  r3 = r3
  r4 = r4
  Requests = {r1, r2, r3, r4}
  max_connections = 2
  max_idle_connections = 1
  max_reuses = 2
  max_waiters = 2
  MaxId = 4
SYMMETRY RequestSymmetry
SPECIFICATION Spec
INVARIANT TypeOK CapacityRespected LeaseExclusive OnlyReusableInUse CompletedOnce NoWaiterBesideIdle CleanupPending
PROPERTY HandsOverInOrder
CHECK_DEADLOCK FALSE
