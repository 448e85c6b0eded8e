CONSTANTS
  r1 = r1
  r2 = r2
  r3 = r3
  k1 = k1
  k2 = k2
  c1 = c1
  c2 = c2
  Requests = {r1, r2, r3}
  Keys = {k1, k2}
  Clients = {c1, c2}
  Shards = {1, 2}
  shard_of <- Apart
  token = 2
  rate = 1
  burst = 2
  global_burst = 4
  max_keys = 1
  idle_ttl = 4
  ttl = 2
  max_bytes = 4
  max_entry_bytes = 4
  overhead = 2
  Bodies = {0, 2, 3, 4}
  MaxTime = 5
  MaxDelay = 1
  Nobody = Nobody
SYMMETRY RouterSymmetry
SPECIFICATION Spec
INVARIANT TypeOK KeysCounted RateBounded CacheBounded OnlySharedAnswers
CHECK_DEADLOCK FALSE
