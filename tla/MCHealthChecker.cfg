CONSTANTS
  p1 = p1
  p2 = p2
  p3 = p3
  Probes = {p1, p2, p3}
  endpoint_count = 2
  max_concurrent_probes = 2
  healthy_threshold = 1
  unhealthy_threshold = 1
SPECIFICATION FairSpec
INVARIANT ProbesCounted
PROPERTY OnlyTimelyAnswersPublished EveryEndpointProbed
CHECK_DEADLOCK FALSE
