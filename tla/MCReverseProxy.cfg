CONSTANTS
  r1 = r1
  r2 = r2
  r3 = r3
  Requests = {r1, r2, r3}
  upstream_count = 1
  max_in_flight_requests = 2
  failure_threshold = 2
  half_open_max_probes = 1
  healthy_threshold = 1
  unhealthy_threshold = 1
  count_5xx_as_health_failure = TRUE
SPECIFICATION FairSpec
INVARIANT InFlightExact ProbesBacked
PROPERTY HalfOpenResolves
