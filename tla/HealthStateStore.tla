-------------------------- MODULE HealthStateStore --------------------------
(***************************************************************************)
(* The health of one endpoint (src/http/upstream_health.cpp).  record()    *)
(* replaces the shared snapshot by compare-and-swap and retries, so one    *)
(* call is one atomic function of the endpoint's entry.  A counter is      *)
(* compared only with its threshold and is kept saturated there.           *)
(***************************************************************************)
EXTENDS Naturals

CONSTANTS healthy_threshold, unhealthy_threshold

ASSUME HealthThresholds ==
    /\ healthy_threshold \in Nat \ {0}
    /\ unhealthy_threshold \in Nat \ {0}

EndpointHealth == [healthy : BOOLEAN,
                   consecutive_successes : 0 .. healthy_threshold,
                   consecutive_failures : 0 .. unhealthy_threshold]

\* addEndpoint with initially_healthy, the default.
NewEndpoint == [healthy |-> TRUE, consecutive_successes |-> 0, consecutive_failures |-> 0]

Saturated(n, threshold) == IF n < threshold THEN n + 1 ELSE threshold

record(h, success) ==
    IF success
    THEN LET n == Saturated(h.consecutive_successes, healthy_threshold)
         IN  [healthy |-> h.healthy \/ n >= healthy_threshold,
              consecutive_successes |-> n, consecutive_failures |-> 0]
    ELSE LET n == Saturated(h.consecutive_failures, unhealthy_threshold)
         IN  [healthy |-> h.healthy /\ n < unhealthy_threshold,
              consecutive_successes |-> 0, consecutive_failures |-> n]
=============================================================================
