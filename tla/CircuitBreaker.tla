--------------------------- MODULE CircuitBreaker ---------------------------
(***************************************************************************)
(* The endpoint-local circuit breaker (src/http/circuit_breaker.cpp).      *)
(* Every method holds mutex_ from its first to its last line, so each one  *)
(* is a function from breaker to breaker.  The comparison of now with      *)
(* retry_at_ is kept as the Boolean `cooled'; time sets it (CoolDown).     *)
(***************************************************************************)
EXTENDS Naturals

CONSTANTS failure_threshold, half_open_max_probes

ASSUME CircuitBreakerLimits ==
    /\ failure_threshold \in Nat \ {0}
    /\ half_open_max_probes \in Nat \ {0}

Breaker == [state : {"Closed", "Open", "HalfOpen"},
            consecutive_failures : Nat,
            probes_in_flight : Nat,
            cooled : BOOLEAN]

NewBreaker == [state |-> "Closed", consecutive_failures |-> 0,
               probes_in_flight |-> 0, cooled |-> FALSE]

\* allowRequest: an open breaker whose cooldown is over turns half-open first.
HalfOpened(b) == IF b.state = "Open" /\ b.cooled
                 THEN [b EXCEPT !.state = "HalfOpen", !.probes_in_flight = 0]
                 ELSE b
Allows(b) == LET h == HalfOpened(b) IN
    \/ h.state = "Closed"
    \/ h.state = "HalfOpen" /\ h.probes_in_flight < half_open_max_probes
\* The breaker after allowRequest, whatever it answers.
allowRequest(b) == LET h == HalfOpened(b) IN
    IF h.state = "HalfOpen" /\ Allows(b)
    THEN [h EXCEPT !.probes_in_flight = @ + 1]
    ELSE h

open(b) == [state |-> "Open", consecutive_failures |-> 0,
            probes_in_flight |-> 0, cooled |-> FALSE]

recordSuccess(b) == NewBreaker

\* Faulty variant: a failure while half-open is counted like any other.
recordFailure_Counted(b) ==
    IF b.state = "Open" THEN b
    ELSE IF b.consecutive_failures + 1 >= failure_threshold THEN open(b)
    ELSE [b EXCEPT !.consecutive_failures = @ + 1]
recordFailure(b) ==
    CASE b.state = "HalfOpen" -> open(b)
      [] b.state = "Open" -> b
      [] b.state = "Closed" -> IF b.consecutive_failures + 1 >= failure_threshold
                               THEN open(b)
                               ELSE [b EXCEPT !.consecutive_failures = @ + 1]

recordNeutral(b) ==
    IF b.state = "HalfOpen" /\ b.probes_in_flight > 0
    THEN [b EXCEPT !.probes_in_flight = @ - 1]
    ELSE b

\* The clock reaches retry_at_.
CoolDown(b) == [b EXCEPT !.cooled = TRUE]
=============================================================================
