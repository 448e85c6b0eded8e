---------------------------- MODULE ReverseProxy ----------------------------
(***************************************************************************)
(* ReverseProxy::operator() (src/http/reverse_proxy.cpp): admission of a   *)
(* proxied request, selection of an upstream, and the bookkeeping after    *)
(* the transaction.  Requests run on different threads and share in_flight *)
(* and next (atomics), the health snapshot and one circuit breaker per     *)
(* endpoint.  A step is one access to shared state.  The pool's answer and *)
(* the outcome of the ProxySession are inputs here (see UpstreamPool and   *)
(* ProxyTransaction).  A request that is done may be followed by another.  *)
(* ProxyUnwinding adds the exit by exception.                              *)
(***************************************************************************)
EXTENDS Naturals, FiniteSets, CircuitBreaker, HealthStateStore

CONSTANTS
    Requests,                     \* concurrent callers
    upstream_count,               \* upstreams.size()
    max_in_flight_requests,
    count_5xx_as_health_failure   \* does a status of 500 or more count as a failure?

ASSUME ProxyLimits ==
    /\ upstream_count \in Nat \ {0}
    /\ max_in_flight_requests \in Nat \ {0}
    /\ count_5xx_as_health_failure \in BOOLEAN

Endpoints == 0 .. upstream_count - 1

VARIABLES
    in_flight,         \* atomic counter of admitted requests
    next,              \* round-robin position, modulo upstream_count
    health, circuit,   \* per endpoint
    pc, observed, attempt, index, circuit_rejected,
    result             \* per request: locals, and the outcome or the refusal

vars == <<in_flight, next, health, circuit, pc, observed, attempt, index,
          circuit_rejected, result>>
locals == <<observed, attempt, index, circuit_rejected, result>>

\* What a ProxySession returns: ProxyError::None with a status below 500 or not,
\* an error that counts against the upstream, Cancelled, UnsupportedRequest; and
\* streamedCloseResult: None with status 0 after a response broken off half-way.
Results == {"ok", "5xx", "failure", "cancelled", "unsupported", "streamed_close"}
upstream_failure(res) ==
    \/ res \in {"failure", "cancelled", "unsupported"}
    \/ res = "5xx" /\ count_5xx_as_health_failure

Outcome(res) == IF ~upstream_failure(res) THEN "success"
                ELSE IF res \in {"cancelled", "unsupported"} THEN "neutral"
                ELSE "failure"

Init ==
    /\ in_flight = 0
    /\ next = 0
    /\ health = [e \in Endpoints |-> NewEndpoint]
    /\ circuit = [e \in Endpoints |-> NewBreaker]
    /\ pc = [r \in Requests |-> "done"]
    /\ observed = [r \in Requests |-> 0]
    /\ attempt = [r \in Requests |-> 0]
    /\ index = [r \in Requests |-> 0]
    /\ circuit_rejected = [r \in Requests |-> FALSE]
    /\ result = [r \in Requests |-> "none"]

Goto(r, from, to) == pc[r] = from /\ pc' = [pc EXCEPT ![r] = to]

\* A new request begins with the load of in_flight.
Begin(r) ==
    /\ Goto(r, "done", "admit")
    /\ observed' = [observed EXCEPT ![r] = in_flight]
    /\ UNCHANGED <<in_flight, next, health, circuit, attempt, index, circuit_rejected, result>>

\* The compare-and-swap loop and the overload answer.
Overloaded(r) ==
    /\ observed[r] >= max_in_flight_requests
    /\ Goto(r, "admit", "done")
    /\ observed' = [observed EXCEPT ![r] = 0]
    /\ UNCHANGED <<in_flight, next, health, circuit, attempt, index, circuit_rejected, result>>
\* Faulty variant: the counter is loaded once and then incremented.
Admitted_Unchecked(r) ==
    /\ observed[r] < max_in_flight_requests
    /\ in_flight' = in_flight + 1
    /\ Goto(r, "admit", "select")
    /\ observed' = [observed EXCEPT ![r] = 0]
    /\ UNCHANGED <<next, health, circuit, attempt, index, circuit_rejected, result>>
Admitted(r) ==
    /\ observed[r] < max_in_flight_requests
    /\ observed[r] = in_flight
    /\ in_flight' = in_flight + 1
    /\ Goto(r, "admit", "select")
    /\ observed' = [observed EXCEPT ![r] = 0]
    /\ UNCHANGED <<next, health, circuit, attempt, index, circuit_rejected, result>>
AdmitRetry(r) ==
    /\ pc[r] = "admit"
    /\ observed[r] < max_in_flight_requests
    /\ observed[r] # in_flight
    /\ observed' = [observed EXCEPT ![r] = in_flight]
    /\ UNCHANGED <<in_flight, next, health, circuit, pc, attempt, index, circuit_rejected, result>>

\* Selection: at most upstream_count draws from the shared position.
DrawCandidate(r) ==
    /\ attempt[r] < upstream_count
    /\ Goto(r, "select", "health")
    /\ index' = [index EXCEPT ![r] = next]
    /\ next' = (next + 1) % upstream_count
    /\ UNCHANGED <<in_flight, health, circuit, observed, attempt, circuit_rejected, result>>
IsHealthy(r) ==
    /\ Goto(r, "health", IF health[index[r]].healthy THEN "permit" ELSE "snapshot")
    /\ UNCHANGED <<in_flight, next, health, circuit, locals>>
AllowRequest(r) ==
    LET b == circuit[index[r]] IN
    /\ Goto(r, "permit", IF Allows(b) THEN "acquire" ELSE "snapshot")
    /\ circuit' = [circuit EXCEPT ![index[r]] = allowRequest(b)]
    /\ UNCHANGED <<in_flight, next, health, locals>>
Snapshot(r) ==
    /\ Goto(r, "snapshot", "select")
    /\ circuit_rejected' = [circuit_rejected EXCEPT
                              ![r] = @ \/ circuit[index[r]].state # "Closed"]
    /\ attempt' = [attempt EXCEPT ![r] = @ + 1]
    /\ UNCHANGED <<in_flight, next, health, circuit, observed, index, result>>
Unavailable(r) ==
    /\ attempt[r] = upstream_count
    /\ Goto(r, "select", "leave")
    /\ result' = [result EXCEPT ![r] = IF circuit_rejected[r] THEN "circuit_open" ELSE "no_healthy"]
    /\ UNCHANGED <<in_flight, next, health, circuit, observed, attempt, index, circuit_rejected>>

\* The pool answers asyncAcquire; a refusal gives a probe back.
AcquireRefused(r) ==
    /\ Goto(r, "acquire", "leave")
    /\ circuit' = [circuit EXCEPT ![index[r]] = recordNeutral(@)]
    /\ result' = [result EXCEPT ![r] = "overloaded"]
    /\ UNCHANGED <<in_flight, next, health, observed, attempt, index, circuit_rejected>>
AcquireGranted(r) ==
    /\ Goto(r, "acquire", "transact")
    /\ UNCHANGED <<in_flight, next, health, circuit, locals>>

\* The ProxySession ends; its result is recorded in the health store, then in the
\* breaker.  A neutral outcome does not touch the health store.
Transact(r, res) ==
    /\ Goto(r, "transact", IF Outcome(res) = "neutral" THEN "record_circuit" ELSE "record_health")
    /\ result' = [result EXCEPT ![r] = Outcome(res)]
    /\ UNCHANGED <<in_flight, next, health, circuit, observed, attempt, index, circuit_rejected>>
RecordHealth(r) ==
    /\ Goto(r, "record_health", "record_circuit")
    /\ health' = [health EXCEPT ![index[r]] = record(@, result[r] = "success")]
    /\ UNCHANGED <<in_flight, next, circuit, locals>>
\* Faulty variant: a neutral outcome is dropped.
RecordCircuit_NoNeutral(r) ==
    /\ Goto(r, "record_circuit", "leave")
    /\ circuit' = [circuit EXCEPT ![index[r]] =
                     CASE result[r] = "success" -> recordSuccess(@)
                       [] result[r] = "failure" -> recordFailure(@)
                       [] OTHER -> @]
    /\ UNCHANGED <<in_flight, next, health, locals>>
RecordCircuit(r) ==
    /\ Goto(r, "record_circuit", "leave")
    /\ circuit' = [circuit EXCEPT ![index[r]] =
                     CASE result[r] = "success" -> recordSuccess(@)
                       [] result[r] = "failure" -> recordFailure(@)
                       [] result[r] = "neutral" -> recordNeutral(@)]
    /\ UNCHANGED <<in_flight, next, health, locals>>

\* ~InFlightRelease, on every way out after admission; the locals end here.
Leave(r) ==
    /\ Goto(r, "leave", "done")
    /\ in_flight' = in_flight - 1
    /\ attempt' = [attempt EXCEPT ![r] = 0]
    /\ index' = [index EXCEPT ![r] = 0]
    /\ circuit_rejected' = [circuit_rejected EXCEPT ![r] = FALSE]
    /\ result' = [result EXCEPT ![r] = "none"]
    /\ UNCHANGED <<next, health, circuit, observed>>

\* HealthChecker::probeAndPublish, and the clock reaching a breaker's retry_at_.
ProbePublishes(e, ok) ==
    /\ health' = [health EXCEPT ![e] = record(@, ok)]
    /\ UNCHANGED <<in_flight, next, circuit, pc, locals>>
CooldownElapses(e) ==
    /\ circuit[e].state = "Open" /\ ~circuit[e].cooled
    /\ circuit' = [circuit EXCEPT ![e] = CoolDown(@)]
    /\ UNCHANGED <<in_flight, next, health, pc, locals>>

\* The steps of operator() itself, and the end of the transaction it waits for.
Proceeds(r) ==
    \/ Overloaded(r) \/ Admitted(r) \/ AdmitRetry(r)
    \/ DrawCandidate(r) \/ IsHealthy(r) \/ AllowRequest(r) \/ Snapshot(r) \/ Unavailable(r)
    \/ AcquireRefused(r) \/ AcquireGranted(r)
    \/ RecordHealth(r) \/ RecordCircuit(r) \/ Leave(r)
RequestStep(r) == Proceeds(r) \/ \E res \in Results : Transact(r, res)
Environment ==
    \/ \E r \in Requests : Begin(r)
    \/ \E e \in Endpoints : CooldownElapses(e) \/ \E ok \in BOOLEAN : ProbePublishes(e, ok)

Next == Environment \/ \E r \in Requests : RequestStep(r)

Spec == Init /\ [][Next]_vars

\* A request that has begun goes on: its executor runs, and the pool answers within
\* acquire_timeout (UpstreamPool!EveryAcquireCompletes).  Nothing makes a transaction
\* end: a deadline can be used up before the operation it was for
\* (ProxyTransaction!TransactionEnds), and a streamed response waits for a client
\* without any.
FairSpec == Spec /\ \A r \in Requests : WF_vars(Proceeds(r))

-----------------------------------------------------------------------------
(* Properties *)

\* The type of every variable (the first conjunct of InFlightExact).
TypeOK ==
    /\ in_flight \in Nat
    /\ next \in Endpoints
    /\ health \in [Endpoints -> EndpointHealth]
    /\ circuit \in [Endpoints -> Breaker]
    /\ pc \in [Requests -> {"done", "admit", "select", "health", "permit", "snapshot", "acquire",
                            "transact", "record_health", "record_circuit", "leave"}]
    /\ observed \in [Requests -> Nat]
    /\ attempt \in [Requests -> 0 .. upstream_count]
    /\ index \in [Requests -> Endpoints]
    /\ circuit_rejected \in [Requests -> BOOLEAN]
    /\ result \in [Requests -> {"none", "success", "failure", "neutral", 
                            "overloaded", "circuit_open", "no_healthy"}]

Inside == {r \in Requests : pc[r] \notin {"done", "admit"}}

\* in_flight counts exactly the admitted requests, and never exceeds its limit
\* however the compare-and-swap loops interleave.
InFlightExact ==
    /\ TypeOK
    /\ in_flight = Cardinality(Inside) /\ in_flight <= max_in_flight_requests

\* The requests that were let through to endpoint e and have not been recorded.
Outstanding(e) ==
    {r \in Requests : /\ pc[r] \in {"acquire", "transact", "record_health", "record_circuit"}
                      /\ index[r] = e}

\* Every probe a half-open breaker counts belongs to a request still under way:
\* "record exactly one upstream outcome for each allowed request".  A probe that
\* nobody will give back would keep the breaker half-open and closed to all.
ProbesBacked ==
    \A e \in Endpoints :
        /\ circuit[e].probes_in_flight <= Cardinality(Outstanding(e))
        /\ circuit[e].probes_in_flight <= half_open_max_probes
        /\ circuit[e].state # "HalfOpen" => circuit[e].probes_in_flight = 0

UsedUp(e) == circuit[e].state = "HalfOpen" /\ circuit[e].probes_in_flight = half_open_max_probes
Hung(e) == Outstanding(e) # {} /\ \A r \in Outstanding(e) : pc[r] = "transact"

\* A half-open breaker that has used up its probes stays so, closed to every request,
\* only while transactions that never end hold them: no outcome that arrives, of a
\* probe or of a request let through earlier, leaves it there, and neither does a
\* refusal of the pool.  That exception is the code's: allowRequest() has no limit on
\* how long a probe may take.
HalfOpenResolves == \A e \in Endpoints : <>[]UsedUp(e) => <>[]Hung(e)
=============================================================================
