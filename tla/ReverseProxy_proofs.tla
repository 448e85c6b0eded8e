------------------------ MODULE ReverseProxy_proofs ------------------------
(***************************************************************************)
(* Proofs about ReverseProxy.  The methods of the circuit breaker come     *)
(* first, as facts about one breaker; the invariant of the proxy then      *)
(* follows each request from admission to ~InFlightRelease.  No bound on   *)
(* the number of concurrent callers is assumed: that the admitted ones are *)
(* finitely many is part of the invariant.                                 *)
(***************************************************************************)
EXTENDS ReverseProxy, FiniteSetTheorems, TLAPS

-----------------------------------------------------------------------------
(* One circuit breaker *)

\* Probes are counted only while half-open, and at most half_open_max_probes.
BreakerSound(b) ==
    /\ b \in Breaker
    /\ b.probes_in_flight <= half_open_max_probes
    /\ b.state # "HalfOpen" => b.probes_in_flight = 0

LEMMA NewBreakerSound == BreakerSound(NewBreaker) /\ NewBreaker.probes_in_flight = 0
  BY CircuitBreakerLimits DEF BreakerSound, NewBreaker, Breaker

LEMMA OpenSound ==
  ASSUME NEW b
  PROVE  BreakerSound(open(b)) /\ open(b).probes_in_flight = 0
  BY CircuitBreakerLimits DEF BreakerSound, open, Breaker

\* allowRequest counts at most one probe more, and none for a request it refuses.
LEMMA AllowKeeps ==
  ASSUME NEW b, BreakerSound(b)
  PROVE  /\ BreakerSound(allowRequest(b))
         /\ allowRequest(b).probes_in_flight <= b.probes_in_flight + 1
         /\ ~Allows(b) => allowRequest(b).probes_in_flight <= b.probes_in_flight
<1> DEFINE h == HalfOpened(b)
<1>1. b \in Breaker /\ half_open_max_probes \in Nat \ {0} /\ b.probes_in_flight \in Nat
  BY CircuitBreakerLimits DEF BreakerSound, Breaker
<1>2. h \in Breaker /\ BreakerSound(h) /\ h.probes_in_flight <= b.probes_in_flight
  <2>1. CASE b.state = "Open" /\ b.cooled
    <3>1. h = [b EXCEPT !.state = "HalfOpen", !.probes_in_flight = 0]
      BY <2>1 DEF HalfOpened
    <3> HIDE DEF h
    <3>2. h \in Breaker /\ h.state = "HalfOpen" /\ h.probes_in_flight = 0
      BY <1>1, <3>1 DEF Breaker
    <3> QED
      BY <1>1, <3>2 DEF BreakerSound
  <2>2. CASE ~(b.state = "Open" /\ b.cooled)
    <3>1. h = b
      BY <2>2 DEF HalfOpened
    <3> QED
      BY <1>1, <3>1
  <2> QED
    BY <2>1, <2>2
<1>3. CASE h.state = "HalfOpen" /\ Allows(b)
  <2>1. allowRequest(b) = [h EXCEPT !.probes_in_flight = @ + 1]
    BY <1>3 DEF allowRequest
  <2>2. h.probes_in_flight < half_open_max_probes
    BY <1>3 DEF Allows
  <2> HIDE DEF h
  <2>3. /\ allowRequest(b) \in Breaker
        /\ allowRequest(b).probes_in_flight = h.probes_in_flight + 1
        /\ allowRequest(b).state = "HalfOpen"
        /\ h.probes_in_flight \in Nat
    BY <1>2, <1>3, <2>1 DEF Breaker
  <2> QED
    BY <1>1, <1>2, <1>3, <2>2, <2>3 DEF BreakerSound
<1>4. CASE ~(h.state = "HalfOpen" /\ Allows(b))
  <2>1. allowRequest(b) = h
    BY <1>4 DEF allowRequest
  <2> QED
    BY <1>1, <1>2, <2>1 DEF Breaker
<1> QED
  BY <1>3, <1>4

\* Each of the three record methods gives a probe back or forgets them all.
GivesBack(b, c) ==
    /\ BreakerSound(c)
    /\ c.probes_in_flight = 0 \/ c.probes_in_flight = b.probes_in_flight - 1

LEMMA SuccessGivesBack ==
  ASSUME NEW b, BreakerSound(b)
  PROVE  GivesBack(b, recordSuccess(b))
  BY NewBreakerSound DEF recordSuccess, GivesBack

LEMMA FailureGivesBack ==
  ASSUME NEW b, BreakerSound(b)
  PROVE  GivesBack(b, recordFailure(b))
<1>1. CASE b.state = "HalfOpen"
  BY <1>1, OpenSound DEF recordFailure, GivesBack
<1>2. CASE b.state = "Open"
  BY <1>2 DEF recordFailure, GivesBack, BreakerSound
<1>3. CASE b.state = "Closed" /\ b.consecutive_failures + 1 >= failure_threshold
  BY <1>3, OpenSound DEF recordFailure, GivesBack
<1>4. CASE b.state = "Closed" /\ ~(b.consecutive_failures + 1 >= failure_threshold)
  <2>1. recordFailure(b) = [b EXCEPT !.consecutive_failures = @ + 1]
    BY <1>4 DEF recordFailure
  <2> QED
    BY <1>4, <2>1 DEF GivesBack, BreakerSound, Breaker
<1> QED
  BY <1>1, <1>2, <1>3, <1>4 DEF BreakerSound, Breaker

LEMMA NeutralGivesBack ==
  ASSUME NEW b, BreakerSound(b)
  PROVE  GivesBack(b, recordNeutral(b))
<1>1. b.probes_in_flight \in Nat /\ half_open_max_probes \in Nat
  BY CircuitBreakerLimits DEF BreakerSound, Breaker
<1>2. CASE b.state = "HalfOpen" /\ b.probes_in_flight > 0
  <2>1. recordNeutral(b) = [b EXCEPT !.probes_in_flight = @ - 1]
    BY <1>2 DEF recordNeutral
  <2> QED
    BY <1>1, <1>2, <2>1 DEF GivesBack, BreakerSound, Breaker
<1>3. CASE ~(b.state = "HalfOpen" /\ b.probes_in_flight > 0)
  BY <1>1, <1>3 DEF recordNeutral, GivesBack, BreakerSound
<1> QED
  BY <1>2, <1>3

LEMMA CoolDownSound ==
  ASSUME NEW b, BreakerSound(b)
  PROVE  BreakerSound(CoolDown(b)) /\ CoolDown(b).probes_in_flight = b.probes_in_flight
  BY DEF CoolDown, BreakerSound, Breaker

-----------------------------------------------------------------------------
(* One entry of the health store *)

LEMMA RecordTyped ==
  ASSUME NEW h \in EndpointHealth, NEW ok \in BOOLEAN
  PROVE  record(h, ok) \in EndpointHealth
<1>1. Saturated(h.consecutive_successes, healthy_threshold) \in 0 .. healthy_threshold
  BY HealthThresholds DEF Saturated, EndpointHealth
<1>2. Saturated(h.consecutive_failures, unhealthy_threshold) \in 0 .. unhealthy_threshold
  BY HealthThresholds DEF Saturated, EndpointHealth
<1>3. 0 \in 0 .. healthy_threshold /\ 0 \in 0 .. unhealthy_threshold
  BY HealthThresholds
<1> QED
  BY <1>1, <1>2, <1>3 DEF record, EndpointHealth

-----------------------------------------------------------------------------
(* The inductive invariant *)

\* The draws of a request that is still choosing are not used up.
DrawsLeft ==
    \A r \in Requests : pc[r] \in {"health", "permit", "snapshot"} => attempt[r] < upstream_count

\* What a request is about to record is an outcome; a neutral one skips the store.
OutcomeKnown ==
    \A r \in Requests :
        /\ pc[r] = "record_health" => result[r] \in {"success", "failure"}
        /\ pc[r] = "record_circuit" => result[r] \in {"success", "failure", "neutral"}

Counted ==
    /\ IsFiniteSet(Inside)
    /\ in_flight = Cardinality(Inside)
    /\ in_flight <= max_in_flight_requests

IInv == TypeOK /\ DrawsLeft /\ OutcomeKnown /\ Counted /\ ProbesBacked

AwaitingRecord == {"acquire", "transact", "record_health", "record_circuit"}

\* Cardinalities when one element joins or leaves a finite set.
LEMMA OneMoves ==
  ASSUME NEW S, IsFiniteSet(S), NEW x
  PROVE  /\ Cardinality(S) \in Nat
         /\ IsFiniteSet(S \cup {x}) /\ IsFiniteSet(S \ {x})
         /\ x \notin S => Cardinality(S \cup {x}) = Cardinality(S) + 1
         /\ x \in S => Cardinality(S \ {x}) = Cardinality(S) - 1 /\ Cardinality(S) >= 1
<1>1. Cardinality(S) \in Nat
  BY FS_CardinalityType
<1>2. IsFiniteSet(S \cup {x}) /\ (x \notin S => Cardinality(S \cup {x}) = Cardinality(S) + 1)
  BY <1>1, FS_AddElement
<1>3. IsFiniteSet(S \ {x}) /\ (x \in S => Cardinality(S \ {x}) = Cardinality(S) - 1)
  BY <1>1, FS_RemoveElement
<1>4. x \in S => Cardinality(S) >= 1
  <2>1. HAVE x \in S
  <2>2. Cardinality(S) # 0
    BY <2>1, FS_EmptySet
  <2> QED
    BY <1>1, <2>2
<1> QED
  BY <1>1, <1>2, <1>3, <1>4

\* The requests let through to an endpoint are admitted ones, so they are finitely many.
LEMMA OutstandingFinite ==
  ASSUME Counted, NEW e
  PROVE  IsFiniteSet(Outstanding(e)) /\ Cardinality(Outstanding(e)) \in Nat
<1>1. Outstanding(e) \subseteq Inside
  BY DEF Outstanding, Inside
<1> QED
  BY <1>1, FS_Subset, FS_CardinalityType DEF Counted

LEMMA BreakersSound ==
  ASSUME TypeOK, ProbesBacked, NEW e \in Endpoints
  PROVE  BreakerSound(circuit[e]) /\ circuit[e].probes_in_flight <= Cardinality(Outstanding(e))
  BY DEF TypeOK, ProbesBacked, BreakerSound

LEMMA BackedIf ==
  ASSUME \A e \in Endpoints : /\ BreakerSound(circuit'[e])
                              /\ circuit'[e].probes_in_flight <= Cardinality(Outstanding(e)')
  PROVE  ProbesBacked'
  BY DEF ProbesBacked, BreakerSound

\* A step that leaves every Outstanding(e) and every breaker's count alone.
LEMMA BackedStill ==
  ASSUME TypeOK, ProbesBacked, \A e \in Endpoints : Outstanding(e)' = Outstanding(e),
         circuit' = circuit
  PROVE  ProbesBacked'
  BY BreakersSound, BackedIf

LEMMA CountedStill ==
  ASSUME Counted, Inside' = Inside, in_flight' = in_flight
  PROVE  Counted'
  BY DEF Counted

\* Where pc[r] stands decides whether r is in Inside and in Outstanding.
LEMMA PcDecides ==
  ASSUME NEW r \in Requests, TypeOK, NEW to, pc' = [pc EXCEPT ![r] = to]
  PROVE  /\ pc[r] \in {"done", "admit"} /\ to \in {"done", "admit"} => Inside' = Inside
         /\ pc[r] \in {"done", "admit"} /\ to \notin {"done", "admit"}
              => Inside' = Inside \cup {r} /\ r \notin Inside
         /\ pc[r] \notin {"done", "admit"} /\ to \in {"done", "admit"}
              => Inside' = Inside \ {r} /\ r \in Inside
<1>1. pc'[r] = to /\ \A q \in Requests \ {r} : pc'[q] = pc[q]
  BY DEF TypeOK
<1> QED
  BY <1>1 DEF Inside

LEMMA InsideStill ==
  ASSUME NEW r \in Requests, TypeOK, NEW to, pc' = [pc EXCEPT ![r] = to],
         pc[r] \notin {"done", "admit"}, to \notin {"done", "admit"}
  PROVE  Inside' = Inside
<1>1. pc'[r] = to /\ \A q \in Requests \ {r} : pc'[q] = pc[q]
  BY DEF TypeOK
<1> QED
  BY <1>1 DEF Inside

LEMMA OutstandingStill ==
  ASSUME NEW r \in Requests, TypeOK, NEW to, pc' = [pc EXCEPT ![r] = to],
         \/ pc[r] \in AwaitingRecord /\ to \in AwaitingRecord /\ index' = index
         \/ pc[r] \notin AwaitingRecord /\ to \notin AwaitingRecord
              /\ \A q \in Requests \ {r} : index'[q] = index[q]
  PROVE  \A e \in Endpoints : Outstanding(e)' = Outstanding(e)
<1>1. pc'[r] = to /\ \A q \in Requests \ {r} : pc'[q] = pc[q]
  BY DEF TypeOK
<1> QED
  BY <1>1 DEF Outstanding, AwaitingRecord

LEMMA OutstandingJoins ==
  ASSUME NEW r \in Requests, TypeOK, NEW to, pc' = [pc EXCEPT ![r] = to], index' = index,
         pc[r] \notin AwaitingRecord, to \in AwaitingRecord
  PROVE  /\ \A e \in Endpoints \ {index[r]} : Outstanding(e)' = Outstanding(e)
         /\ Outstanding(index[r])' = Outstanding(index[r]) \cup {r} /\ r \notin Outstanding(index[r])
<1>1. pc'[r] = to /\ \A q \in Requests \ {r} : pc'[q] = pc[q]
  BY DEF TypeOK
<1> QED
  BY <1>1 DEF Outstanding, AwaitingRecord

LEMMA OutstandingLeaves ==
  ASSUME NEW r \in Requests, TypeOK, NEW to, pc' = [pc EXCEPT ![r] = to], index' = index,
         pc[r] \in AwaitingRecord, to \notin AwaitingRecord
  PROVE  /\ \A e \in Endpoints \ {index[r]} : Outstanding(e)' = Outstanding(e)
         /\ Outstanding(index[r])' = Outstanding(index[r]) \ {r} /\ r \in Outstanding(index[r])
<1>1. pc'[r] = to /\ \A q \in Requests \ {r} : pc'[q] = pc[q]
  BY DEF TypeOK
<1> QED
  BY <1>1 DEF Outstanding, AwaitingRecord

-----------------------------------------------------------------------------
(* The steps of one request *)

\* Admission: a request that is refused or tries again stays outside.
LEMMA BeginKeeps ==
  ASSUME IInv, NEW r \in Requests, Begin(r)
  PROVE  IInv'
<1>1. pc' = [pc EXCEPT ![r] = "admit"] /\ pc[r] = "done"
  BY DEF Begin, Goto
<1>2. TypeOK' /\ DrawsLeft' /\ OutcomeKnown'
  BY DEF IInv, Begin, Goto, TypeOK, DrawsLeft, OutcomeKnown
<1>3. Inside' = Inside
  BY <1>1, PcDecides DEF IInv
<1>4. \A e \in Endpoints : Outstanding(e)' = Outstanding(e)
  BY <1>1, OutstandingStill DEF IInv, AwaitingRecord, Begin
<1> QED
  BY <1>2, <1>3, <1>4, CountedStill, BackedStill DEF IInv, Begin

LEMMA OverloadedKeeps ==
  ASSUME IInv, NEW r \in Requests, Overloaded(r)
  PROVE  IInv'
<1>1. pc' = [pc EXCEPT ![r] = "done"] /\ pc[r] = "admit"
  BY DEF Overloaded, Goto
<1>2. TypeOK' /\ DrawsLeft' /\ OutcomeKnown'
  BY DEF IInv, Overloaded, Goto, TypeOK, DrawsLeft, OutcomeKnown
<1>3. Inside' = Inside
  BY <1>1, PcDecides DEF IInv
<1>4. \A e \in Endpoints : Outstanding(e)' = Outstanding(e)
  BY <1>1, OutstandingStill DEF IInv, AwaitingRecord, Overloaded
<1> QED
  BY <1>2, <1>3, <1>4, CountedStill, BackedStill DEF IInv, Overloaded

\* The compare-and-swap succeeds only on the value that was compared with the limit.
LEMMA AdmittedKeeps ==
  ASSUME IInv, NEW r \in Requests, Admitted(r)
  PROVE  IInv'
<1>1. pc' = [pc EXCEPT ![r] = "select"] /\ pc[r] = "admit"
  BY DEF Admitted, Goto
<1>2. TypeOK' /\ DrawsLeft' /\ OutcomeKnown'
  BY DEF IInv, Admitted, Goto, TypeOK, DrawsLeft, OutcomeKnown
<1>3. Inside' = Inside \cup {r} /\ r \notin Inside
  BY <1>1, PcDecides DEF IInv
<1>4. \A e \in Endpoints : Outstanding(e)' = Outstanding(e)
  BY <1>1, OutstandingStill DEF IInv, AwaitingRecord, Admitted
<1>5. Counted'
  <2>1. /\ IsFiniteSet(Inside') /\ Cardinality(Inside') = Cardinality(Inside) + 1
    BY <1>3, OneMoves DEF IInv, Counted
  <2>2. in_flight' = in_flight + 1 /\ in_flight < max_in_flight_requests /\ in_flight \in Nat
    BY DEF Admitted, IInv, TypeOK
  <2> QED
    BY <2>1, <2>2, ProxyLimits DEF IInv, Counted
<1> QED
  BY <1>2, <1>4, <1>5, BackedStill DEF IInv, Admitted

LEMMA AdmitRetryKeeps ==
  ASSUME IInv, NEW r \in Requests, AdmitRetry(r)
  PROVE  IInv'
<1>1. TypeOK' /\ DrawsLeft' /\ OutcomeKnown'
  BY DEF IInv, AdmitRetry, TypeOK, DrawsLeft, OutcomeKnown
<1>2. Inside' = Inside /\ \A e \in Endpoints : Outstanding(e)' = Outstanding(e)
  BY DEF AdmitRetry, Inside, Outstanding
<1> QED
  BY <1>1, <1>2, CountedStill, BackedStill DEF IInv, AdmitRetry

\* Selection: no request is let through before allowRequest says so.
LEMMA DrawCandidateKeeps ==
  ASSUME IInv, NEW r \in Requests, DrawCandidate(r)
  PROVE  IInv'
<1>1. pc' = [pc EXCEPT ![r] = "health"] /\ pc[r] = "select"
  BY DEF DrawCandidate, Goto
<1>2. next' \in Endpoints
  BY ProxyLimits DEF IInv, TypeOK, DrawCandidate, Endpoints
<1>3. TypeOK' /\ DrawsLeft' /\ OutcomeKnown'
  BY <1>2 DEF IInv, DrawCandidate, Goto, TypeOK, DrawsLeft, OutcomeKnown
<1>4. Inside' = Inside
  BY <1>1, InsideStill DEF IInv
<1>5. \A e \in Endpoints : Outstanding(e)' = Outstanding(e)
  <2>1. \A q \in Requests \ {r} : index'[q] = index[q]
    BY DEF DrawCandidate, IInv, TypeOK
  <2> QED
    BY <1>1, <2>1, OutstandingStill DEF IInv, AwaitingRecord
<1> QED
  BY <1>3, <1>4, <1>5, CountedStill, BackedStill DEF IInv, DrawCandidate

LEMMA IsHealthyKeeps ==
  ASSUME IInv, NEW r \in Requests, IsHealthy(r)
  PROVE  IInv'
<1>1. PICK to \in {"permit", "snapshot"} : pc' = [pc EXCEPT ![r] = to] /\ pc[r] = "health"
  BY DEF IsHealthy, Goto
<1>2. TypeOK' /\ DrawsLeft' /\ OutcomeKnown'
  BY <1>1 DEF IInv, IsHealthy, TypeOK, DrawsLeft, OutcomeKnown, locals
<1>3. Inside' = Inside
  BY <1>1, InsideStill DEF IInv
<1>4. \A e \in Endpoints : Outstanding(e)' = Outstanding(e)
  BY <1>1, OutstandingStill DEF IInv, AwaitingRecord, IsHealthy, locals
<1> QED
  BY <1>2, <1>3, <1>4, CountedStill, BackedStill DEF IInv, IsHealthy

\* allowRequest: the probe it counts is the request that it lets through.
LEMMA AllowRequestKeeps ==
  ASSUME IInv, NEW r \in Requests, AllowRequest(r)
  PROVE  IInv'
<1> DEFINE i == index[r]
           b == circuit[i]
           to == IF Allows(b) THEN "acquire" ELSE "snapshot"
<1>1. pc' = [pc EXCEPT ![r] = to] /\ pc[r] = "permit" /\ index' = index
  BY DEF AllowRequest, Goto, locals
<1>2. i \in Endpoints /\ circuit' = [circuit EXCEPT ![i] = allowRequest(b)] /\ in_flight' = in_flight
  BY DEF AllowRequest, IInv, TypeOK
<1>3. BreakerSound(b) /\ b.probes_in_flight <= Cardinality(Outstanding(i)) /\ b.probes_in_flight \in Nat
  BY <1>2, BreakersSound DEF IInv, BreakerSound, Breaker
<1>4. /\ BreakerSound(allowRequest(b))
      /\ allowRequest(b).probes_in_flight <= b.probes_in_flight + 1
      /\ ~Allows(b) => allowRequest(b).probes_in_flight <= b.probes_in_flight
      /\ allowRequest(b).probes_in_flight \in Nat
  <2>1. BreakerSound(allowRequest(b)) => allowRequest(b).probes_in_flight \in Nat
    BY DEF BreakerSound, Breaker
  <2> QED
    BY <1>3, <2>1, AllowKeeps
<1>5. TypeOK' /\ DrawsLeft' /\ OutcomeKnown'
  <2>1. circuit' \in [Endpoints -> Breaker]
    BY <1>2, <1>4 DEF IInv, TypeOK, BreakerSound
  <2> QED
    BY <1>1, <2>1 DEF IInv, AllowRequest, TypeOK, DrawsLeft, OutcomeKnown, locals
<1>6. Counted'
  BY <1>1, <1>2, InsideStill, CountedStill DEF IInv
<1>7. /\ circuit'[i] = allowRequest(b)
      /\ \A e \in Endpoints \ {i} : circuit'[e] = circuit[e]
  BY <1>2 DEF IInv, TypeOK
<1>8. ASSUME NEW e \in Endpoints
      PROVE  BreakerSound(circuit'[e]) /\ circuit'[e].probes_in_flight <= Cardinality(Outstanding(e)')
  <2>1. CASE e # i
    <3>1. Outstanding(e)' = Outstanding(e)
      BY <1>1, <2>1, OutstandingStill, OutstandingJoins DEF IInv, AwaitingRecord
    <3> QED
      BY <1>7, <2>1, <3>1, BreakersSound DEF IInv
  <2>2. CASE e = i /\ Allows(b)
    <3>1. Outstanding(e)' = Outstanding(e) \cup {r} /\ r \notin Outstanding(e)
      BY <1>1, <2>2, OutstandingJoins DEF IInv, AwaitingRecord
    <3>2. Cardinality(Outstanding(e)') = Cardinality(Outstanding(e)) + 1 /\ Cardinality(Outstanding(e)) \in Nat
      BY <3>1, OutstandingFinite, OneMoves DEF IInv
    <3> HIDE DEF b, i
    <3> QED
      BY <1>3, <1>4, <1>7, <2>2, <3>2
  <2>3. CASE e = i /\ ~Allows(b)
    <3>1. Outstanding(e)' = Outstanding(e)
      BY <1>1, <2>3, OutstandingStill DEF IInv, AwaitingRecord
    <3>2. Cardinality(Outstanding(e)) \in Nat
      BY OutstandingFinite DEF IInv
    <3> HIDE DEF b, i
    <3> QED
      BY <1>3, <1>4, <1>7, <2>3, <3>1, <3>2
  <2> QED
    BY <2>1, <2>2, <2>3
<1> QED
  BY <1>5, <1>6, <1>8, BackedIf DEF IInv

LEMMA SnapshotKeeps ==
  ASSUME IInv, NEW r \in Requests, Snapshot(r)
  PROVE  IInv'
<1>1. pc' = [pc EXCEPT ![r] = "select"] /\ pc[r] = "snapshot"
  BY DEF Snapshot, Goto
<1>2. attempt'[r] = attempt[r] + 1 /\ attempt'[r] \in 0 .. upstream_count
  BY <1>1, ProxyLimits DEF Snapshot, IInv, TypeOK, DrawsLeft
<1>3. attempt' \in [Requests -> 0 .. upstream_count]
  BY <1>2 DEF Snapshot, IInv, TypeOK
<1>4. TypeOK' /\ DrawsLeft' /\ OutcomeKnown'
  BY <1>1, <1>3 DEF IInv, Snapshot, TypeOK, DrawsLeft, OutcomeKnown
<1>5. Inside' = Inside
  BY <1>1, InsideStill DEF IInv
<1>6. \A e \in Endpoints : Outstanding(e)' = Outstanding(e)
  BY <1>1, OutstandingStill DEF IInv, AwaitingRecord, Snapshot
<1> QED
  BY <1>4, <1>5, <1>6, CountedStill, BackedStill DEF IInv, Snapshot

LEMMA UnavailableKeeps ==
  ASSUME IInv, NEW r \in Requests, Unavailable(r)
  PROVE  IInv'
<1>1. pc' = [pc EXCEPT ![r] = "leave"] /\ pc[r] = "select"
  BY DEF Unavailable, Goto
<1>2. TypeOK' /\ DrawsLeft' /\ OutcomeKnown'
  BY <1>1 DEF IInv, Unavailable, TypeOK, DrawsLeft, OutcomeKnown
<1>3. Inside' = Inside
  BY <1>1, InsideStill DEF IInv
<1>4. \A e \in Endpoints : Outstanding(e)' = Outstanding(e)
  BY <1>1, OutstandingStill DEF IInv, AwaitingRecord, Unavailable
<1> QED
  BY <1>2, <1>3, <1>4, CountedStill, BackedStill DEF IInv, Unavailable

\* A request that gives its probe back, or finds the probes forgotten, ceases to be
\* outstanding in the same step.
LEMMA GivingBackKeeps ==
  ASSUME IInv, NEW r \in Requests, NEW c, GivesBack(circuit[index[r]], c),
         pc[r] \in AwaitingRecord, pc' = [pc EXCEPT ![r] = "leave"], index' = index,
         circuit' = [circuit EXCEPT ![index[r]] = c]
  PROVE  ProbesBacked' /\ circuit' \in [Endpoints -> Breaker] /\ Inside' = Inside
<1> DEFINE i == index[r]
           b == circuit[i]
<1>1. i \in Endpoints /\ BreakerSound(c) /\ c.probes_in_flight \in Nat
  BY DEF IInv, TypeOK, GivesBack, BreakerSound, Breaker
<1>2. circuit' \in [Endpoints -> Breaker]
  BY <1>1 DEF IInv, TypeOK, BreakerSound
<1>3. circuit'[i] = c /\ \A e \in Endpoints \ {i} : circuit'[e] = circuit[e]
  BY <1>1 DEF IInv, TypeOK
<1>4. BreakerSound(b) /\ b.probes_in_flight <= Cardinality(Outstanding(i)) /\ b.probes_in_flight \in Nat
  BY <1>1, BreakersSound DEF IInv, BreakerSound, Breaker
<1>5. /\ \A e \in Endpoints \ {i} : Outstanding(e)' = Outstanding(e)
      /\ Outstanding(i)' = Outstanding(i) \ {r} /\ r \in Outstanding(i)
  BY OutstandingLeaves DEF IInv, AwaitingRecord
<1>6. /\ Cardinality(Outstanding(i) \ {r}) = Cardinality(Outstanding(i)) - 1
      /\ Cardinality(Outstanding(i)) \in Nat /\ Cardinality(Outstanding(i)) >= 1
  BY <1>5, OutstandingFinite, OneMoves DEF IInv
<1>7. ASSUME NEW e \in Endpoints
      PROVE  BreakerSound(circuit'[e]) /\ circuit'[e].probes_in_flight <= Cardinality(Outstanding(e)')
  <2>1. CASE e # i
    BY <1>3, <1>5, <2>1, BreakersSound DEF IInv
  <2>2. CASE e = i
    <3>1. c.probes_in_flight = 0 \/ c.probes_in_flight = b.probes_in_flight - 1
      BY DEF GivesBack
    <3>2. Outstanding(e)' = Outstanding(i) \ {r}
      BY <1>5, <2>2
    <3> HIDE DEF b, i
    <3> QED
      BY <1>1, <1>3, <1>4, <1>6, <2>2, <3>1, <3>2
  <2> QED
    BY <2>1, <2>2
<1>8. Inside' = Inside
  BY InsideStill DEF IInv, AwaitingRecord
<1> QED
  BY <1>2, <1>7, <1>8, BackedIf

LEMMA AcquireRefusedKeeps ==
  ASSUME IInv, NEW r \in Requests, AcquireRefused(r)
  PROVE  IInv'
<1> DEFINE b == circuit[index[r]]
<1>1. pc' = [pc EXCEPT ![r] = "leave"] /\ pc[r] = "acquire" /\ index' = index
  BY DEF AcquireRefused, Goto
<1>2. circuit' = [circuit EXCEPT ![index[r]] = recordNeutral(b)]
  BY DEF AcquireRefused
<1>3. index[r] \in Endpoints
  BY DEF IInv, TypeOK
<1>4. GivesBack(b, recordNeutral(b))
  BY <1>3, BreakersSound, NeutralGivesBack DEF IInv
<1>5. ProbesBacked' /\ circuit' \in [Endpoints -> Breaker] /\ Inside' = Inside
  BY <1>1, <1>2, <1>4, GivingBackKeeps DEF AwaitingRecord
<1>6. TypeOK' /\ DrawsLeft' /\ OutcomeKnown'
  BY <1>1, <1>5 DEF IInv, AcquireRefused, TypeOK, DrawsLeft, OutcomeKnown
<1> QED
  BY <1>5, <1>6, CountedStill DEF IInv, AcquireRefused

LEMMA AcquireGrantedKeeps ==
  ASSUME IInv, NEW r \in Requests, AcquireGranted(r)
  PROVE  IInv'
<1>1. pc' = [pc EXCEPT ![r] = "transact"] /\ pc[r] = "acquire"
  BY DEF AcquireGranted, Goto
<1>2. TypeOK' /\ DrawsLeft' /\ OutcomeKnown'
  BY <1>1 DEF IInv, AcquireGranted, TypeOK, DrawsLeft, OutcomeKnown, locals
<1>3. Inside' = Inside
  BY <1>1, InsideStill DEF IInv
<1>4. \A e \in Endpoints : Outstanding(e)' = Outstanding(e)
  BY <1>1, OutstandingStill DEF IInv, AwaitingRecord, AcquireGranted, locals
<1> QED
  BY <1>2, <1>3, <1>4, CountedStill, BackedStill DEF IInv, AcquireGranted

\* The outcome of the ProxySession: one of three, and a neutral one is not recorded as health.
LEMMA TransactKeeps ==
  ASSUME IInv, NEW r \in Requests, NEW res \in Results, Transact(r, res)
  PROVE  IInv'
<1> DEFINE to == IF Outcome(res) = "neutral" THEN "record_circuit" ELSE "record_health"
<1>1. pc' = [pc EXCEPT ![r] = to] /\ pc[r] = "transact" /\ index' = index
  BY DEF Transact, Goto
<1>2. Outcome(res) \in {"success", "neutral", "failure"}
  BY DEF Outcome
<1>3. result' = [result EXCEPT ![r] = Outcome(res)]
  BY DEF Transact
<1>4. TypeOK'
  BY <1>1, <1>2, <1>3 DEF IInv, Transact, TypeOK
<1>5. DrawsLeft' /\ OutcomeKnown'
  BY <1>1, <1>2, <1>3 DEF IInv, Transact, TypeOK, DrawsLeft, OutcomeKnown
<1>6. Inside' = Inside
  <2>1. to \notin {"done", "admit"} /\ pc[r] \notin {"done", "admit"}
    BY <1>1
  <2> HIDE DEF to
  <2> QED
    BY <1>1, <2>1, InsideStill DEF IInv
<1>7. \A e \in Endpoints : Outstanding(e)' = Outstanding(e)
  BY <1>1, OutstandingStill DEF IInv, AwaitingRecord
<1> QED
  BY <1>4, <1>5, <1>6, <1>7, CountedStill, BackedStill DEF IInv, Transact

LEMMA RecordHealthKeeps ==
  ASSUME IInv, NEW r \in Requests, RecordHealth(r)
  PROVE  IInv'
<1>1. pc' = [pc EXCEPT ![r] = "record_circuit"] /\ pc[r] = "record_health"
  BY DEF RecordHealth, Goto
<1>2. health' \in [Endpoints -> EndpointHealth]
  <2>1. index[r] \in Endpoints /\ health[index[r]] \in EndpointHealth
    BY DEF IInv, TypeOK
  <2>2. (result[r] = "success") \in BOOLEAN
    OBVIOUS
  <2>3. record(health[index[r]], result[r] = "success") \in EndpointHealth
    BY <2>1, <2>2, RecordTyped
  <2> QED
    BY <2>1, <2>3 DEF RecordHealth, IInv, TypeOK
<1>3. TypeOK' /\ DrawsLeft' /\ OutcomeKnown'
  BY <1>1, <1>2 DEF IInv, RecordHealth, TypeOK, DrawsLeft, OutcomeKnown, locals
<1>4. Inside' = Inside
  BY <1>1, InsideStill DEF IInv
<1>5. \A e \in Endpoints : Outstanding(e)' = Outstanding(e)
  BY <1>1, OutstandingStill DEF IInv, AwaitingRecord, RecordHealth, locals
<1> QED
  BY <1>3, <1>4, <1>5, CountedStill, BackedStill DEF IInv, RecordHealth

LEMMA RecordCircuitKeeps ==
  ASSUME IInv, NEW r \in Requests, RecordCircuit(r)
  PROVE  IInv'
<1> DEFINE b == circuit[index[r]]
<1>1. pc' = [pc EXCEPT ![r] = "leave"] /\ pc[r] = "record_circuit" /\ index' = index
  BY DEF RecordCircuit, Goto, locals
<1>2. index[r] \in Endpoints /\ BreakerSound(b)
  BY BreakersSound DEF IInv, TypeOK
<1>3. PICK c : circuit' = [circuit EXCEPT ![index[r]] = c] /\ GivesBack(b, c)
  <2>1. CASE result[r] = "success"
    <3>1. circuit' = [circuit EXCEPT ![index[r]] = recordSuccess(b)]
      BY <2>1 DEF RecordCircuit
    <3> QED
      BY <1>2, <3>1, SuccessGivesBack
  <2>2. CASE result[r] = "failure"
    <3>1. circuit' = [circuit EXCEPT ![index[r]] = recordFailure(b)]
      BY <2>2 DEF RecordCircuit
    <3> QED
      BY <1>2, <3>1, FailureGivesBack
  <2>3. CASE result[r] = "neutral"
    <3>1. circuit' = [circuit EXCEPT ![index[r]] = recordNeutral(b)]
      BY <2>3 DEF RecordCircuit
    <3> QED
      BY <1>2, <3>1, NeutralGivesBack
  <2> QED
    BY <1>1, <2>1, <2>2, <2>3 DEF IInv, OutcomeKnown
<1>4. ProbesBacked' /\ circuit' \in [Endpoints -> Breaker] /\ Inside' = Inside
  BY <1>1, <1>3, GivingBackKeeps DEF AwaitingRecord
<1>5. TypeOK' /\ DrawsLeft' /\ OutcomeKnown'
  BY <1>1, <1>4 DEF IInv, RecordCircuit, TypeOK, DrawsLeft, OutcomeKnown, locals
<1> QED
  BY <1>4, <1>5, CountedStill DEF IInv, RecordCircuit

\* ~InFlightRelease: the counter cannot fall below zero, since r was counted.
LEMMA LeaveKeeps ==
  ASSUME IInv, NEW r \in Requests, Leave(r)
  PROVE  IInv'
<1>1. pc' = [pc EXCEPT ![r] = "done"] /\ pc[r] = "leave"
  BY DEF Leave, Goto
<1>2. Inside' = Inside \ {r} /\ r \in Inside
  BY <1>1, PcDecides DEF IInv
<1>3. /\ IsFiniteSet(Inside') /\ Cardinality(Inside') = Cardinality(Inside) - 1
      /\ Cardinality(Inside) \in Nat /\ Cardinality(Inside) >= 1
  BY <1>2, OneMoves DEF IInv, Counted
<1>4. Counted' /\ in_flight' \in Nat
  BY <1>3, ProxyLimits DEF IInv, Counted, Leave
<1>5. 0 \in Endpoints /\ 0 \in 0 .. upstream_count
  BY ProxyLimits DEF Endpoints
<1>6. TypeOK'
  BY <1>1, <1>4, <1>5 DEF IInv, Leave, TypeOK
<1>7. DrawsLeft' /\ OutcomeKnown'
  BY <1>1 DEF IInv, Leave, TypeOK, DrawsLeft, OutcomeKnown
<1>8. \A e \in Endpoints : Outstanding(e)' = Outstanding(e)
  <2>1. \A q \in Requests \ {r} : index'[q] = index[q]
    BY DEF Leave, IInv, TypeOK
  <2> QED
    BY <1>1, <2>1, OutstandingStill DEF IInv, AwaitingRecord
<1> QED
  BY <1>4, <1>6, <1>7, <1>8, BackedStill DEF IInv, Leave

-----------------------------------------------------------------------------
(* The environment, and the invariant of the specification *)

LEMMA ProbePublishesKeeps ==
  ASSUME IInv, NEW e \in Endpoints, NEW ok \in BOOLEAN, ProbePublishes(e, ok)
  PROVE  IInv'
<1>1. health' \in [Endpoints -> EndpointHealth]
  <2>1. record(health[e], ok) \in EndpointHealth
    BY RecordTyped DEF IInv, TypeOK
  <2> QED
    BY <2>1 DEF ProbePublishes, IInv, TypeOK
<1>2. TypeOK' /\ DrawsLeft' /\ OutcomeKnown'
  BY <1>1 DEF IInv, ProbePublishes, TypeOK, DrawsLeft, OutcomeKnown, locals
<1>3. Inside' = Inside /\ \A d \in Endpoints : Outstanding(d)' = Outstanding(d)
  BY DEF ProbePublishes, Inside, Outstanding, locals
<1> QED
  BY <1>2, <1>3, CountedStill, BackedStill DEF IInv, ProbePublishes

LEMMA CooldownElapsesKeeps ==
  ASSUME IInv, NEW e \in Endpoints, CooldownElapses(e)
  PROVE  IInv'
<1>1. circuit' = [circuit EXCEPT ![e] = CoolDown(circuit[e])]
  BY DEF CooldownElapses
<1>2. BreakerSound(CoolDown(circuit[e])) /\ CoolDown(circuit[e]).probes_in_flight = circuit[e].probes_in_flight
  BY BreakersSound, CoolDownSound DEF IInv
<1>3. circuit' \in [Endpoints -> Breaker]
  BY <1>1, <1>2 DEF IInv, TypeOK, BreakerSound
<1>4. TypeOK' /\ DrawsLeft' /\ OutcomeKnown'
  BY <1>3 DEF IInv, CooldownElapses, TypeOK, DrawsLeft, OutcomeKnown, locals
<1>5. Inside' = Inside /\ \A d \in Endpoints : Outstanding(d)' = Outstanding(d)
  BY DEF CooldownElapses, Inside, Outstanding, locals
<1>6. ASSUME NEW d \in Endpoints
      PROVE  BreakerSound(circuit'[d]) /\ circuit'[d].probes_in_flight <= Cardinality(Outstanding(d)')
  <2>1. circuit'[d] = IF d = e THEN CoolDown(circuit[e]) ELSE circuit[d]
    BY <1>1 DEF IInv, TypeOK
  <2>2. BreakerSound(circuit[d]) /\ circuit[d].probes_in_flight <= Cardinality(Outstanding(d))
    BY BreakersSound DEF IInv
  <2> QED
    BY <1>2, <1>5, <2>1, <2>2
<1> QED
  BY <1>4, <1>5, <1>6, CountedStill, BackedIf DEF IInv, CooldownElapses

LEMMA InitKeeps == Init => IInv
<1> SUFFICES ASSUME Init PROVE IInv
  OBVIOUS
<1>1. 0 \in Endpoints /\ 0 \in 0 .. upstream_count
  BY ProxyLimits DEF Endpoints
<1>2. NewEndpoint \in EndpointHealth
  BY HealthThresholds DEF NewEndpoint, EndpointHealth
<1>3. TypeOK
  BY <1>1, <1>2, NewBreakerSound DEF Init, TypeOK, BreakerSound
<1>4. DrawsLeft /\ OutcomeKnown
  BY DEF Init, DrawsLeft, OutcomeKnown
<1>5. Inside = {} /\ \A e \in Endpoints : Outstanding(e) = {}
  BY DEF Init, Inside, Outstanding
<1>6. Cardinality({}) = 0 /\ IsFiniteSet({})
  BY FS_EmptySet
<1>7. Counted
  BY <1>5, <1>6, ProxyLimits DEF Init, Counted
<1>8. ProbesBacked
  BY <1>5, <1>6, NewBreakerSound DEF Init, ProbesBacked, BreakerSound
<1> QED
  BY <1>3, <1>4, <1>7, <1>8 DEF IInv

LEMMA NextKeeps == IInv /\ [Next]_vars => IInv'
<1> SUFFICES ASSUME IInv, [Next]_vars PROVE IInv'
  OBVIOUS
<1>1. ASSUME NEW r \in Requests, RequestStep(r)
      PROVE  IInv'
  BY <1>1, OverloadedKeeps, AdmittedKeeps, AdmitRetryKeeps, DrawCandidateKeeps, IsHealthyKeeps,
     AllowRequestKeeps, SnapshotKeeps, UnavailableKeeps, AcquireRefusedKeeps, AcquireGrantedKeeps,
     TransactKeeps, RecordHealthKeeps, RecordCircuitKeeps, LeaveKeeps
     DEF RequestStep, Proceeds
<1>2. CASE Environment
  BY <1>2, BeginKeeps, CooldownElapsesKeeps, ProbePublishesKeeps DEF Environment
<1>3. CASE UNCHANGED vars
  <2>1. Inside' = Inside /\ \A e \in Endpoints : Outstanding(e)' = Outstanding(e)
    BY <1>3 DEF vars, Inside, Outstanding
  <2>2. TypeOK' /\ DrawsLeft' /\ OutcomeKnown'
    BY <1>3 DEF IInv, vars, TypeOK, DrawsLeft, OutcomeKnown
  <2> QED
    BY <1>3, <2>1, <2>2, CountedStill, BackedStill DEF IInv, vars
<1> QED
  BY <1>1, <1>2, <1>3 DEF Next

\* The bookkeeping of ReverseProxy::operator() as a whole is an inductive invariant.
THEOREM Inductive == Spec => []IInv
  BY InitKeeps, NextKeeps, PTL DEF Spec

\* in_flight is the number of requests between admission and ~InFlightRelease, and
\* the limit is never exceeded, for any number of concurrent callers
\* (ReverseProxy::operator()).
THEOREM InFlight == Spec => []InFlightExact
<1>1. IInv => InFlightExact
  BY DEF IInv, Counted, InFlightExact
<1> QED
  BY <1>1, Inductive, PTL

\* No probe of a half-open breaker is lost: each one counted belongs to a request that
\* will still record its outcome, for any number of callers, endpoints and probes
\* (CircuitBreaker::allowRequest and the record methods).
THEOREM Backed == Spec => []ProbesBacked
<1>1. IInv => ProbesBacked
  BY DEF IInv
<1> QED
  BY <1>1, Inductive, PTL
=============================================================================
