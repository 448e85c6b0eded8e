------------------------ MODULE HealthChecker_proofs ------------------------
(***************************************************************************)
(* Proofs about HealthChecker.  What needs an argument is the round of     *)
(* run(): the probes it spawns are as many as it adds to active_probes_,   *)
(* and there are coroutines for them because the probes of earlier rounds  *)
(* have been counted.                                                      *)
(***************************************************************************)
EXTENDS HealthChecker, FiniteSetTheorems, TLAPS

-----------------------------------------------------------------------------
(* The health store *)

\* A record stays within its thresholds, and only a success leaves successes.
LEMMA RecordTyped ==
  ASSUME NEW h \in EndpointHealth, NEW ok \in BOOLEAN
  PROVE  /\ record(h, ok) \in EndpointHealth
         /\ ~ok => record(h, ok).consecutive_successes = 0
<1>1. Saturated(h.consecutive_successes, healthy_threshold) \in 0 .. healthy_threshold
  BY HealthThresholds DEF Saturated, EndpointHealth
<1>2. Saturated(h.consecutive_failures, unhealthy_threshold) \in 0 .. unhealthy_threshold
  BY HealthThresholds DEF Saturated, EndpointHealth
<1>3. 0 \in 0 .. healthy_threshold /\ 0 \in 0 .. unhealthy_threshold
  BY HealthThresholds
<1> QED
  BY <1>1, <1>2, <1>3 DEF record, EndpointHealth

-----------------------------------------------------------------------------
(* The inductive invariant *)

\* An operation belongs to a probe that has begun.
OpsOwned == \A p \in Probes : probe[p].op # "none" => probe[p].pc \notin {"free", "spawned"}

IInv == ProbesCounted /\ OpsOwned

LEMMA LiveFinite == IsFiniteSet(Live) /\ Cardinality(Live) \in Nat
<1>1. Live \in SUBSET Probes
  BY DEF Live
<1> QED
  BY <1>1, CheckerConfig, FS_Subset, FS_CardinalityType

LEMMA NoProbeTyped == NoProbe \in Probe
  BY CheckerConfig DEF NoProbe, Probe, Endpoints

-----------------------------------------------------------------------------
(* The round *)

LEMMA RoundFits ==
  ASSUME ProbesCounted
  PROVE  RoundSize \in Nat /\ active_probes + RoundSize <= max_concurrent_probes
  BY CheckerConfig DEF ProbesCounted, TypeOK, RoundSize, Smaller

\* There is an injection from the probes of the round into the free identifiers.
LEMMA FreshChosen ==
  ASSUME NEW n \in Nat, NEW S, IsFiniteSet(S), Cardinality(S) >= n
  PROVE  \E id \in [1 .. n -> S] : \A i, j \in 1 .. n : id[i] = id[j] => i = j
<1>1. Cardinality(S) \in Nat /\ ExistsBijection(1 .. Cardinality(S), S)
  BY FS_CardinalityType
<1>2. PICK f \in Bijection(1 .. Cardinality(S), S) : TRUE
  BY <1>1 DEF ExistsBijection
<1>3. /\ f \in [1 .. Cardinality(S) -> S]
      /\ \A i, j \in 1 .. Cardinality(S) : f[i] = f[j] => i = j
  BY <1>2 DEF Bijection, Injection, IsInjective
<1> DEFINE g == [i \in 1 .. n |-> f[i]]
<1>4. 1 .. n \subseteq 1 .. Cardinality(S)
  BY <1>1
<1>5. g \in [1 .. n -> S] /\ \A i, j \in 1 .. n : g[i] = g[j] => i = j
  BY <1>3, <1>4
<1> QED
  BY <1>5

LEMMA ImageCounted ==
  ASSUME NEW n \in Nat, NEW image, NEW id \in [1 .. n -> image],
         \A i, j \in 1 .. n : id[i] = id[j] => i = j,
         \A p \in image : \E i \in 1 .. n : id[i] = p
  PROVE  IsFiniteSet(image) /\ Cardinality(image) = n
<1>1. id \in Bijection(1 .. n, image)
  BY DEF Bijection, Injection, Surjection, IsInjective
<1>2. IsFiniteSet(1 .. n) /\ Cardinality(1 .. n) = n
  BY FS_Interval
<1>3. ExistsBijection(1 .. n, image)
  BY <1>1 DEF ExistsBijection
<1> QED
  BY <1>2, <1>3, FS_Bijection

LEMMA RoundKeeps ==
  ASSUME IInv, Round
  PROVE  IInv'
<1>1. RoundSize \in Nat /\ active_probes + RoundSize <= max_concurrent_probes
  BY RoundFits DEF IInv
<1> DEFINE n == RoundSize
           id == FreshIds
           image == {id[i] : i \in 1 .. n}
<1>2. IsFiniteSet(Probes \ Live) /\ Cardinality(Probes \ Live) >= n
  BY CheckerConfig, FS_Difference DEF Round
<1>3. \E f \in [1 .. n -> Probes \ Live] : \A i, j \in 1 .. n : f[i] = f[j] => i = j
  BY <1>1, <1>2, FreshChosen
<1>4. id \in [1 .. n -> Probes \ Live] /\ \A i, j \in 1 .. n : id[i] = id[j] => i = j
  BY <1>3 DEF FreshIds
<1>5. probe' = [p \in Probes |->
                  IF p \in image
                  THEN [NoProbe EXCEPT !.pc = "spawned",
                                       !.endpoint = Rotated(CHOOSE i \in DOMAIN id : id[i] = p)]
                  ELSE probe[p]]
  BY <1>4 DEF Round, Spawn
<1>6. IsFiniteSet(image) /\ Cardinality(image) = n
  <2>1. n \in Nat
    BY <1>1
  <2>2. id \in [1 .. n -> image] /\ \A p \in image : \E i \in 1 .. n : id[i] = p
    BY <1>4
  <2> HIDE DEF id, n, image
  <2> QED
    BY <1>4, <2>1, <2>2, ImageCounted
<1>7. image \subseteq Probes /\ image \cap Live = {}
  BY <1>4
<1>8. \A p \in image : Rotated(CHOOSE i \in DOMAIN id : id[i] = p) \in Endpoints
  <2>1. SUFFICES ASSUME NEW p \in image PROVE Rotated(CHOOSE i \in DOMAIN id : id[i] = p) \in Endpoints
    OBVIOUS
  <2>2. (CHOOSE i \in DOMAIN id : id[i] = p) \in 1 .. n
    BY <1>4
  <2> HIDE DEF id, n
  <2>3. ASSUME NEW i \in 1 .. n PROVE Rotated(i) \in Endpoints
    <3>1. next_endpoint + i - 1 \in Nat /\ endpoint_count \in Nat \ {0}
      BY <1>1, CheckerConfig DEF IInv, ProbesCounted, TypeOK, Endpoints, n
    <3>2. (next_endpoint + i - 1) % endpoint_count \in 0 .. endpoint_count - 1
      BY <3>1
    <3> QED
      BY <3>2 DEF Rotated, Endpoints
  <2> QED
    BY <2>2, <2>3
<1> HIDE DEF id, image, n
<1>9. /\ \A p \in image : probe'[p] \in Probe /\ probe'[p].pc = "spawned" /\ probe'[p].op = "none"
      /\ \A p \in Probes \ image : probe'[p] = probe[p]
      /\ probe' \in [Probes -> Probe]
  <2>1. \A p \in image : probe'[p] \in Probe /\ probe'[p].pc = "spawned" /\ probe'[p].op = "none"
    BY <1>5, <1>7, <1>8, NoProbeTyped DEF NoProbe, Probe
  <2>2. \A p \in Probes \ image : probe'[p] = probe[p]
    BY <1>5
  <2>3. \A p \in Probes : probe'[p] \in Probe
    BY <2>1, <2>2 DEF IInv, ProbesCounted, TypeOK
  <2> QED
    BY <1>5, <2>1, <2>2, <2>3
<1>10. Live' = Live \cup image
  BY <1>7, <1>9 DEF Live
<1>11. Cardinality(Live') = Cardinality(Live) + n
  <2>1. Live \cap image = {} /\ Cardinality(Live \cap image) = 0
    BY <1>7, FS_EmptySet
  <2>2. Cardinality(Live \cup image) = Cardinality(Live) + Cardinality(image) - Cardinality(Live \cap image)
    BY <1>6, LiveFinite, FS_Union
  <2>3. n \in Nat
    BY <1>1 DEF n
  <2> QED
    BY <1>6, <1>10, <2>1, <2>2, <2>3, LiveFinite
<1>12. /\ active_probes' = active_probes + n
       /\ UNCHANGED <<calls, started, stopping, run_pc, cancellations, health>>
  BY DEF Round, loopVars, n
<1>13. next_endpoint' \in Endpoints
  <2>1. next_endpoint + RoundSize \in Nat /\ endpoint_count \in Nat \ {0}
    BY <1>1, CheckerConfig DEF IInv, ProbesCounted, TypeOK, Endpoints
  <2>2. (next_endpoint + RoundSize) % endpoint_count \in 0 .. endpoint_count - 1
    BY <2>1
  <2> QED
    BY <2>2 DEF Round, Onwards, Endpoints
<1>14. TypeOK'
  BY <1>1, <1>9, <1>12, <1>13 DEF IInv, ProbesCounted, TypeOK, n
<1>15. cancellations' = {p \in Live' : probe'[p].pc # "spawned"}
  BY <1>7, <1>9, <1>10, <1>12 DEF IInv, ProbesCounted, Live
<1>16. OpsOwned'
  BY <1>9 DEF IInv, OpsOwned
<1> QED
  BY <1>1, <1>11, <1>12, <1>14, <1>15, <1>16 DEF IInv, ProbesCounted, n

-----------------------------------------------------------------------------
(* A probe *)

\* A live probe changes but neither ends nor begins.
LEMMA ProbeMoves ==
  ASSUME IInv, NEW p \in Probes, NEW q \in Probe, probe' = [probe EXCEPT ![p] = q],
         q.pc = "free" <=> probe[p].pc = "free",
         q.pc = "spawned" <=> probe[p].pc = "spawned",
         q.op # "none" => q.pc \notin {"free", "spawned"},
         UNCHANGED <<loopVars, active_probes, next_endpoint, health, cancellations>>
  PROVE  IInv'
<1>1. probe' \in [Probes -> Probe] /\ probe \in [Probes -> Probe]
  BY DEF IInv, ProbesCounted, TypeOK
<1>2. /\ \A r \in Probes : probe'[r].pc = "free" <=> probe[r].pc = "free"
      /\ \A r \in Probes : probe'[r].pc = "spawned" <=> probe[r].pc = "spawned"
  BY <1>1
<1>3. Live' = Live
  BY <1>2 DEF Live
<1>4. cancellations' = {r \in Live' : probe'[r].pc # "spawned"}
  BY <1>2, <1>3 DEF IInv, ProbesCounted, Live
<1>5. TypeOK'
  BY <1>1 DEF IInv, ProbesCounted, TypeOK, loopVars
<1>6. OpsOwned'
  BY <1>1 DEF IInv, OpsOwned
<1> QED
  BY <1>3, <1>4, <1>5, <1>6 DEF IInv, ProbesCounted

LEMMA StartsKeeps ==
  ASSUME IInv, NEW p \in Probes, ProbeStarts(p)
  PROVE  IInv'
<1>1. /\ probe[p] \in Probe /\ probe \in [Probes -> Probe] /\ probe[p].pc = "spawned"
      /\ probe' = [probe EXCEPT ![p] = [probe[p] EXCEPT !.pc = "resolving", !.op = "pending",
                                                        !.timer = "armed"]]
      /\ cancellations' = cancellations \cup {p}
      /\ UNCHANGED <<loopVars, active_probes, next_endpoint, health>>
  BY DEF ProbeStarts, Update, ProbeFrame, IInv, ProbesCounted, TypeOK
<1> DEFINE q == [probe[p] EXCEPT !.pc = "resolving", !.op = "pending", !.timer = "armed"]
<1>2. q \in Probe /\ q.pc = "resolving"
  BY <1>1 DEF Probe
<1> HIDE DEF q
<1>3. probe' = [probe EXCEPT ![p] = q]
  BY <1>1 DEF q
<1>4. probe' \in [Probes -> Probe] /\ probe'[p].pc = "resolving"
  BY <1>1, <1>2, <1>3
<1>5. \A r \in Probes \ {p} : probe'[r] = probe[r]
  BY <1>1, <1>3
<1>6. Live' = Live
  BY <1>1, <1>4, <1>5 DEF Live
<1>7. cancellations' = {r \in Live' : probe'[r].pc # "spawned"}
  BY <1>1, <1>4, <1>5, <1>6 DEF IInv, ProbesCounted, Live
<1>8. TypeOK'
  BY <1>1, <1>4 DEF IInv, ProbesCounted, TypeOK, loopVars
<1>9. OpsOwned'
  BY <1>4, <1>5 DEF IInv, OpsOwned
<1> QED
  BY <1>1, <1>6, <1>7, <1>8, <1>9 DEF IInv, ProbesCounted

LEMMA EndsKeeps ==
  ASSUME IInv, NEW p \in Probes, NEW good \in BOOLEAN, ProbeEnds(p, good)
  PROVE  IInv'
<1>1. /\ probe \in [Probes -> Probe] /\ probe[p].pc # "free" /\ probe' = [probe EXCEPT ![p] = NoProbe]
      /\ cancellations' = cancellations \ {p} /\ active_probes' = active_probes - 1
      /\ UNCHANGED <<calls, started, stopping, run_pc, next_endpoint>>
  BY DEF ProbeEnds, Update, loopVars, IInv, ProbesCounted, TypeOK, OpsOwned
<1>2. /\ probe' \in [Probes -> Probe] /\ probe'[p].pc = "free" /\ probe'[p].op = "none"
      /\ \A r \in Probes \ {p} : probe'[r] = probe[r]
  BY <1>1, NoProbeTyped DEF NoProbe
<1>3. Live' = Live \ {p} /\ p \in Live
  BY <1>1, <1>2 DEF Live
<1>4. Cardinality(Live') = Cardinality(Live) - 1 /\ Cardinality(Live') \in Nat
  BY <1>3, LiveFinite, FS_RemoveElement, FS_CardinalityType
<1>5. active_probes' = Cardinality(Live') /\ active_probes' \in Nat /\ active_probes' <= max_concurrent_probes
  BY <1>1, <1>4, CheckerConfig DEF IInv, ProbesCounted, TypeOK
<1>6. health' \in [Endpoints -> EndpointHealth]
  <2>1. probe[p].endpoint \in Endpoints /\ Answered(probe[p], good) \in BOOLEAN
        /\ health \in [Endpoints -> EndpointHealth]
    BY <1>1 DEF Probe, Answered, IInv, ProbesCounted, TypeOK
  <2>2. record(health[probe[p].endpoint], Answered(probe[p], good)) \in EndpointHealth
    BY <2>1, RecordTyped
  <2> QED
    BY <2>1, <2>2 DEF ProbeEnds, Publish
<1>7. TypeOK'
  BY <1>1, <1>2, <1>5, <1>6 DEF IInv, ProbesCounted, TypeOK
<1>8. cancellations' = {r \in Live' : probe'[r].pc # "spawned"}
  BY <1>1, <1>2, <1>3 DEF IInv, ProbesCounted, Live
<1>9. OpsOwned'
  BY <1>2 DEF IInv, OpsOwned
<1> QED
  BY <1>5, <1>7, <1>8, <1>9 DEF IInv, ProbesCounted

\* stop() moves every registered probe towards its end, and ends none.
LEMMA StopKeeps ==
  ASSUME IInv, StopInStrand
  PROVE  IInv'
<1>1. /\ calls' = calls \ {"stop"} /\ stopping' = TRUE
      /\ UNCHANGED <<started, run_pc, active_probes, next_endpoint, cancellations, health>>
      /\ probe \in [Probes -> Probe]
  BY DEF StopInStrand, IInv, ProbesCounted, TypeOK
<1>2. \A r \in Probes : /\ probe'[r] \in Probe /\ probe'[r].pc = probe[r].pc
                        /\ probe'[r].op # "none" => probe[r].op # "none"
  BY <1>1 DEF StopInStrand, Aborted, Probe
<1>3. probe' \in [Probes -> Probe]
  BY <1>2 DEF StopInStrand
<1>4. Live' = Live
  BY <1>2 DEF Live
<1>5. TypeOK'
  BY <1>1, <1>3 DEF IInv, ProbesCounted, TypeOK
<1>6. cancellations' = {r \in Live' : probe'[r].pc # "spawned"}
  BY <1>1, <1>2, <1>4 DEF IInv, ProbesCounted, Live
<1>7. OpsOwned'
  BY <1>2 DEF IInv, OpsOwned
<1> QED
  BY <1>1, <1>4, <1>5, <1>6, <1>7 DEF IInv, ProbesCounted

\* Completions, the transport's progress and its timer.
LEMMA TransportKeeps ==
  ASSUME IInv, NEW p \in Probes,
         \/ ProbeAdvances(p) \/ ProbeTimerExpires(p) \/ ProbeTimerHandler(p)
         \/ \E outcome \in {"ok", "error"} : Completes(p, outcome)
  PROVE  IInv'
<1>1. probe[p] \in Probe /\ (probe[p].op # "none" => probe[p].pc \notin {"free", "spawned"})
  BY DEF IInv, ProbesCounted, TypeOK, OpsOwned
<1>2. CASE ProbeAdvances(p)
  <2>1. PICK from \in {"resolving", "connecting", "writing"}, to \in {"connecting", "writing", "reading"} :
           Advance(p, from, to)
    BY <1>2 DEF ProbeAdvances
  <2> DEFINE q == [probe[p] EXCEPT !.pc = to, !.open = probe[p].open \/ to = "connecting",
                                   !.op = IF probe[p].open \/ to = "connecting" THEN "pending" ELSE "error"]
  <2>2. q \in Probe /\ q.pc = to
    BY <1>1 DEF Probe
  <2>3. /\ probe' = [probe EXCEPT ![p] = q] /\ probe[p].pc = from
        /\ UNCHANGED <<loopVars, active_probes, next_endpoint, health, cancellations>>
    BY <2>1 DEF Advance, Update, ProbeFrame
  <2> HIDE DEF q
  <2> QED
    BY <2>2, <2>3, ProbeMoves
<1>3. CASE ProbeTimerExpires(p)
  <2> DEFINE q == [probe[p] EXCEPT !.timer = "fired"]
  <2>1. q \in Probe /\ q.pc = probe[p].pc /\ q.op = probe[p].op
    BY <1>1 DEF Probe
  <2>2. /\ probe' = [probe EXCEPT ![p] = q]
        /\ UNCHANGED <<loopVars, active_probes, next_endpoint, health, cancellations>>
    BY <1>3 DEF ProbeTimerExpires, Update, ProbeFrame
  <2> HIDE DEF q
  <2> QED
    BY <1>1, <2>1, <2>2, ProbeMoves
<1>4. CASE ProbeTimerHandler(p)
  <2> DEFINE q == [Aborted(probe[p]) EXCEPT !.timer = "off", !.timed_out = TRUE]
  <2>1. q \in Probe /\ q.pc = probe[p].pc /\ (q.op # "none" => probe[p].op # "none")
    BY <1>1 DEF Probe, Aborted
  <2>2. /\ probe' = [probe EXCEPT ![p] = q]
        /\ UNCHANGED <<loopVars, active_probes, next_endpoint, health, cancellations>>
    BY <1>4 DEF ProbeTimerHandler, Update, ProbeFrame
  <2> HIDE DEF q
  <2> QED
    BY <1>1, <2>1, <2>2, ProbeMoves
<1>5. ASSUME NEW outcome \in {"ok", "error"}, Completes(p, outcome) PROVE IInv'
  <2> DEFINE q == [probe[p] EXCEPT !.op = outcome]
  <2>1. q \in Probe /\ q.pc = probe[p].pc
    BY <1>1 DEF Probe
  <2>2. /\ probe' = [probe EXCEPT ![p] = q] /\ probe[p].op = "pending"
        /\ UNCHANGED <<loopVars, active_probes, next_endpoint, health, cancellations>>
    BY <1>5 DEF Completes, Update, ProbeFrame
  <2> HIDE DEF q
  <2> QED
    BY <1>1, <2>1, <2>2, ProbeMoves
<1> QED
  BY <1>2, <1>3, <1>4, <1>5

-----------------------------------------------------------------------------
(* The theorems *)

LEMMA InitIInv ==
  ASSUME Init
  PROVE  IInv
<1>1. Live = {}
  BY DEF Init, Live, NoProbe
<1>2. TypeOK
  <2>1. NewEndpoint \in EndpointHealth
    BY HealthThresholds DEF NewEndpoint, EndpointHealth
  <2>2. probe \in [Probes -> Probe] /\ health \in [Endpoints -> EndpointHealth]
    BY <2>1, NoProbeTyped DEF Init
  <2>3. next_endpoint \in Endpoints /\ active_probes \in Nat
    BY CheckerConfig DEF Init, Endpoints
  <2> QED
    BY <2>2, <2>3 DEF Init, TypeOK
<1>3. OpsOwned
  BY DEF Init, OpsOwned, NoProbe
<1>4. active_probes = Cardinality(Live) /\ active_probes <= max_concurrent_probes
  BY <1>1, FS_EmptySet, CheckerConfig DEF Init
<1> QED
  BY <1>1, <1>2, <1>3, <1>4 DEF Init, IInv, ProbesCounted

LEMMA StepIInv ==
  ASSUME IInv, [Next]_vars
  PROVE  IInv'
<1>1. CASE StartInStrand \/ RunEnds
  <2>1. UNCHANGED <<active_probes, next_endpoint, cancellations, probe, health, stopping>>
    BY <1>1 DEF StartInStrand, RunEnds
  <2>2. calls' \subseteq {"start", "stop"} /\ started' \in BOOLEAN /\ run_pc' \in {"off", "running", "ended"}
    BY <1>1 DEF StartInStrand, RunEnds, IInv, ProbesCounted, TypeOK
  <2> QED
    BY <2>1, <2>2 DEF IInv, ProbesCounted, TypeOK, OpsOwned, Live
<1>2. ASSUME NEW p \in Probes, CoroutineStep(p) PROVE IInv'
  BY <1>2, StartsKeeps, EndsKeeps, TransportKeeps DEF CoroutineStep
<1>3. CASE UNCHANGED vars
  BY <1>3 DEF vars, loopVars, IInv, ProbesCounted, TypeOK, OpsOwned, Live
<1> QED
  BY <1>1, <1>2, <1>3, StopKeeps, RoundKeeps, TransportKeeps DEF Next

\* The invariant, for any number of endpoints, probes and any thresholds.
THEOREM Inductive == Spec => []IInv
  BY InitIInv, StepIInv, PTL DEF Spec

\* active_probes_ is exact and within max_concurrent_probes, and stop() can reach
\* every probe that has begun.
THEOREM Counted == Spec => []ProbesCounted
<1>1. IInv => ProbesCounted
  BY DEF IInv
<1> QED
  BY <1>1, Inductive, PTL

LEMMA EndsTimely ==
  ASSUME IInv, NEW p \in Probes, NEW good \in BOOLEAN, ProbeEnds(p, good)
  PROVE  Timely
<1>1. /\ probe \in [Probes -> Probe] /\ health \in [Endpoints -> EndpointHealth]
      /\ probe' = [probe EXCEPT ![p] = NoProbe]
      /\ health' = IF stopping THEN health
                   ELSE [health EXCEPT ![probe[p].endpoint] =
                            record(health[probe[p].endpoint], Answered(probe[p], good))]
  BY DEF ProbeEnds, Update, Publish, IInv, ProbesCounted, TypeOK
<1>2. probe'[p].pc = "free" /\ Answered(probe[p], good) \in BOOLEAN /\ probe[p].endpoint \in Endpoints
  BY <1>1 DEF NoProbe, Answered, Probe
<1>3. ASSUME NEW e \in Endpoints, health[e] # health'[e], health'[e].consecutive_successes > 0
      PROVE  /\ probe[p].endpoint = e /\ p \in Live
             /\ probe[p].pc = "reading" /\ ~probe[p].timed_out
  <2>1. e = probe[p].endpoint
    BY <1>1, <1>3
  <2>2. health'[e] = record(health[e], Answered(probe[p], good))
    BY <1>1, <1>2, <1>3, <2>1
  <2>3. Answered(probe[p], good)
    BY <1>1, <1>2, <1>3, <2>2, RecordTyped
  <2> QED
    BY <2>1, <2>3 DEF Answered, Live
<1> QED
  BY <1>1, <1>2, <1>3 DEF Timely

\* No step publishes a late answer as a success, and none publishes after stop().
THEOREM OnlyTimely == Spec => OnlyTimelyAnswersPublished
<1>1. ASSUME IInv, [Next]_vars PROVE [Timely]_vars
  <2>1. CASE UNCHANGED health
    BY <2>1 DEF Timely
  <2>2. CASE ~UNCHANGED health
    <3>1. PICK p \in Probes, good \in BOOLEAN : ProbeEnds(p, good)
      BY <1>1, <2>2 DEF Next, vars, StartInStrand, StopInStrand, Round, RunEnds, CoroutineStep, ProbeStarts,
                 ProbeAdvances, Advance, ProbeTimerExpires, ProbeTimerHandler, Completes, ProbeFrame
    <3> QED
      BY <1>1, <3>1, EndsTimely
  <2> QED
    BY <2>1, <2>2
<1> QED
  BY <1>1, Inductive, PTL DEF Spec, OnlyTimelyAnswersPublished

=============================================================================
