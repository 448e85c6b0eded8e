---------------------------- MODULE HealthChecker ----------------------------
(***************************************************************************)
(* The active health checker (src/http/health_checker.cpp).  Everything    *)
(* runs on one strand, so an action is one handler: the next round of      *)
(* run(), a segment of a probe's coroutine, the handler of a probe's       *)
(* timer, startInStrand or stopInStrand.                                   *)
(*                                                                         *)
(* An operation of a probe completes (`op') before its handler runs; a     *)
(* cancellation or a close in between does not recall the completion, and  *)
(* neither does cancelling a timer that has fired.  Probe identifiers are  *)
(* reused once a probe is over: they only tell live probes apart.          *)
(***************************************************************************)
EXTENDS Naturals, FiniteSets, HealthStateStore

CONSTANTS endpoint_count, max_concurrent_probes,
          Probes      \* identifiers for probes that are live at the same time

ASSUME CheckerConfig ==
    /\ endpoint_count \in Nat \ {0}
    /\ max_concurrent_probes \in Nat \ {0}
    /\ IsFiniteSet(Probes) /\ Cardinality(Probes) >= max_concurrent_probes

Endpoints == 0 .. endpoint_count - 1

VARIABLES
    calls,                    \* start() and stop(), dispatched and not handled
    started, stopping,
    run_pc,                   \* the coroutine run()
    active_probes, next_endpoint,
    cancellations,            \* the keys of active_cancellations_
    probe,                    \* the coroutines probeAndPublish() with their transports
    health

loopVars == <<calls, started, stopping, run_pc>>
vars == <<loopVars, active_probes, next_endpoint, cancellations, probe, health>>

\* probeAndPublish with its ProbeTransport.
Probe == [pc : {"free", "spawned", "resolving", "connecting", "writing", "reading"},
          op : {"none", "pending", "ok", "error"}, endpoint : Endpoints,
          timer : {"off", "armed", "fired"}, timed_out : BOOLEAN, open : BOOLEAN]
NoProbe == [pc |-> "free", op |-> "none", endpoint |-> 0,
            timer |-> "off", timed_out |-> FALSE, open |-> FALSE]

Live == {p \in Probes : probe[p].pc # "free"}

Init ==
    /\ calls = {"start", "stop"}
    /\ started = FALSE /\ stopping = FALSE
    /\ run_pc = "off"
    /\ active_probes = 0 /\ next_endpoint = 0
    /\ cancellations = {}
    /\ probe = [p \in Probes |-> NoProbe]
    /\ health = [e \in Endpoints |-> NewEndpoint]

-----------------------------------------------------------------------------
(* The loop *)

StartInStrand ==
    /\ "start" \in calls
    /\ calls' = calls \ {"start"}
    /\ IF started \/ stopping THEN UNCHANGED <<started, run_pc>>
       ELSE started' = TRUE /\ run_pc' = "running"
    /\ UNCHANGED <<stopping, active_probes, next_endpoint, cancellations, probe, health>>

\* How many probes a round spawns: the loop breaks at max_concurrent_probes.
Smaller(a, b) == IF a < b THEN a ELSE b
\* Faulty variant: probes of earlier rounds are not counted.
RoundSize_Fresh == Smaller(endpoint_count, max_concurrent_probes)
RoundSize == Smaller(endpoint_count, max_concurrent_probes - active_probes)

\* The endpoint of the i-th probe of a round.
Rotated(i) == (next_endpoint + i - 1) % endpoint_count

\* Fresh identifiers for the probes of a round, in the order they are spawned;
\* which ones does not matter.
FreshIds == CHOOSE id \in [1 .. RoundSize -> Probes \ Live] :
                \A i, j \in 1 .. RoundSize : id[i] = id[j] => i = j
Spawn ==
    LET id == FreshIds IN
    probe' = [p \in Probes |->
                IF \E i \in DOMAIN id : id[i] = p
                THEN [NoProbe EXCEPT !.pc = "spawned",
                                     !.endpoint = Rotated(CHOOSE i \in DOMAIN id : id[i] = p)]
                ELSE probe[p]]

\* Faulty variant: the rotation does not move on.
Onwards_Still == next_endpoint
Onwards == (next_endpoint + RoundSize) % endpoint_count

\* One turn of the loop of run(), up to the wait for the interval timer.  There
\* are identifiers enough as long as max_concurrent_probes is respected.
Round ==
    /\ run_pc = "running" /\ ~stopping
    /\ Cardinality(Probes \ Live) >= RoundSize
    /\ Spawn
    /\ active_probes' = active_probes + RoundSize
    /\ next_endpoint' = Onwards
    /\ UNCHANGED <<loopVars, cancellations, health>>
\* The wait ends by cancellation, or by time with the flag set.
RunEnds ==
    /\ run_pc = "running" /\ stopping
    /\ run_pc' = "ended"
    /\ UNCHANGED <<calls, started, stopping, active_probes, next_endpoint, cancellations, probe,
                   health>>

-----------------------------------------------------------------------------
(* A probe *)

Update(p, new) == probe' = [probe EXCEPT ![p] = new]
ProbeFrame == UNCHANGED <<loopVars, active_probes, next_endpoint, health>>

\* The first segment: register the cancellation, start timer and resolver.
ProbeStarts(p) ==
    /\ probe[p].pc = "spawned"
    /\ Update(p, [probe[p] EXCEPT !.pc = "resolving", !.op = "pending", !.timer = "armed"])
    /\ cancellations' = cancellations \cup {p}
    /\ ProbeFrame

\* The resolver, the network or the upstream: an operation completes.
Completes(p, outcome) ==
    /\ probe[p].op = "pending"
    /\ Update(p, [probe[p] EXCEPT !.op = outcome])
    /\ UNCHANGED cancellations /\ ProbeFrame

\* After a good completion: connect opens the socket; write and read fail at once
\* on a socket that was closed meanwhile.
Advance(p, from, to) ==
    LET q == probe[p] IN
    /\ q.pc = from /\ q.op = "ok"
    /\ Update(p, [q EXCEPT !.pc = to,
                           !.open = q.open \/ to = "connecting",
                           !.op = IF q.open \/ to = "connecting" THEN "pending" ELSE "error"])
    /\ UNCHANGED cancellations /\ ProbeFrame
ProbeAdvances(p) ==
    \/ Advance(p, "resolving", "connecting")
    \/ Advance(p, "connecting", "writing")
    \/ Advance(p, "writing", "reading")

\* Resolver and socket are cancelled and the socket is closed: an operation that
\* is still pending fails.
Aborted(q) == [q EXCEPT !.op = IF @ = "pending" THEN "error" ELSE @, !.open = FALSE]

ProbeTimerExpires(p) ==
    /\ probe[p].timer = "armed"
    /\ Update(p, [probe[p] EXCEPT !.timer = "fired"])
    /\ UNCHANGED cancellations /\ ProbeFrame
ProbeTimerHandler(p) ==
    /\ probe[p].timer = "fired"
    /\ Update(p, [Aborted(probe[p]) EXCEPT !.timer = "off", !.timed_out = TRUE])
    /\ UNCHANGED cancellations /\ ProbeFrame

\* The result of probe() for a status line that is good or not.
\* Faulty variant: a late answer counts.
Answered_Late(q, good) == q.pc = "reading" /\ q.op = "ok" /\ good
Answered(q, good) == q.pc = "reading" /\ q.op = "ok" /\ ~q.timed_out /\ good

\* A probe that ends after stop() is not recorded.
Publish(e, ok) == health' = IF stopping THEN health ELSE [health EXCEPT ![e] = record(@, ok)]

\* The last segment, from the end of probe() to --active_probes_.  A timer that
\* has fired keeps the transport alive, to no effect.
ProbeEnds(p, good) ==
    /\ \/ probe[p].op = "error"
       \/ probe[p].op = "ok" /\ probe[p].pc = "reading"
    /\ Publish(probe[p].endpoint, Answered(probe[p], good))
    /\ Update(p, NoProbe)
    /\ cancellations' = cancellations \ {p}
    /\ active_probes' = active_probes - 1
    /\ UNCHANGED <<loopVars, next_endpoint>>

\* stopInStrand: the flag, the interval timer, and every registered probe.
StopInStrand ==
    /\ "stop" \in calls
    /\ calls' = calls \ {"stop"}
    /\ stopping' = TRUE
    /\ probe' = [p \in Probes |->
                   IF p \in cancellations
                   THEN [Aborted(probe[p]) EXCEPT !.timer = IF @ = "armed" THEN "off" ELSE @]
                   ELSE probe[p]]
    /\ UNCHANGED <<started, run_pc, active_probes, next_endpoint, cancellations, health>>

-----------------------------------------------------------------------------
CoroutineStep(p) ==
    ProbeStarts(p) \/ ProbeAdvances(p) \/ \E good \in BOOLEAN : ProbeEnds(p, good)

Next ==
    \/ StartInStrand \/ StopInStrand \/ Round \/ RunEnds
    \/ \E p \in Probes : \/ CoroutineStep(p) \/ ProbeTimerExpires(p) \/ ProbeTimerHandler(p)
                         \/ \E outcome \in {"ok", "error"} : Completes(p, outcome)

Spec == Init /\ [][Next]_vars

\* The strand runs its handlers and timers expire; the network and the upstream
\* may stay silent for ever, and stop() need not be called.
FairSpec ==
    /\ Spec
    /\ WF_vars(StartInStrand) /\ WF_vars(Round) /\ WF_vars(RunEnds)
    /\ \A p \in Probes : /\ WF_vars(CoroutineStep(p))
                         /\ WF_vars(ProbeTimerExpires(p)) /\ WF_vars(ProbeTimerHandler(p))

-----------------------------------------------------------------------------
(* Properties *)

\* The type of every variable (the first conjunct of ProbesCounted).
TypeOK ==
    /\ calls \subseteq {"start", "stop"}
    /\ started \in BOOLEAN /\ stopping \in BOOLEAN
    /\ run_pc \in {"off", "running", "ended"}
    /\ active_probes \in Nat /\ next_endpoint \in Endpoints
    /\ cancellations \subseteq Probes
    /\ probe \in [Probes -> Probe]
    /\ health \in [Endpoints -> EndpointHealth]

\* active_probes_ is the number of probe coroutines that exist, whatever order
\* completions, timeouts and stop() come in; it respects max_concurrent_probes,
\* and stop() can reach exactly the probes that have begun.
ProbesCounted ==
    /\ TypeOK
    /\ active_probes = Cardinality(Live)
    /\ active_probes <= max_concurrent_probes
    /\ cancellations = {p \in Live : probe[p].pc # "spawned"}

\* What one handler may publish: nothing after stop(), and a success only as a
\* probe ends that has read its answer before its timeout.
Timely ==
    /\ stopping => UNCHANGED health
    /\ \A e \in Endpoints :
          health[e] # health'[e] /\ health'[e].consecutive_successes > 0
          => \E p \in Live : /\ probe[p].endpoint = e /\ probe'[p].pc = "free"
                            /\ probe[p].pc = "reading" /\ ~probe[p].timed_out
\* A probe never turns an endpoint healthy by an answer that came after its
\* timeout, and after stop() nothing is published: probes that stop() cancels
\* end in an error that says nothing of the upstream.
OnlyTimelyAnswersPublished == [][Timely]_vars

\* Every endpoint is probed again and again, however long single probes take,
\* until stop() or until all of max_concurrent_probes probes hang for ever.
EveryEndpointProbed ==
    \A e \in Endpoints :
        \/ <>stopping
        \/ <>[](active_probes = max_concurrent_probes)
        \/ []<>(\E p \in Probes : probe[p].pc = "spawned" /\ probe[p].endpoint = e)
=============================================================================
