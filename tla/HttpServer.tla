----------------------------- MODULE HttpServer -----------------------------
(***************************************************************************)
(* Accepting, serving, draining and stopping (src/http/http_server.cpp,    *)
(* src/net/listener.cpp): the listener's accept loop, the SessionRegistry, *)
(* the lifecycle of every HttpSession, and HttpServer::beginDrain.         *)
(*                                                                         *)
(* The listener and each session own a strand: their handlers are atomic   *)
(* against each other but interleave with other threads at every access to *)
(* the registry (a mutex) or an atomic.  start(), stop() and beginDrain()  *)
(* of a session dispatch to its strand and wait in inbox, first come first *)
(* served.  checkDrain runs on the plain io_context: the chain of polls    *)
(* begun by beginDrain and the one begun by the grace timer run            *)
(* concurrently.                                                           *)
(***************************************************************************)
EXTENDS Integers, FiniteSets, Sequences

CONSTANTS Sessions,          \* the connections clients will open
          maximum_sessions

ASSUME SessionLimits == maximum_sessions \in Nat \ {0}

NoSession == "no session"
ASSUME SessionNames == NoSession \notin Sessions

Chains == {"begin", "deadline"}   \* who started this chain of checkDrain calls

VARIABLES
    accept_pc, accepted, listener_stop, listener_stopping,    \* Listener
    sessions, registry_draining,                              \* SessionRegistry
    closed_count,                                             \* sum of closed_counts_
    active_connections,                                       \* MetricsRegistry
    state, pc, reading, inbox,                                \* HttpSession
    drain_pc, draining, drain_timer, drain_deadline_expired,  \* HttpServer
    chain, drained, drain_finished, on_complete,
    stop_pc,                                                  \* HttpServer::stop
    forced, early            \* history: sessions closed because the grace ran out; sessions
                             \* whose drain was handled before the first handler of run()

listenerVars == <<accept_pc, accepted, listener_stop, listener_stopping>>
registryVars == <<sessions, registry_draining, closed_count, active_connections>>
sessionVars  == <<state, pc, reading, inbox>>
checkVars    == <<chain, drained, drain_finished, on_complete>>
serverVars   == <<drain_pc, draining, drain_timer, drain_deadline_expired, checkVars, stop_pc>>
historyVars  == <<forced, early>>
vars == <<listenerVars, registryVars, sessionVars, serverVars, historyVars>>

Init ==
    /\ accept_pc = "accept" /\ accepted = NoSession
    /\ listener_stop = FALSE /\ listener_stopping = FALSE
    /\ sessions = {} /\ registry_draining = FALSE
    /\ closed_count = 0 /\ active_connections = 0
    /\ state = [s \in Sessions |-> "Created"]
    /\ pc = [s \in Sessions |-> "unborn"]
    /\ reading = [s \in Sessions |-> FALSE]
    /\ inbox = [s \in Sessions |-> <<>>]
    /\ drain_pc = "idle" /\ draining = FALSE
    /\ drain_timer = "off" /\ drain_deadline_expired = FALSE
    /\ chain = [k \in Chains |-> "off"] /\ drained = [k \in Chains |-> FALSE]
    /\ drain_finished = FALSE /\ on_complete = <<>>
    /\ stop_pc = "idle"
    /\ forced = {} /\ early = {}

-----------------------------------------------------------------------------
(* Listener *)

\* A client connects and async_accept completes; a later close of the acceptor
\* does not recall the completion.
Connect(s) ==
    /\ accept_pc = "accept" /\ accepted = NoSession /\ ~listener_stopping
    /\ pc[s] = "unborn"
    /\ accepted' = s
    /\ pc' = [pc EXCEPT ![s] = "connected"]
    /\ UNCHANGED <<accept_pc, listener_stop, listener_stopping, registryVars, state, reading,
                   inbox, serverVars, historyVars>>

\* The session factory, on the listener's strand: tryAdd, then the metric and
\* start(); a refused socket is closed and counted (recordRejected).
\* Faulty variant: a draining registry still takes sessions.
TryAddRefused_Full == Cardinality(sessions) >= maximum_sessions
TryAddRefused == registry_draining \/ Cardinality(sessions) >= maximum_sessions
TryAdd ==
    /\ accept_pc = "accept" /\ accepted # NoSession
    /\ IF TryAddRefused
       THEN /\ pc' = [pc EXCEPT ![accepted] = "finished"]
            /\ accept_pc' = "loop"
            /\ closed_count' = closed_count + 1
            /\ UNCHANGED sessions
       ELSE /\ sessions' = sessions \cup {accepted}
            /\ accept_pc' = "account"
            /\ UNCHANGED <<pc, closed_count>>
    /\ UNCHANGED <<accepted, listener_stop, listener_stopping, registry_draining,
                   active_connections, state, reading, inbox, serverVars, historyVars>>
ConnectionAccepted ==
    /\ accept_pc = "account"
    /\ active_connections' = active_connections + 1
    /\ accept_pc' = "start"
    /\ UNCHANGED <<accepted, listener_stop, listener_stopping, sessions, registry_draining,
                   closed_count, sessionVars, serverVars, historyVars>>
Start ==
    /\ accept_pc = "start"
    /\ inbox' = [inbox EXCEPT ![accepted] = Append(@, "run")]
    /\ accept_pc' = "loop"
    /\ UNCHANGED <<accepted, listener_stop, listener_stopping, registryVars, state, pc, reading,
                   serverVars, historyVars>>
\* Back at the head of acceptLoop.
AcceptNext ==
    /\ accept_pc = "loop"
    /\ accepted' = NoSession
    /\ accept_pc' = IF listener_stopping THEN "ended" ELSE "accept"
    /\ UNCHANGED <<listener_stop, listener_stopping, registryVars, sessionVars, serverVars, historyVars>>
\* async_accept fails (out of descriptors, aborted): wait 50 ms and try again.
AcceptFails ==
    /\ accept_pc = "accept" /\ accepted = NoSession
    /\ accept_pc' = IF listener_stopping THEN "ended" ELSE "retry"
    /\ UNCHANGED <<accepted, listener_stop, listener_stopping, registryVars, sessionVars,
                   serverVars, historyVars>>
RetryTimer ==
    /\ accept_pc = "retry"
    /\ accept_pc' = IF listener_stopping THEN "ended" ELSE "accept"
    /\ UNCHANGED <<accepted, listener_stop, listener_stopping, registryVars, sessionVars,
                   serverVars, historyVars>>
\* stopInExecutor: the strand is free unless the factory is running.
StopListener ==
    /\ listener_stop /\ ~listener_stopping
    /\ accept_pc \in {"accept", "retry", "ended"}
    /\ listener_stopping' = TRUE
    /\ UNCHANGED <<accept_pc, accepted, listener_stop, registryVars, sessionVars, serverVars, historyVars>>

-----------------------------------------------------------------------------
(* HttpSession: every action is one handler on the session's strand. *)

\* Faulty variant: closing again is not noticed.
closeInExecutor_Again(s) ==
    /\ state' = [state EXCEPT ![s] = "Closed"]
    /\ sessions' = sessions \ {s}
    /\ closed_count' = closed_count + 1
    /\ active_connections' = active_connections - 1
\* closeInExecutor: a no-op for a closed session; otherwise the socket is closed,
\* and the session leaves the registry and the metric.
closeInExecutor(s) ==
    IF state[s] = "Closed" THEN UNCHANGED <<state, sessions, closed_count, active_connections>>
    ELSE /\ state' = [state EXCEPT ![s] = "Closed"]
         /\ sessions' = sessions \ {s}
         /\ closed_count' = IF s \in sessions THEN closed_count + 1 ELSE closed_count
         /\ active_connections' = active_connections - 1

\* The coroutine goes to `to'; reading_ is true exactly while it waits in a read.
Goto(s, to) == /\ pc' = [pc EXCEPT ![s] = to]
               /\ reading' = [reading EXCEPT ![s] = (to = "reading")]
KeepRegistry == UNCHANGED <<sessions, closed_count, active_connections>>
SessionFrame == UNCHANGED <<listenerVars, registry_draining, inbox, serverVars, historyVars>>

\* The next call dispatched to the strand of s is `call'; it is taken.
Take(s, call) == /\ inbox[s] # <<>> /\ Head(inbox[s]) = call
                 /\ inbox' = [inbox EXCEPT ![s] = Tail(@)]

\* The first handler of run(): a session closed before it started ends at once.
Run(s) ==
    /\ Take(s, "run")
    /\ state' = [state EXCEPT ![s] = IF @ = "Created" THEN "Running" ELSE @]
    /\ Goto(s, IF state[s] = "Closed" THEN "finished" ELSE "reading")
    /\ KeepRegistry
    /\ UNCHANGED <<listenerVars, registry_draining, serverVars, historyVars>>

\* The end of run(): break out of the loop and close.
Finish(s) == Goto(s, "finished") /\ closeInExecutor(s)

\* A read completes: a whole request, an unparsable one, or no more bytes.  The
\* read of a closed session may have completed before the close.
ReadRequest(s) ==
    /\ pc[s] = "reading"
    /\ IF state[s] = "Closed" THEN Finish(s)
       ELSE Goto(s, "responding") /\ UNCHANGED state /\ KeepRegistry
    /\ SessionFrame
ReadBadRequest(s) ==
    /\ pc[s] = "reading"
    /\ Goto(s, "writing_error") /\ UNCHANGED state /\ KeepRegistry
    /\ SessionFrame
ReadFails(s) ==
    /\ pc[s] = "reading"
    /\ Finish(s)
    /\ SessionFrame
\* The header, body or idle timeout passes while the read is pending.
ReadDeadline(s) ==
    /\ reading[s] /\ state[s] # "Closed"
    /\ closeInExecutor(s)
    /\ UNCHANGED <<pc, reading>> /\ SessionFrame

\* The router's handler has returned and the response is written, two waits that
\* nothing here tells apart.  Close if asked to or draining, else go on with the
\* next request, which may already be in the buffer.
ResponseWritten(s, close) ==
    /\ pc[s] = "responding"
    /\ IF close \/ state[s] \in {"Draining", "Closed"} THEN Finish(s)
       ELSE /\ \E to \in {"reading", "responding", "writing_error"} : Goto(s, to)
            /\ UNCHANGED state /\ KeepRegistry
    /\ SessionFrame
ParserErrorWritten(s) ==
    /\ pc[s] = "writing_error"
    /\ Finish(s)
    /\ SessionFrame

\* The drain of a session that run() has not started yet.
TooEarly(s) == early' = IF pc[s] = "connected" THEN early \cup {s} ELSE early
\* Faulty variant: the drain does not close a session that waits for a request.
DrainInExecutor_Waits(s) ==
    /\ Take(s, "drain")
    /\ state' = [state EXCEPT ![s] = IF @ = "Closed" THEN @ ELSE "Draining"]
    /\ KeepRegistry /\ TooEarly(s)
    /\ UNCHANGED <<listenerVars, registry_draining, pc, reading, serverVars, forced>>
\* beginDrainInExecutor and stopInExecutor, dispatched to the strand.
DrainInExecutor(s) ==
    /\ Take(s, "drain")
    /\ IF reading[s] THEN closeInExecutor(s)
       ELSE /\ state' = [state EXCEPT ![s] = IF @ = "Closed" THEN @ ELSE "Draining"]
            /\ KeepRegistry
    /\ TooEarly(s)
    /\ UNCHANGED <<listenerVars, registry_draining, pc, reading, serverVars, forced>>
StopInExecutor(s, why) ==
    /\ Take(s, why)
    /\ closeInExecutor(s)
    /\ forced' = IF why = "deadline" /\ state[s] # "Closed" THEN forced \cup {s} ELSE forced
    /\ UNCHANGED <<listenerVars, registry_draining, pc, reading, serverVars, early>>

-----------------------------------------------------------------------------
(* HttpServer *)

\* Dispatch a call to every session the registry holds now.
ToLiveSessions(call) ==
    inbox' = [s \in Sessions |-> IF s \in sessions THEN Append(inbox[s], call) ELSE inbox[s]]

\* beginDrain: only the first caller goes on; the listener's stop is dispatched.
\* The owner (main, or a test) makes one call at a time: no stop() during a drain.
BeginDrain ==
    /\ ~draining
    /\ stop_pc \in {"idle", "done"}
    /\ draining' = TRUE
    /\ drain_pc' = "flag"
    /\ listener_stop' = TRUE
    /\ UNCHANGED <<accept_pc, accepted, listener_stopping, registryVars, sessionVars, drain_timer,
                   drain_deadline_expired, checkVars, stop_pc, historyVars>>
\* SessionRegistry::beginDrain: the flag under the mutex, then the sessions.
RegistryDraining ==
    /\ drain_pc = "flag"
    /\ registry_draining' = TRUE
    /\ drain_pc' = "notify"
    /\ UNCHANGED <<listenerVars, sessions, closed_count, active_connections, sessionVars, draining,
                   drain_timer, drain_deadline_expired, checkVars, stop_pc, historyVars>>
\* ... then the grace timer is started and checkDrain called.
NotifySessions ==
    /\ drain_pc = "notify"
    /\ ToLiveSessions("drain")
    /\ drain_pc' = "done"
    /\ drain_timer' = "armed"
    /\ chain' = [chain EXCEPT !["begin"] = "check"]
    /\ UNCHANGED <<listenerVars, registryVars, state, pc, reading, draining, drain_deadline_expired,
                   drained, drain_finished, on_complete, stop_pc, historyVars>>

\* Faulty variant: the expiry is not recorded.
GraceExpires_Unrecorded ==
    /\ drain_timer = "armed"
    /\ drain_timer' = "expired"
    /\ UNCHANGED <<listenerVars, registryVars, sessionVars, drain_pc, draining,
                   drain_deadline_expired, checkVars, stop_pc, historyVars>>
\* The grace timer's handler: the flag, then forceCloseAll, then checkDrain.
GraceExpires ==
    /\ drain_timer = "armed"
    /\ drain_timer' = "expired"
    /\ drain_deadline_expired' = TRUE
    /\ UNCHANGED <<listenerVars, registryVars, sessionVars, drain_pc, draining, checkVars, stop_pc,
                   historyVars>>
\* Faulty variant: nothing is closed.
ForceCloseAll_Nobody ==
    /\ drain_timer = "expired"
    /\ drain_timer' = "off"
    /\ chain' = [chain EXCEPT !["deadline"] = "check"]
    /\ UNCHANGED <<listenerVars, registryVars, state, pc, reading, inbox, drain_pc, draining,
                   drain_deadline_expired, drained, drain_finished, on_complete, stop_pc, historyVars>>
ForceCloseAll ==
    /\ drain_timer = "expired"
    /\ ToLiveSessions("deadline")
    /\ drain_timer' = "off"
    /\ chain' = [chain EXCEPT !["deadline"] = "check"]
    /\ UNCHANGED <<listenerVars, registryVars, state, pc, reading, drain_pc, draining,
                   drain_deadline_expired, drained, drain_finished, on_complete, stop_pc, historyVars>>

CheckFrame == UNCHANGED <<listenerVars, registryVars, sessionVars, drain_pc, draining,
                          drain_deadline_expired, stop_pc, historyVars>>
\* checkDrain: done already, no session left, or look again in 10 ms.
CheckDrain(k) ==
    /\ chain[k] = "check"
    /\ chain' = [chain EXCEPT ![k] = IF drain_finished THEN "off"
                                     ELSE IF sessions = {} THEN "empty" ELSE "poll"]
    /\ UNCHANGED <<drain_timer, drained, drain_finished, on_complete>> /\ CheckFrame
PollTimer(k) ==
    /\ chain[k] = "poll"
    /\ chain' = [chain EXCEPT ![k] = "check"]
    /\ UNCHANGED <<drain_timer, drained, drain_finished, on_complete>> /\ CheckFrame
LoadExpired(k) ==
    /\ chain[k] = "empty"
    /\ drained' = [drained EXCEPT ![k] = ~drain_deadline_expired]
    /\ chain' = [chain EXCEPT ![k] = "finish"]
    /\ UNCHANGED <<drain_timer, drain_finished, on_complete>> /\ CheckFrame
\* finishDrain: the exchange lets one caller through.
FinishDrain(k) ==
    /\ chain[k] = "finish"
    /\ chain' = [chain EXCEPT ![k] = "off"]
    /\ IF drain_finished THEN UNCHANGED <<drain_timer, drain_finished, on_complete>>
       ELSE /\ drain_finished' = TRUE
            /\ drain_timer' = IF drain_timer = "armed" THEN "off" ELSE drain_timer
            /\ on_complete' = Append(on_complete, drained[k])
    /\ drained' = [drained EXCEPT ![k] = FALSE]
    /\ CheckFrame

\* HttpServer::stop: the listener, the registry's drain, then forceCloseAll.
StopServer ==
    /\ stop_pc = "idle"
    /\ ~draining \/ drain_finished
    /\ stop_pc' = "flag"
    /\ listener_stop' = TRUE
    /\ UNCHANGED <<accept_pc, accepted, listener_stopping, registryVars, sessionVars, drain_pc,
                   draining, drain_timer, drain_deadline_expired, checkVars, historyVars>>
StopDraining ==
    /\ stop_pc = "flag"
    /\ registry_draining' = TRUE
    /\ stop_pc' = "notify"
    /\ UNCHANGED <<listenerVars, sessions, closed_count, active_connections, sessionVars, drain_pc,
                   draining, drain_timer, drain_deadline_expired, checkVars, historyVars>>
StopNotify ==
    /\ stop_pc \in {"notify", "force"}
    /\ ToLiveSessions(IF stop_pc = "notify" THEN "drain" ELSE "stop")
    /\ stop_pc' = IF stop_pc = "notify" THEN "force" ELSE "done"
    /\ UNCHANGED <<listenerVars, registryVars, state, pc, reading, drain_pc, draining, drain_timer,
                   drain_deadline_expired, checkVars, historyVars>>

-----------------------------------------------------------------------------
ListenerStep == \/ TryAdd \/ ConnectionAccepted \/ Start \/ AcceptNext
                \/ RetryTimer \/ StopListener
                \/ listener_stopping /\ AcceptFails
SessionStep(s) ==
    \/ ReadRequest(s) \/ ReadBadRequest(s) \/ ReadFails(s) \/ ReadDeadline(s)
    \/ ParserErrorWritten(s)
    \/ \E close \in BOOLEAN : ResponseWritten(s, close)
Dispatched(s) == Run(s) \/ DrainInExecutor(s) \/ \E why \in {"stop", "deadline"} : StopInExecutor(s, why)
DrainStep == \/ RegistryDraining \/ NotifySessions \/ GraceExpires \/ ForceCloseAll
             \/ StopDraining \/ StopNotify
CheckStep(k) == CheckDrain(k) \/ PollTimer(k) \/ LoadExpired(k) \/ FinishDrain(k)

Next ==
    \/ \E s \in Sessions : Connect(s) \/ SessionStep(s) \/ Dispatched(s)
    \/ ListenerStep \/ AcceptFails
    \/ BeginDrain \/ StopServer \/ DrainStep
    \/ \E k \in Chains : CheckStep(k)

Spec == Init /\ [][Next]_vars

\* Posted handlers run and timers expire.  Nothing is assumed of the clients or
\* of the router's handlers: a read or a handler may stay pending for ever.
Fairness ==
    /\ WF_vars(ListenerStep)
    /\ \A s \in Sessions : WF_vars(Dispatched(s))
    /\ WF_vars(DrainStep)
    /\ \A k \in Chains : WF_vars(CheckStep(k))
FairSpec == Spec /\ Fairness

-----------------------------------------------------------------------------
(* Properties *)

\* The type of every variable (the first conjunct of SessionsAccounted).
TypeOK ==
    /\ accept_pc \in {"accept", "account", "start", "loop", "retry", "ended"}
    /\ accepted \in Sessions \cup {NoSession}
    /\ listener_stop \in BOOLEAN /\ listener_stopping \in BOOLEAN
    /\ sessions \subseteq Sessions /\ registry_draining \in BOOLEAN
    /\ closed_count \in Nat /\ active_connections \in Int
    /\ state \in [Sessions -> {"Created", "Running", "Draining", "Closed"}]
    /\ pc \in [Sessions -> {"unborn", "connected", "reading", "responding", "writing_error",
                            "finished"}]
    /\ reading \in [Sessions -> BOOLEAN]
    /\ inbox \in [Sessions -> Seq({"run", "drain", "stop", "deadline"})]
    /\ drain_pc \in {"idle", "flag", "notify", "done"} /\ draining \in BOOLEAN
    /\ drain_timer \in {"off", "armed", "expired"} /\ drain_deadline_expired \in BOOLEAN
    /\ chain \in [Chains -> {"off", "check", "poll", "empty", "finish"}]
    /\ drained \in [Chains -> BOOLEAN]
    /\ drain_finished \in BOOLEAN /\ on_complete \in Seq(BOOLEAN)
    /\ stop_pc \in {"idle", "flag", "notify", "force", "done"}
    /\ forced \subseteq Sessions /\ early \subseteq Sessions

\* The registry never exceeds its limit, every session is counted once, when it
\* closes or is refused, and the gauge of active connections agrees with it
\* except while the factory is between tryAdd and connectionAccepted (a session
\* that is stopped just then takes the unsigned gauge below zero for a moment).
SessionsAccounted ==
    /\ TypeOK
    /\ Cardinality(sessions) <= maximum_sessions
    /\ closed_count = Cardinality({s \in Sessions : \/ state[s] = "Closed"
                                                    \/ state[s] = "Created" /\ pc[s] = "finished"})
    /\ active_connections = Cardinality(sessions) - (IF accept_pc = "account" THEN 1 ELSE 0)

\* The completion callback runs at most once, and "receives true only when all
\* sessions drained before the deadline": none was closed because the grace ran out.
DrainedMeansUnforced ==
    /\ Len(on_complete) <= 1
    /\ \A i \in DOMAIN on_complete : on_complete[i] => forced = {}

\* "A slow client must not keep shutdown alive": a session that drains does not
\* wait for a request, with one exception.  A drain handled before the first
\* handler of run() finds nothing to close, and run() reads although it drains:
\* that session leaves when its client or a deadline makes it.
DrainingReadersStartedLate ==
    \A s \in Sessions : state[s] = "Draining" /\ reading[s] => s \in early

\* The drain ends although clients, handlers and writes may hang for ever.
DrainCompletes == draining ~> drain_finished

\* What HttpServer promises: no session is admitted to a draining registry, every
\* one of them leaves it, and only then does the drain complete.
Contract == INSTANCE DrainContract WITH
    live <- sessions,
    phase <- IF drain_finished THEN "done"
             ELSE IF draining /\ registry_draining THEN "draining" ELSE "serving"
KeepsDrainContract == Contract!ContractSpec
=============================================================================
