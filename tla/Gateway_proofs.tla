--------------------------- MODULE Gateway_proofs ---------------------------
(***************************************************************************)
(* Proofs about Gateway, the process from start to exit.  The invariant    *)
(* has one group of conjuncts for each of its parts: the log, the file     *)
(* reads, the reload, and the runtime with main.  A part is followed only  *)
(* through the actions that touch it; every other action leaves its        *)
(* variables alone.  Sessions, configurations, capacities and threads are  *)
(* arbitrary: that only finitely many sessions have logged, or hold a file *)
(* slot, is part of the invariant.                                         *)
(***************************************************************************)
EXTENDS Gateway, FiniteSetTheorems, SequenceTheorems, TLAPS

-----------------------------------------------------------------------------
(* Sequences *)

LEMMA HeadAndTail ==
  ASSUME NEW S, NEW q \in Seq(S), q # <<>>
  PROVE  q = <<Head(q)>> \o Tail(q)
<1>1. Len(q) \in Nat \ {0}
  BY EmptySeq
<1>2. SubSeq(q, 1, Len(q)) = <<q[1]>> \o SubSeq(q, 2, Len(q))
  BY <1>1, SubSeqRecursiveFirst
<1>3. SubSeq(q, 1, Len(q)) = q
  BY SubSeqFull
<1>4. Head(q) = q[1]
  BY <1>1
<1> QED
  BY <1>2, <1>3, <1>4, TailIsSubSeq

-----------------------------------------------------------------------------
(* The inductive invariant *)

\* What run() has taken out of the queue and not yet written.
InHand == IF worker = "write" THEN <<entry>> ELSE <<>>

LogTyped ==
    /\ queue \in Seq(Sessions) /\ accepted \in Seq(Sessions) /\ written \in Seq(Sessions)
    /\ dropped \in Nat
    /\ worker \in {"lock", "checked", "waiting", "write", "done"}
    /\ entry \in Sessions \cup {NoEntry}
    /\ worker = "write" => entry \in Sessions
    /\ stop_requested \in BOOLEAN
    /\ destructor \in {"no", "stop", "notify", "join", "gone"}
    /\ Len(queue) <= queue_capacity

\* Nothing accepted is lost, repeated or overtaken on its way to the sink.
NothingLost == accepted = (written \o InHand) \o queue

\* The worker leaves only with the queue empty and after the stop, when nobody logs
\* any more; the destructor starts after the runtime has been joined.
LogEnds ==
    /\ worker = "done" => queue = <<>> /\ stop_requested
    /\ stop_requested => destructor \in {"notify", "join", "gone"}
    /\ destructor = "gone" => worker = "done"
    /\ main \in {"running", "joined"} => destructor = "no"
    /\ mode = "cli" /\ main \in {"server gone", "destroyed", "proxies gone", "exited"} => destructor = "gone"

\* Without a reload the level stays "info", so every answered request is counted.
Logged == {s \in Sessions : session[s] \in {"logged", "ended"}}
LogCounts ==
    mode = "cli" => IsFiniteSet(Logged) /\ Len(accepted) + dropped = Cardinality(Logged)

Slots == In({"queued", "reading"})
FileInv ==
    /\ reads \in [Sessions -> {"none", "acquire", "queued", "reading", "released", "replied",
                               "busy", "done"}]
    /\ seen \in [Sessions -> 0 .. file_capacity]
    /\ IsFiniteSet(Slots) /\ pending = Cardinality(Slots) /\ pending <= file_capacity
\* A read under way belongs to a coroutine that awaits it.
FileAwaited == \A s \in Sessions : reads[s] \notin {"none", "done"} => session[s] = "file"

Handlers == [handler : {"request", "loaded"}, next : Configs \cup {NoConfig}]
ReloadTyped ==
    /\ file \in Configs \cup {NoConfig} /\ initial \in Configs /\ snapshot \in Configs
    /\ candidate \in Configs \cup {NoConfig}
    /\ reloader \in {"idle", "queued", "loaded"} /\ publishing \in {"no", "level", "json"}
    /\ reload_in_progress \in BOOLEAN /\ edited \in BOOLEAN
    /\ strand \in Seq(Handlers)
    /\ raised \in Nat /\ handled \in 0 .. raised

\* The reload under way is in exactly one place: the manager's thread, or a handler
\* on its way back to the strand.
Returning == \E i \in 1 .. Len(strand) : strand[i].handler = "loaded"
OneReload ==
    /\ reload_in_progress <=> reloader # "idle" \/ Returning
    /\ reloader # "idle" => ~Returning
    /\ \A i, j \in 1 .. Len(strand) :
          strand[i].handler = "loaded" /\ strand[j].handler = "loaded" => i = j

\* The last SIGHUP has been handled and accepted and the file is as it was then.
Settled ==
    /\ handled = raised /\ report = "accepted" /\ ~edited
    /\ \A i \in 1 .. Len(strand) : strand[i].handler # "request"
\* What is then on its way is the file as it is.
Fresh ==
    Settled =>
        /\ reloader = "loaded" => candidate = file
        /\ \A i \in 1 .. Len(strand) : strand[i].next = file
        /\ ~reload_in_progress /\ file # NoConfig /\ file.static = initial.static
           => snapshot = file

\* The log follows the snapshot but for the two stores of a publication.
LogFollows ==
    /\ mode = "config" /\ publishing = "no" =>
          level = snapshot.logging.level /\ json = snapshot.logging.json
    /\ mode = "config" /\ publishing = "json" => level = snapshot.logging.level
    /\ mode = "cli" => level = "info" /\ raised = 0
    /\ raised = 0 => strand = <<>> /\ reloader = "idle" /\ publishing = "no"

ReloadInv == /\ ReloadTyped /\ snapshot.static = initial.static
             /\ OneReload /\ Fresh /\ LogFollows

RuntimeTyped ==
    /\ mode \in {"config", "cli"}
    /\ threads \in 1 .. io_threads
    /\ live \subseteq Sessions /\ phase \in {"serving", "draining", "done"}
    /\ session \in [Sessions -> {"none", "open", "handling", "stuck", "file", "answered", "logging",
                                 "logged", "closed", "ended"}]
    /\ checkers \in {"none", "on", "stopping", "stuck", "off"}
    /\ main \in {"running", "joined", "destructor", "server gone", "destroyed", "proxies gone", "exited",
                 "crashed"}
Drained ==
    /\ phase = "done" => live = {}
    /\ main # "running" => phase = "done" /\ checkers \in {"none", "off"} /\ \A s \in Sessions : Finished(s)
    /\ main = "crashed" => OutliveRuntime \/ raised > 0

IInv == /\ LogTyped /\ NothingLost /\ LogEnds /\ LogCounts
        /\ FileInv /\ FileAwaited
        /\ ReloadInv
        /\ RuntimeTyped /\ Drained

-----------------------------------------------------------------------------
(* The log *)

logCore == <<queue, dropped, worker, entry, stop_requested, destructor, accepted, written>>

\* The actions that touch the log's queue, its threads or main.
LEMMA TouchLog ==
  ASSUME Next
  PROVE  /\ UNCHANGED mode
         /\ \/ UNCHANGED <<logCore, main>>
            \/ \E s \in Sessions : LogRequest(s)
            \/ LogWorker \/ LogWorkerWakes \/ ReloadOutlivesRuntime \/ MainStep
<1>1. CASE SendHup \/ SendTerm \/ HandleHup \/ HandleTerm \/ DrainCompleted \/ CheckersEnd \/ HandlerThrows
  BY <1>1 DEF SendHup, SendTerm, HandleHup, HandleTerm, DrainCompleted, CheckersEnd, CheckersStop,
              CheckersHang, HangingProbeEnds, CheckersGo, HandlerThrows,
              loggerVars, logCore
<1>2. CASE \E content \in Configs \cup {NoConfig} : Edit(content)
  BY <1>2 DEF Edit, loggerVars, gatewayVars, logCore
<1>3. CASE \E s \in Sessions : Connect(s) \/ CloseSession(s) \/ ReadRequest(s) \/ Hangs(s) \/ FileWorker(s)
  BY <1>3 DEF Hangs, ProxyHangs, HangEnds, Connect, CloseSession, ReadRequest, FileWorker, Goes,
              KeepRuntime, KeepData, KeepGateway,
              loggerVars, gatewayVars, logCore
<1>4. CASE \E s \in Sessions : CoroutineStep(s)
  BY <1>4 DEF CoroutineStep, EndUnserved, HandlerReturns, AwaitFile, FileAnswered, CheckLevel, LogRequest,
              EndServed, Goes, KeepRuntime, KeepData, loggerVars, gatewayVars, logCore
<1>5. CASE LogWorker \/ LogWorkerWakes
  BY <1>5 DEF LogWorker, LogWorkerWakes, KeepGateway, gatewayVars
<1>6. CASE ManagerStrand \/ ReloadWorker
  BY <1>6 DEF ManagerStrand, ReloadWorker, PublishLevel, PublishJson, SetLevel, SetJson, KeepGateway,
              loggerVars, gatewayVars, logCore
<1>7. CASE ReloadOutlivesRuntime \/ MainStep
  BY <1>7 DEF ReloadOutlivesRuntime, MainStep, RunReturns, DestroyServer, LeakObservability, DestroyLogger,
              DestroyFiles, DestroyRuntime, DestroyProxies, Exit, MainGoes, KeepGateway, gatewayVars
<1> QED
  BY <1>1, <1>2, <1>3, <1>4, <1>5, <1>6, <1>7 DEF Next

LogInv == LogTyped /\ NothingLost /\ LogEnds

\* logAccess runs before the runtime is joined, so the worker is still there.
LEMMA LogAccessKeeps ==
  ASSUME LogInv, NEW s \in Sessions, LogRequest(s), UNCHANGED mode
  PROVE  /\ LogInv'
         /\ Len(accepted') + dropped' = Len(accepted) + dropped + 1
<1>1. main = "running" /\ main' = main /\ logAccess(s)
  BY DEF LogRequest, Goes, Io, KeepRuntime
<1>2. destructor = "no" /\ worker # "done" /\ ~stop_requested
  BY <1>1 DEF LogInv, LogEnds
<1>3. UNCHANGED <<entry, stop_requested, destructor, written>>
  BY <1>1 DEF logAccess
<1>4. queue_capacity \in Nat /\ Len(queue) \in Nat /\ Len(accepted) \in Nat
  BY LoggerConfig, LenProperties DEF LogInv, LogTyped
<1>5. CASE QueueFull
  <2>1. dropped' = dropped + 1 /\ UNCHANGED <<queue, worker, accepted>>
    BY <1>1, <1>5 DEF logAccess
  <2>2. dropped' \in Nat /\ Len(accepted') + dropped' = Len(accepted) + dropped + 1
    BY <1>4, <2>1 DEF LogInv, LogTyped
  <2>3. LogTyped'
    BY <1>3, <2>1, <2>2 DEF LogInv, LogTyped
  <2>4. NothingLost' /\ LogEnds'
    BY <1>1, <1>3, <2>1 DEF LogInv, NothingLost, LogEnds, InHand
  <2> QED
    BY <2>2, <2>3, <2>4 DEF LogInv
<1>6. CASE ~QueueFull
  <2>1. /\ queue' = Append(queue, s) /\ worker' = Woken
        /\ accepted' = Append(accepted, s) /\ dropped' = dropped
    BY <1>1, <1>6 DEF logAccess
  <2>2. /\ queue' \in Seq(Sessions) /\ Len(queue') = Len(queue) + 1
        /\ accepted' \in Seq(Sessions) /\ Len(accepted') = Len(accepted) + 1
    BY <2>1, AppendProperties DEF LogInv, LogTyped
  <2>3. Len(queue') <= queue_capacity
    BY <1>4, <1>6, <2>2 DEF QueueFull
  <2>4. /\ worker' \in {"lock", "checked", "waiting", "write", "done"} /\ worker' # "done"
        /\ worker' = "write" <=> worker = "write"
    BY <1>2, <2>1 DEF Woken, LogInv, LogTyped
  <2>5. LogTyped'
    BY <1>3, <2>1, <2>2, <2>3, <2>4 DEF LogInv, LogTyped
  <2>6. InHand' = InHand /\ InHand \in Seq(Sessions)
    BY <1>3, <2>4 DEF InHand, LogInv, LogTyped
  <2>7. written \o InHand \in Seq(Sessions)
    BY <2>6, ConcatProperties DEF LogInv, LogTyped
  <2>8. NothingLost'
    <3>1. queue \in Seq(Sessions) /\ accepted = (written \o InHand) \o queue
      BY DEF LogInv, LogTyped, NothingLost
    <3>2. Append((written \o InHand) \o queue, s) = (written \o InHand) \o Append(queue, s)
      <4> DEFINE done == written \o InHand
      <4>1. done \in Seq(Sessions)
        BY <2>7
      <4> HIDE DEF done
      <4>2. Append(done \o queue, s) = (done \o queue) \o <<s>>
        BY <3>1, <4>1, ConcatProperties, AppendIsConcat
      <4>3. done \o Append(queue, s) = done \o (queue \o <<s>>)
        BY <3>1, AppendIsConcat
      <4>4. <<s>> \in Seq(Sessions)
        OBVIOUS
      <4> QED
        BY <3>1, <4>1, <4>2, <4>3, <4>4, ConcatAssociative DEF done
    <3> QED
      BY <1>3, <2>1, <2>6, <3>1, <3>2 DEF NothingLost
  <2>9. LogEnds'
    BY <1>1, <1>2, <1>3, <2>4 DEF LogEnds, LogInv
  <2> QED
    BY <1>4, <2>1, <2>2, <2>5, <2>8, <2>9 DEF LogInv, LogTyped
<1> QED
  BY <1>5, <1>6

\* The worker passes entries on in order, and leaves only an empty queue behind.
LEMMA WorkerKeeps ==
  ASSUME LogInv, WorkerStep \/ SpuriousWakeup, UNCHANGED <<mode, main>>
  PROVE  LogInv' /\ UNCHANGED <<accepted, dropped>>
<1>1. UNCHANGED <<dropped, stop_requested, destructor, accepted>>
  BY DEF WorkerStep, CheckPredicate, Sleep, WriteEntry, SpuriousWakeup
<1>2. CASE WriteEntry
  <2>1. /\ worker = "write" /\ worker' = "lock" /\ entry' = NoEntry
        /\ written' = Append(written, entry) /\ queue' = queue /\ entry \in Sessions
    BY <1>2 DEF WriteEntry, LogInv, LogTyped
  <2>2. written' \in Seq(Sessions) /\ written' = written \o <<entry>>
    BY <2>1, AppendProperties, AppendIsConcat DEF LogInv, LogTyped
  <2>3. LogTyped'
    BY <1>1, <2>1, <2>2 DEF LogInv, LogTyped
  <2>4. written' \o InHand' = written'
    BY <2>1, <2>2, ConcatEmptySeq DEF InHand
  <2>5. NothingLost'
    BY <1>1, <2>1, <2>2, <2>4 DEF NothingLost, LogInv, InHand
  <2>6. LogEnds'
    BY <1>1, <2>1 DEF LogEnds, LogInv
  <2> QED
    BY <1>1, <2>3, <2>5, <2>6 DEF LogInv
<1>3. CASE CheckPredicate /\ worker' = "write"
  <2>1. /\ worker = "lock" /\ queue # <<>> /\ written' = written
        /\ entry' = Head(queue) /\ queue' = Tail(queue)
    BY <1>3 DEF CheckPredicate
  <2>2. entry' \in Sessions /\ queue' \in Seq(Sessions) /\ Len(queue') = Len(queue) - 1
    BY <2>1, HeadTailProperties DEF LogInv, LogTyped
  <2>3. LogTyped'
    <3>1. Len(queue) \in Nat /\ queue_capacity \in Nat
      BY LoggerConfig, LenProperties DEF LogInv, LogTyped
    <3> QED
      BY <1>1, <1>3, <2>1, <2>2, <3>1 DEF LogInv, LogTyped
  <2>4. /\ written \in Seq(Sessions) /\ queue \in Seq(Sessions)
        /\ <<entry'>> \in Seq(Sessions)
    BY <2>2 DEF LogInv, LogTyped
  <2>5. accepted = written \o queue
    BY <2>1, <2>4, ConcatEmptySeq DEF InHand, NothingLost, LogInv
  <2>6. queue = <<entry'>> \o queue'
    BY <2>1, <2>4, HeadAndTail
  <2>7. accepted = (written \o <<entry'>>) \o queue'
    BY <2>2, <2>4, <2>5, <2>6, ConcatAssociative
  <2>8. NothingLost'
    BY <1>1, <1>3, <2>1, <2>7 DEF NothingLost, InHand
  <2>9. LogEnds'
    BY <1>1, <1>3, <2>1 DEF LogEnds, LogInv
  <2> QED
    BY <1>1, <2>3, <2>8, <2>9 DEF LogInv
<1>4. CASE ~WriteEntry /\ ~(CheckPredicate /\ worker' = "write")
  <2>1. /\ UNCHANGED <<queue, entry, written>>
        /\ worker \in {"lock", "checked", "waiting"} /\ worker' \in {"lock", "checked", "waiting", "done"}
        /\ worker' = "done" => queue = <<>> /\ stop_requested
    BY <1>4 DEF WorkerStep, CheckPredicate, LeaveRun, Sleep, SpuriousWakeup
  <2> QED
    BY <1>1, <2>1 DEF LogInv, LogTyped, NothingLost, LogEnds, InHand
<1> QED
  BY <1>2, <1>3, <1>4

LEMMA MainKeepsLog ==
  ASSUME LogInv, MainStep, UNCHANGED mode
  PROVE  LogInv' /\ UNCHANGED <<accepted, dropped>>
<1>1. CASE DestroyLogger
  <2>1. main = "destructor" /\ main' = main /\ DestructorStep
    BY <1>1 DEF DestroyLogger, KeepGateway, gatewayVars
  <2>2. UNCHANGED <<queue, dropped, entry, accepted, written>>
    BY <2>1 DEF DestructorStep, RequestStop, NotifyAll, JoinWorker
  <2>3. /\ worker' \in {"lock", "checked", "waiting", "write", "done"}
        /\ worker' = "write" <=> worker = "write"
        /\ worker' = "done" <=> worker = "done"
    BY <2>1 DEF DestructorStep, RequestStop, NotifyAll, JoinWorker, Woken, LogInv, LogTyped
  <2>4. /\ stop_requested' \in BOOLEAN /\ destructor' \in {"notify", "join", "gone"}
        /\ stop_requested => stop_requested'
        /\ destructor' = "gone" => worker = "done"
    BY <2>1 DEF DestructorStep, RequestStop, NotifyAll, JoinWorker, LogInv, LogTyped
  <2> QED
    BY <2>1, <2>2, <2>3, <2>4 DEF LogInv, LogTyped, NothingLost, LogEnds, InHand
<1>2. CASE DestroyServer
  <2>1. /\ main = "joined" /\ main' = "destructor" /\ destructor' = "stop"
        /\ UNCHANGED <<queue, dropped, worker, entry, stop_requested, accepted, written>>
    BY <1>2 DEF DestroyServer, MainGoes
  <2> QED
    BY <2>1 DEF LogInv, LogTyped, NothingLost, LogEnds, InHand
<1>3. CASE RunReturns \/ LeakObservability \/ DestroyFiles \/ DestroyRuntime \/ DestroyProxies \/ Exit
  <2>1. UNCHANGED logCore
    BY <1>3 DEF RunReturns, LeakObservability, DestroyFiles, DestroyRuntime, DestroyProxies, Exit,
                loggerVars, logCore
  <2>2. \/ main = "running" /\ main' = "joined"
        \/ main = "joined" /\ main' = "server gone" /\ mode = "config"
        \/ main = "destructor" /\ main' = "server gone" /\ destructor = "gone"
        \/ main = "server gone" /\ main' = "destroyed"
        \/ main \in {"destroyed", "proxies gone"} /\ main' \in {"proxies gone", "crashed", "exited"}
    BY <1>3 DEF RunReturns, LeakObservability, DestroyFiles, DestroyRuntime, DestroyProxies, Exit, MainGoes
  <2> QED
    BY <2>1, <2>2 DEF logCore, LogInv, LogTyped, NothingLost, LogEnds, InHand
<1> QED
  BY <1>1, <1>2, <1>3 DEF MainStep

LEMMA LogStep ==
  ASSUME IInv, [Next]_vars
  PROVE  LogInv'
<1>0. LogInv
  BY DEF IInv, LogInv
<1>1. CASE UNCHANGED <<logCore, main>> /\ UNCHANGED mode
  BY <1>0, <1>1 DEF logCore, LogInv, LogTyped, NothingLost, LogEnds, InHand
<1>2. CASE UNCHANGED vars
  BY <1>1, <1>2 DEF vars, gatewayVars, loggerVars, logCore
<1>3. ASSUME Next PROVE LogInv'
  <2>0. UNCHANGED mode
    BY <1>3, TouchLog
  <2>1. CASE \E s \in Sessions : LogRequest(s)
    BY <1>0, <2>0, <2>1, LogAccessKeeps
  <2>2. CASE LogWorker \/ LogWorkerWakes
    BY <1>0, <2>0, <2>2, WorkerKeeps DEF LogWorker, LogWorkerWakes, KeepGateway, gatewayVars
  <2>3. CASE MainStep
    BY <1>0, <2>0, <2>3, MainKeepsLog
  <2>4. CASE ReloadOutlivesRuntime
    <3>1. UNCHANGED logCore /\ main = "destroyed" /\ main' \in {"destroyed", "crashed"}
      BY <2>4 DEF ReloadOutlivesRuntime, loggerVars, logCore
    <3> QED
      BY <1>0, <2>0, <3>1 DEF logCore, LogInv, LogTyped, NothingLost, LogEnds, InHand
  <2> QED
    BY <1>1, <1>3, <2>0, <2>1, <2>2, <2>3, <2>4, TouchLog
<1> QED
  BY <1>2, <1>3

\* A step of a session's coroutine that is not the one past logAccess.
LEMMA GoesUnlogged ==
  ASSUME RuntimeTyped, NEW s \in Sessions, NEW from, NEW to, Goes(s, from, to),
         from \in {"logged", "ended"} <=> to \in {"logged", "ended"}
  PROVE  Logged' = Logged
<1>1. session \in [Sessions -> {"none", "open", "handling", "stuck", "file", "answered", "logging", "logged",
                                "closed", "ended"}]
  BY DEF RuntimeTyped
<1>2. session[s] = from /\ session' = [session EXCEPT ![s] = to]
  BY DEF Goes
<1> QED
  BY <1>1, <1>2 DEF Logged

LEMMA LogCountsStep ==
  ASSUME IInv, [Next]_vars
  PROVE  LogCounts'
<1>0. LogInv /\ RuntimeTyped /\ LogCounts
  BY DEF IInv, LogInv
<1>1. CASE UNCHANGED <<accepted, dropped, mode>> /\ Logged' = Logged
  BY <1>0, <1>1 DEF LogCounts
<1>2. CASE UNCHANGED vars
  BY <1>1, <1>2 DEF vars, gatewayVars, loggerVars, Logged
<1>3. CASE UNCHANGED session /\ UNCHANGED <<accepted, dropped, mode>>
  BY <1>1, <1>3 DEF Logged
<1>4. ASSUME Next PROVE LogCounts'
  <2>0. UNCHANGED mode
    BY <1>4, TouchLog
  <2>1. CASE SendHup \/ SendTerm \/ HandleHup \/ HandleTerm \/ DrainCompleted \/ CheckersEnd
             \/ HandlerThrows \/ ReloadOutlivesRuntime
    BY <1>3, <2>1 DEF SendHup, SendTerm, HandleHup, HandleTerm, DrainCompleted, CheckersEnd, CheckersStop,
                      CheckersHang, HangingProbeEnds, CheckersGo,
                      HandlerThrows, ReloadOutlivesRuntime, loggerVars
  <2>2. CASE \E content \in Configs \cup {NoConfig} : Edit(content)
    BY <1>3, <2>2 DEF Edit, loggerVars, gatewayVars
  <2>3. CASE ManagerStrand \/ ReloadWorker
    BY <1>3, <2>3 DEF ManagerStrand, ReloadWorker, PublishLevel, PublishJson, SetLevel, SetJson,
                      KeepGateway, loggerVars, gatewayVars
  <2>4. CASE LogWorker \/ LogWorkerWakes
    BY <1>0, <1>3, <2>4, WorkerKeeps DEF LogWorker, LogWorkerWakes, KeepGateway, gatewayVars
  <2>5. CASE MainStep
    <3>1. UNCHANGED session
      BY <2>5 DEF MainStep, RunReturns, DestroyServer, LeakObservability, DestroyLogger, DestroyFiles,
                  DestroyRuntime, DestroyProxies, Exit, MainGoes, KeepGateway, gatewayVars
    <3> QED
      BY <1>0, <1>3, <2>0, <2>5, <3>1, MainKeepsLog
  <2>6. CASE \E s \in Sessions : CloseSession(s) \/ FileWorker(s) \/ AwaitFile(s)
    BY <1>3, <2>6 DEF CloseSession, FileWorker, AwaitFile, KeepData, KeepGateway, loggerVars, gatewayVars
  <2>7. ASSUME NEW s \in Sessions,
               \/ Connect(s) \/ ReadRequest(s) \/ EndUnserved(s) \/ HandlerReturns(s) \/ Hangs(s) \/ FileAnswered(s)
               \/ EndServed(s)
        PROVE  LogCounts'
    <3>1. UNCHANGED <<accepted, dropped>>
      BY <2>7 DEF Connect, ReadRequest, EndUnserved, HandlerReturns, Hangs, ProxyHangs, HangEnds,
                  FileAnswered, EndServed, KeepData,
                  loggerVars
    <3>2. \/ \E from \in {"none", "open", "handling", "stuck", "file"},
                to \in {"open", "handling", "stuck", "file", "closed", "answered"} : Goes(s, from, to)
          \/ Goes(s, "logged", "ended")
      BY <2>7 DEF Connect, ReadRequest, EndUnserved, HandlerReturns, Hangs, ProxyHangs, HangEnds,
                  FileAnswered, EndServed
    <3>3. Logged' = Logged
      BY <1>0, <3>2, GoesUnlogged
    <3> QED
      BY <1>1, <2>0, <3>1, <3>3
  <2>8. ASSUME NEW s \in Sessions, CheckLevel(s) PROVE LogCounts'
    <3>1. UNCHANGED <<accepted, dropped>>
      BY <2>8 DEF CheckLevel, KeepData, loggerVars
    <3>2. ASSUME mode = "cli" PROVE Goes(s, "answered", "logging")
      BY <2>8, <3>2 DEF CheckLevel, LogsAccess, IInv, ReloadInv, LogFollows
    <3>3. mode = "cli" => Logged' = Logged
      BY <1>0, <3>2, GoesUnlogged
    <3> QED
      BY <1>0, <2>0, <3>1, <3>3 DEF LogCounts
  <2>9. ASSUME NEW s \in Sessions, LogRequest(s) PROVE LogCounts'
    <3>1. Len(accepted') + dropped' = Len(accepted) + dropped + 1
      BY <1>0, <2>0, <2>9, LogAccessKeeps
    <3>2. session[s] = "logging" /\ session' = [session EXCEPT ![s] = "logged"]
      BY <2>9 DEF LogRequest, Goes
    <3>3. Logged' = Logged \cup {s} /\ s \notin Logged
      BY <1>0, <3>2 DEF Logged, RuntimeTyped
    <3>4. mode = "cli" => IsFiniteSet(Logged') /\ Cardinality(Logged') = Cardinality(Logged) + 1
      BY <1>0, <3>3, FS_AddElement DEF LogCounts
    <3> QED
      BY <1>0, <2>0, <3>1, <3>4 DEF LogCounts
  <2> QED
    BY <1>4, <2>1, <2>2, <2>3, <2>4, <2>5, <2>6, <2>7, <2>8, <2>9 DEF Next, CoroutineStep
<1> QED
  BY <1>2, <1>4

-----------------------------------------------------------------------------
(* File reads *)

LEMMA TouchFiles ==
  ASSUME Next
  PROVE  \/ UNCHANGED fileVars
         \/ \E s \in Sessions : AwaitFile(s) \/ FileAnswered(s) \/ FileWorker(s)
<1>1. CASE SendHup \/ SendTerm \/ HandleHup \/ HandleTerm \/ DrainCompleted \/ CheckersEnd \/ HandlerThrows
           \/ ReloadOutlivesRuntime \/ \E content \in Configs \cup {NoConfig} : Edit(content)
  BY <1>1 DEF SendHup, SendTerm, HandleHup, HandleTerm, DrainCompleted, CheckersEnd, CheckersStop,
              CheckersHang, HangingProbeEnds, CheckersGo, HandlerThrows,
              ReloadOutlivesRuntime, Edit
<1>2. CASE ManagerStrand \/ ReloadWorker \/ LogWorker \/ LogWorkerWakes
  BY <1>2 DEF ManagerStrand, ReloadWorker, PublishLevel, PublishJson, LogWorker, LogWorkerWakes
<1>3. CASE MainStep
  BY <1>3 DEF MainStep, RunReturns, DestroyServer, LeakObservability, DestroyLogger, DestroyFiles,
              DestroyRuntime, DestroyProxies, Exit, MainGoes
<1>4. ASSUME NEW s \in Sessions, Connect(s) \/ CloseSession(s) \/ ReadRequest(s) PROVE UNCHANGED fileVars
  BY <1>4 DEF Connect, CloseSession, ReadRequest, KeepData
<1>5. ASSUME NEW s \in Sessions,
             EndUnserved(s) \/ HandlerReturns(s) \/ Hangs(s) \/ CheckLevel(s) \/ LogRequest(s) \/ EndServed(s)
      PROVE  UNCHANGED fileVars
  BY <1>5 DEF EndUnserved, HandlerReturns, Hangs, ProxyHangs, HangEnds, CheckLevel, LogRequest, EndServed,
              KeepData
<1> QED
  BY <1>1, <1>2, <1>3, <1>4, <1>5 DEF Next, CoroutineStep

\* A read moves without taking or giving back a slot.
LEMMA SlotKept ==
  ASSUME FileInv, NEW s \in Sessions, NEW to \in {"acquire", "reading", "replied", "busy", "done"},
         reads' = [reads EXCEPT ![s] = to], reads[s] \in {"queued", "reading"} <=> to = "reading",
         pending' = pending, seen' \in [Sessions -> 0 .. file_capacity]
  PROVE  FileInv'
<1>1. Slots' = Slots
  BY DEF FileInv, Slots, In
<1>2. reads' \in [Sessions -> {"none", "acquire", "queued", "reading", "released", "replied", "busy", "done"}]
  BY DEF FileInv
<1> QED
  BY <1>1, <1>2 DEF FileInv

\* The compare-and-swap succeeds only on the value that was compared with the limit.
LEMMA AcquireKeeps ==
  ASSUME FileInv, NEW s \in Sessions, AcquireSlot(s)
  PROVE  FileInv'
<1>1. reads[s] = "acquire" /\ file_capacity \in Nat /\ seen[s] \in 0 .. file_capacity
  BY FileLimits DEF AcquireSlot, FileInv
<1>2. CASE seen[s] >= file_capacity
  BY <1>1, <1>2, SlotKept DEF AcquireSlot, FileInv
<1>3. CASE seen[s] < file_capacity /\ pending = seen[s]
  <2>1. pending' = pending + 1 /\ reads' = [reads EXCEPT ![s] = "queued"] /\ seen' = seen
    BY <1>1, <1>3 DEF AcquireSlot
  <2>2. reads' \in [Sessions -> {"none", "acquire", "queued", "reading", "released", "replied", "busy",
                                 "done"}]
    BY <2>1 DEF FileInv
  <2>3. Slots' = Slots \cup {s} /\ s \notin Slots
    BY <1>1, <2>1 DEF Slots, In, FileInv
  <2>4. IsFiniteSet(Slots') /\ Cardinality(Slots') = Cardinality(Slots) + 1
    BY <2>3, FS_AddElement DEF FileInv
  <2>5. pending' <= file_capacity
    BY <1>1, <1>3, <2>1
  <2> QED
    BY <2>1, <2>2, <2>4, <2>5 DEF FileInv
<1>4. CASE seen[s] < file_capacity /\ pending # seen[s]
  <2>1. seen' = [seen EXCEPT ![s] = pending] /\ UNCHANGED <<pending, reads>>
    BY <1>1, <1>4 DEF AcquireSlot
  <2>2. pending \in 0 .. file_capacity
    BY <1>1, FS_CardinalityType DEF FileInv
  <2>3. seen' \in [Sessions -> 0 .. file_capacity]
    BY <2>1, <2>2 DEF FileInv
  <2> QED
    BY <2>1, <2>3 DEF FileInv, Slots, In
<1> QED
  BY <1>1, <1>2, <1>3, <1>4

LEMMA ReleaseKeeps ==
  ASSUME FileInv, NEW s \in Sessions, ReleaseSlot(s)
  PROVE  FileInv'
<1>1. /\ reads[s] = "reading" /\ reads' = [reads EXCEPT ![s] = "released"]
      /\ pending' = pending - 1 /\ seen' = seen
  BY DEF ReleaseSlot
<1>2. reads' \in [Sessions -> {"none", "acquire", "queued", "reading", "released", "replied", "busy", "done"}]
  BY <1>1 DEF FileInv
<1>3. Slots' = Slots \ {s} /\ s \in Slots
  BY <1>1 DEF Slots, In, FileInv
<1>4. IsFiniteSet(Slots') /\ Cardinality(Slots') = Cardinality(Slots) - 1 /\ Cardinality(Slots) \in Nat
  BY <1>3, FS_RemoveElement, FS_CardinalityType DEF FileInv
<1> QED
  BY <1>1, <1>2, <1>4, FileLimits DEF FileInv

LEMMA FileStep ==
  ASSUME IInv, [Next]_vars
  PROVE  FileInv'
<1>0. FileInv
  BY DEF IInv
<1>1. CASE UNCHANGED fileVars
  BY <1>0, <1>1 DEF fileVars, FileInv, Slots, In
<1>2. ASSUME NEW s \in Sessions, LoadPending(s) PROVE FileInv'
  <2>1. pending \in 0 .. file_capacity
    BY <1>0, FileLimits, FS_CardinalityType DEF FileInv
  <2>2. seen' \in [Sessions -> 0 .. file_capacity]
    BY <1>0, <1>2, <2>1 DEF LoadPending, FileInv
  <2> QED
    BY <1>0, <1>2, <2>2, SlotKept DEF LoadPending
<1>3. ASSUME NEW s \in Sessions, TakeReply(s) \/ StartFileJob(s) \/ PostReply(s) PROVE FileInv'
  <2>1. seen' \in [Sessions -> 0 .. file_capacity]
    BY <1>0, <1>3 DEF TakeReply, StartFileJob, PostReply, FileInv
  <2> QED
    BY <1>0, <1>3, <2>1, SlotKept DEF TakeReply, ReplyPosted, StartFileJob, PostReply
<1>4. ASSUME NEW s \in Sessions, AwaitFile(s) \/ FileAnswered(s) \/ FileWorker(s) PROVE FileInv'
  BY <1>0, <1>2, <1>3, <1>4, AcquireKeeps, ReleaseKeeps DEF AwaitFile, FileAnswered, FileWorker,
                                                            FileWorkerStep
<1>5. CASE UNCHANGED vars
  BY <1>1, <1>5 DEF vars
<1> QED
  BY <1>1, <1>4, <1>5, TouchFiles

LEMMA FileAwaitedStep ==
  ASSUME IInv, [Next]_vars
  PROVE  FileAwaited'
<1>0. FileAwaited /\ FileInv /\ RuntimeTyped
  BY DEF IInv
<1>1. CASE UNCHANGED <<reads, session>>
  BY <1>0, <1>1 DEF FileAwaited
<1>2. ASSUME NEW s \in Sessions, NEW from, NEW to, from # "file", Goes(s, from, to), UNCHANGED fileVars
      PROVE  FileAwaited'
  <2>1. session[s] = from /\ session' = [session EXCEPT ![s] = to] /\ reads' = reads
    BY <1>2 DEF Goes, fileVars
  <2> QED
    BY <1>0, <1>2, <2>1 DEF FileAwaited, RuntimeTyped
<1>3. ASSUME Next PROVE FileAwaited'
  <2>1. CASE SendHup \/ SendTerm \/ HandleHup \/ HandleTerm \/ DrainCompleted \/ CheckersEnd
             \/ HandlerThrows \/ ReloadOutlivesRuntime
    BY <1>1, <2>1 DEF SendHup, SendTerm, HandleHup, HandleTerm, DrainCompleted, CheckersEnd, CheckersStop,
                      CheckersHang, HangingProbeEnds, CheckersGo,
                      HandlerThrows, ReloadOutlivesRuntime, fileVars
  <2>2. CASE \E content \in Configs \cup {NoConfig} : Edit(content)
    BY <1>1, <2>2 DEF Edit, fileVars, gatewayVars
  <2>3. CASE ManagerStrand \/ ReloadWorker \/ LogWorker \/ LogWorkerWakes
    BY <1>1, <2>3 DEF ManagerStrand, ReloadWorker, PublishLevel, PublishJson, LogWorker, LogWorkerWakes,
                      KeepGateway, fileVars, gatewayVars
  <2>4. CASE MainStep
    BY <1>1, <2>4 DEF MainStep, RunReturns, DestroyServer, LeakObservability, DestroyLogger,
                      DestroyFiles, DestroyRuntime, DestroyProxies, Exit, MainGoes, KeepGateway, fileVars, gatewayVars
  <2>5. ASSUME NEW s \in Sessions, CloseSession(s) PROVE FileAwaited'
    BY <1>1, <2>5 DEF CloseSession, KeepData, fileVars, gatewayVars
  <2>6. ASSUME NEW s \in Sessions,
               \/ Connect(s) \/ ReadRequest(s) \/ EndUnserved(s) \/ HandlerReturns(s) \/ Hangs(s) \/ CheckLevel(s)
               \/ LogRequest(s) \/ EndServed(s)
        PROVE  FileAwaited'
    BY <1>2, <2>6 DEF Connect, ReadRequest, EndUnserved, HandlerReturns, Hangs, ProxyHangs, HangEnds,
                      CheckLevel, LogRequest,
                      EndServed, KeepData
  <2>7. ASSUME NEW s \in Sessions, AwaitFile(s) \/ FileWorker(s) PROVE FileAwaited'
    <3>1. session[s] = "file" /\ session' = session
      BY <1>0, <2>7 DEF AwaitFile, FileWorker, FileWorkerStep, StartFileJob, ReleaseSlot, PostReply,
                        KeepGateway, gatewayVars, FileAwaited
    <3>2. \A t \in Sessions \ {s} : reads'[t] = reads[t]
      BY <1>0, <2>7 DEF AwaitFile, LoadPending, AcquireSlot, FileWorker, FileWorkerStep, StartFileJob,
                        ReleaseSlot, PostReply, FileInv
    <3> QED
      BY <1>0, <3>1, <3>2 DEF FileAwaited
  <2>8. ASSUME NEW s \in Sessions, FileAnswered(s) PROVE FileAwaited'
    <3>1. reads' = [reads EXCEPT ![s] = "done"] /\ session' = [session EXCEPT ![s] = "answered"]
      BY <2>8 DEF FileAnswered, Goes, TakeReply
    <3> QED
      BY <1>0, <3>1 DEF FileAwaited, FileInv, RuntimeTyped
  <2> QED
    BY <1>3, <2>1, <2>2, <2>3, <2>4, <2>5, <2>6, <2>7, <2>8 DEF Next, CoroutineStep
<1>4. CASE UNCHANGED vars
  BY <1>1, <1>4 DEF vars, gatewayVars, fileVars
<1> QED
  BY <1>3, <1>4

-----------------------------------------------------------------------------
(* The runtime and main *)

\* A coroutine takes one step on a running worker; its session may leave or be let in.
SessionStep ==
    /\ main = "running"
    /\ session' \in [Sessions -> {"none", "open", "handling", "stuck", "file", "answered", "logging",
                                  "logged", "closed", "ended"}]
    /\ live' \subseteq Sessions /\ (phase = "done" => live' \subseteq live)
    /\ UNCHANGED <<mode, threads, phase, checkers, main, raised>>

LEMMA CoroutineIsSessionStep ==
  ASSUME RuntimeTyped, NEW s \in Sessions,
         \/ Connect(s) \/ ReadRequest(s) \/ EndUnserved(s) \/ HandlerReturns(s) \/ Hangs(s) \/ FileAnswered(s)
         \/ CheckLevel(s) \/ LogRequest(s) \/ EndServed(s)
  PROVE  SessionStep
<1>1. \E from, to \in {"none", "open", "handling", "stuck", "file", "answered", "logging", "logged",
                       "closed", "ended"} :
         Goes(s, from, to)
  BY DEF Connect, ReadRequest, EndUnserved, HandlerReturns, Hangs, ProxyHangs, HangEnds, FileAnswered,
         CheckLevel, LogRequest, EndServed
<1>2. session' \in [Sessions -> {"none", "open", "handling", "stuck", "file", "answered", "logging", "logged",
                                 "closed", "ended"}]
  BY <1>1 DEF Goes, RuntimeTyped
<1>3. main = "running" /\ UNCHANGED <<mode, threads, checkers, main, raised>>
  BY <1>1 DEF Goes, Io, KeepRuntime
<1>4. live' \subseteq Sessions /\ (phase = "done" => live' \subseteq live) /\ phase' = phase
  BY DEF Connect, ReadRequest, EndUnserved, HandlerReturns, Hangs, ProxyHangs, HangEnds, FileAnswered,
         CheckLevel, LogRequest, EndServed,
         Admit, Leave, contractVars, RuntimeTyped
<1> QED
  BY <1>2, <1>3, <1>4 DEF SessionStep

\* main only moves on, and leaves the runtime's state alone.
LEMMA MainMoves ==
  ASSUME IInv, MainStep
  PROVE  /\ UNCHANGED <<mode, threads, session, checkers, raised, contractVars>>
         /\ main' \in {"running", "joined", "destructor", "server gone", "destroyed", "proxies gone",
                       "exited", "crashed"}
         /\ main' # "running" /\ (main' = "crashed" => main' = main \/ OutliveRuntime)
         /\ main = "running" => ~Work
<1>1. CASE DestroyLogger
  BY <1>1 DEF DestroyLogger, KeepGateway, gatewayVars
<1>2. CASE \/ RunReturns \/ DestroyServer \/ LeakObservability \/ DestroyFiles \/ DestroyRuntime \/ DestroyProxies \/ Exit
  BY <1>2 DEF RunReturns, DestroyServer, LeakObservability, DestroyFiles, DestroyRuntime, DestroyProxies,
              Exit, MainGoes
<1> QED
  BY <1>1, <1>2 DEF MainStep

LEMMA RuntimeStep ==
  ASSUME IInv, [Next]_vars
  PROVE  RuntimeTyped' /\ Drained'
<1>0. RuntimeTyped /\ Drained /\ raised \in Nat
  BY DEF IInv, ReloadInv, ReloadTyped
<1>1. CASE UNCHANGED <<mode, threads, session, checkers, main, raised, live, phase>>
  BY <1>0, <1>1 DEF RuntimeTyped, Drained, Finished, OutliveRuntime, Proxied
<1>2. ASSUME Next PROVE RuntimeTyped' /\ Drained'
  <2>1. CASE SendTerm \/ HandleHup \/ LogWorker \/ LogWorkerWakes \/ ManagerStrand \/ ReloadWorker
    BY <1>1, <2>1 DEF SendTerm, HandleHup, LogWorker, LogWorkerWakes, ManagerStrand, ReloadWorker,
                      PublishLevel, PublishJson, KeepGateway, gatewayVars, contractVars
  <2>2. CASE \E content \in Configs \cup {NoConfig} : Edit(content)
    BY <1>1, <2>2 DEF Edit, gatewayVars, contractVars
  <2>3. CASE \E s \in Sessions : AwaitFile(s) \/ FileWorker(s)
    BY <1>1, <2>3 DEF AwaitFile, FileWorker, KeepGateway, gatewayVars, contractVars
  <2>4. CASE SendHup
    <3>1. /\ main = "running"
          /\ UNCHANGED <<mode, threads, session, checkers, main, live, phase>>
      BY <2>4 DEF SendHup, Io, contractVars
    <3>2. RuntimeTyped'
      BY <1>0, <3>1 DEF RuntimeTyped
    <3>3. Drained'
      BY <1>0, <3>1 DEF Drained
    <3> QED
      BY <3>2, <3>3
  <2>5. CASE HandleTerm
    BY <1>0, <2>5 DEF HandleTerm, Io, BeginToDrain, RuntimeTyped, Drained, Finished
  <2>6. CASE DrainCompleted
    BY <1>0, <2>6 DEF DrainCompleted, Io, Complete, RuntimeTyped, Drained, Finished
  <2>7. CASE CheckersEnd
    BY <1>0, <2>7 DEF CheckersEnd, CheckersStop, CheckersHang, HangingProbeEnds, CheckersGo, Io,
                      contractVars, RuntimeTyped, Drained, Finished
  <2>8. CASE HandlerThrows
    <3>1. /\ main = "running" /\ threads' = threads - 1 /\ threads > io_threads - MaxFaults[mode]
          /\ UNCHANGED <<mode, session, checkers, main, raised, live, phase>>
      BY <2>8 DEF HandlerThrows, Io, contractVars
    <3>2. MaxFaults[mode] \in 0 .. io_threads - 1 /\ io_threads \in Nat
      BY <1>0, RuntimeConfig DEF RuntimeTyped
    <3>3. threads' \in 1 .. io_threads
      BY <1>0, <3>1, <3>2 DEF RuntimeTyped
    <3> QED
      BY <1>0, <3>1, <3>3 DEF RuntimeTyped, Drained, Finished
  <2>9. ASSUME NEW s \in Sessions, CloseSession(s) PROVE RuntimeTyped' /\ Drained'
    BY <1>0, <2>9 DEF CloseSession, Io, Leave, gatewayVars, RuntimeTyped, Drained, Finished
  <2>10. CASE SessionStep
    BY <1>0, <2>10 DEF SessionStep, RuntimeTyped, Drained
  <2>11. CASE MainStep
    <3>1. main = "running" => phase = "done" /\ checkers \in {"none",
                                                              "off"} /\ \A s \in Sessions : Finished(s)
      BY <1>0, <2>11, MainMoves DEF Work, RuntimeTyped
    <3>2. /\ UNCHANGED <<mode, threads, session, checkers, raised, live, phase>>
          /\ main' \in {"running", "joined", "destructor", "server gone", "destroyed", "proxies gone",
                        "exited", "crashed"}
          /\ main' = "crashed" => main' = main \/ OutliveRuntime
      BY <2>11, MainMoves DEF contractVars
    <3>3. RuntimeTyped'
      BY <1>0, <3>2 DEF RuntimeTyped
    <3>4. \A s \in Sessions : Finished(s)' <=> Finished(s)
      BY <3>2 DEF Finished
    <3>5. Drained'
      BY <1>0, <3>1, <3>2, <3>4 DEF Drained, OutliveRuntime, Proxied
    <3> QED
      BY <3>3, <3>5
  <2>12. CASE ReloadOutlivesRuntime
    <3>1. /\ main = "destroyed" /\ main' \in {"destroyed", "crashed"}
          /\ main' = "crashed" => reloader = "loaded"
          /\ UNCHANGED <<mode, threads, session, checkers, raised, live, phase>>
      BY <2>12 DEF ReloadOutlivesRuntime, LoadFile, PostLoaded, contractVars
    <3>2. main' = "crashed" => raised > 0
      BY <1>0, <3>1 DEF IInv, ReloadInv, LogFollows
    <3> QED
      BY <1>0, <3>1, <3>2 DEF RuntimeTyped, Drained, Finished, OutliveRuntime, Proxied
  <2> QED
    BY <1>0, <1>2, <2>1, <2>2, <2>3, <2>4, <2>5, <2>6, <2>7, <2>8, <2>9, <2>10, <2>11, <2>12,
       CoroutineIsSessionStep DEF Next, CoroutineStep
<1>3. CASE UNCHANGED vars
  BY <1>1, <1>3 DEF vars, gatewayVars, contractVars
<1> QED
  BY <1>2, <1>3

-----------------------------------------------------------------------------
(* The reload *)

reloadVars == <<managerVars, raised, handled, level, json>>

LEMMA TouchReload ==
  ASSUME Next
  PROVE  \/ UNCHANGED reloadVars
         \/ SendHup \/ HandleHup \/ \E content \in Configs \cup {NoConfig} : Edit(content)
         \/ ManagerStrand \/ ReloadWorker \/ ReloadOutlivesRuntime
<1>1. CASE SendTerm \/ HandleTerm \/ DrainCompleted \/ CheckersEnd \/ HandlerThrows
  BY <1>1 DEF SendTerm, HandleTerm, DrainCompleted, CheckersEnd, CheckersStop, CheckersHang,
              HangingProbeEnds, CheckersGo, HandlerThrows, loggerVars, reloadVars
<1>2. CASE LogWorker \/ LogWorkerWakes
  BY <1>2 DEF LogWorker, LogWorkerWakes, WorkerStep, CheckPredicate, Sleep, WriteEntry, SpuriousWakeup,
              KeepGateway, gatewayVars, reloadVars
<1>3. CASE MainStep
  BY <1>3 DEF MainStep, RunReturns, DestroyServer, LeakObservability, DestroyLogger, DestructorStep,
              RequestStop, NotifyAll, JoinWorker, DestroyFiles, DestroyRuntime, DestroyProxies, Exit, MainGoes,
              KeepGateway, gatewayVars, loggerVars, reloadVars
<1>4. CASE \E s \in Sessions : CloseSession(s) \/ FileWorker(s) \/ AwaitFile(s)
  BY <1>4 DEF CloseSession, FileWorker, AwaitFile, KeepData, KeepGateway, gatewayVars, loggerVars, reloadVars
<1>5. ASSUME NEW s \in Sessions,
             Connect(s) \/ ReadRequest(s) \/ EndUnserved(s) \/ HandlerReturns(s) \/ Hangs(s)
      PROVE  UNCHANGED reloadVars
  BY <1>5 DEF Connect, ReadRequest, EndUnserved, HandlerReturns, Hangs, ProxyHangs, HangEnds, Goes,
              KeepRuntime, KeepData, loggerVars,
              reloadVars
<1>6. ASSUME NEW s \in Sessions,
             FileAnswered(s) \/ CheckLevel(s) \/ LogRequest(s) \/ EndServed(s)
      PROVE  UNCHANGED reloadVars
  BY <1>6 DEF FileAnswered, CheckLevel, LogRequest, logAccess, EndServed, Goes, KeepRuntime, KeepData,
              loggerVars, reloadVars
<1> QED
  BY <1>1, <1>2, <1>3, <1>4, <1>5, <1>6 DEF Next, CoroutineStep

\* A handler is posted behind the others.
LEMMA Posted ==
  ASSUME NEW h \in Handlers, strand \in Seq(Handlers), strand' = Append(strand, h)
  PROVE  /\ strand' \in Seq(Handlers) /\ Len(strand) \in Nat /\ Len(strand') = Len(strand) + 1
         /\ \A i \in 1 .. Len(strand) : strand'[i] = strand[i]
         /\ strand'[Len(strand) + 1] = h
  BY AppendProperties, LenProperties

\* The strand takes its first handler.
LEMMA Taken ==
  ASSUME NEW kind, ReloadTyped, TakeHandler(kind)
  PROVE  /\ strand' \in Seq(Handlers) /\ Len(strand') \in Nat /\ Len(strand) = Len(strand') + 1
         /\ \A i \in 1 .. Len(strand') : strand'[i] = strand[i + 1]
         /\ strand[1].handler = kind /\ strand[1] = Head(strand) /\ strand[1] \in Handlers
<1>1. strand \in Seq(Handlers) /\ strand # <<>> /\ strand' = Tail(strand) /\ Head(strand).handler = kind
  BY DEF TakeHandler, ReloadTyped
<1>2. Len(strand) \in Nat \ {0} /\ Head(strand) = strand[1]
  BY <1>1, EmptySeq
<1> QED
  BY <1>1, <1>2, HeadTailProperties, ElementOfSeq

\* SIGHUP: the reload asked for may be turned away, so nothing is settled until it
\* has been handled.
LEMMA SignalKeeps ==
  ASSUME ReloadInv, RuntimeTyped, UNCHANGED mode,
         SendHup \/ HandleHup \/ \E content \in Configs \cup {NoConfig} : Edit(content)
  PROVE  ReloadInv'
<1>0. ReloadTyped /\ raised \in Nat /\ handled \in 0 .. raised
  BY DEF ReloadInv, ReloadTyped
<1>1. CASE SendHup
  <2>1. /\ mode = "config" /\ raised' = raised + 1 /\ edited' = FALSE
        /\ UNCHANGED <<file, initial, snapshot, reload_in_progress, strand, reloader, candidate, publishing,
                       report, handled, level, json>>
    BY <1>1 DEF SendHup, AskReload, loggerVars
  <2>2. raised' \in Nat /\ handled' \in 0 .. raised' /\ handled' # raised' /\ raised' # 0
    BY <1>0, <2>1
  <2>3. ReloadTyped'
    BY <1>0, <2>1, <2>2 DEF ReloadTyped
  <2>4. ~Settled'
    BY <2>2 DEF Settled
  <2>5. LogFollows' /\ OneReload'
    BY <2>1, <2>2 DEF ReloadInv, LogFollows, OneReload, Returning
  <2> QED
    BY <2>1, <2>3, <2>4, <2>5 DEF ReloadInv, Fresh
<1>2. ASSUME NEW content \in Configs \cup {NoConfig}, Edit(content) PROVE ReloadInv'
  <2>1. /\ file' = content /\ edited' = TRUE
        /\ UNCHANGED <<initial, snapshot, reload_in_progress, strand, reloader, candidate, publishing,
                       report, raised, handled, level, json>>
    BY <1>2 DEF Edit, EditFile, loggerVars, gatewayVars
  <2>2. ReloadTyped' /\ ~Settled'
    BY <1>0, <2>1 DEF ReloadTyped, Settled
  <2>3. LogFollows' /\ OneReload'
    BY <2>1 DEF ReloadInv, LogFollows, OneReload, Returning
  <2> QED
    BY <2>1, <2>2, <2>3 DEF ReloadInv, Fresh
<1>3. CASE HandleHup
  <2>1. /\ handled < raised /\ handled' = handled + 1 /\ strand' = Append(strand, Request)
        /\ UNCHANGED <<file, initial, snapshot, reload_in_progress, reloader, candidate, publishing, report,
                       edited, raised, level, json>>
    BY <1>3 DEF HandleHup, requestReload, loggerVars
  <2>2. Request \in Handlers /\ Request.handler = "request"
    BY DEF Request, Handlers
  <2>3. /\ strand' \in Seq(Handlers) /\ Len(strand) \in Nat /\ Len(strand') = Len(strand) + 1
        /\ \A i \in 1 .. Len(strand) : strand'[i] = strand[i]
        /\ strand'[Len(strand) + 1].handler = "request"
    BY <1>0, <2>1, <2>2, Posted DEF ReloadTyped
  <2>4. ReloadTyped'
    BY <1>0, <2>1, <2>3 DEF ReloadTyped
  <2>5. ~Settled'
    BY <2>3 DEF Settled
  <2>6. Returning' <=> Returning
    BY <2>3 DEF Returning
  <2>7. OneReload'
    BY <2>1, <2>3, <2>6 DEF ReloadInv, OneReload
  <2>8. LogFollows'
    BY <1>0, <2>1 DEF ReloadInv, LogFollows
  <2> QED
    BY <2>1, <2>4, <2>5, <2>7, <2>8 DEF ReloadInv, Fresh
<1> QED
  BY <1>1, <1>2, <1>3

\* One reload at a time: nothing is on its way back when one is started.
LEMMA StartKeeps ==
  ASSUME ReloadInv, StartReload, UNCHANGED <<mode, raised, handled, level, json>>
  PROVE  ReloadInv'
<1>0. ReloadTyped /\ OneReload /\ LogFollows
  BY DEF ReloadInv
<1>1. /\ publishing = "no" /\ TakeHandler("request")
      /\ UNCHANGED <<file, initial, snapshot, candidate, publishing, edited>>
      /\ \/ reload_in_progress /\ report' = "rejected" /\ UNCHANGED <<reload_in_progress, reloader>>
         \/ ~reload_in_progress /\ reload_in_progress' = TRUE /\ reloader' = "queued"
  BY DEF StartReload, TakeHandler
<1>2. /\ strand' \in Seq(Handlers) /\ Len(strand') \in Nat /\ Len(strand) = Len(strand') + 1
      /\ \A i \in 1 .. Len(strand') : strand'[i] = strand[i + 1]
      /\ strand[1].handler = "request"
  BY <1>0, <1>1, Taken
<1>3. ReloadTyped'
  BY <1>0, <1>1, <1>2 DEF ReloadTyped
<1>4. Returning' <=> Returning
  <2>1. ASSUME Returning PROVE Returning'
    <3>1. PICK i \in 1 .. Len(strand) : strand[i].handler = "loaded"
      BY <2>1 DEF Returning
    <3>2. i # 1 /\ i - 1 \in 1 .. Len(strand') /\ strand'[i - 1] = strand[i]
      BY <1>2, <3>1
    <3> QED
      BY <3>1, <3>2 DEF Returning
  <2>2. ASSUME Returning' PROVE Returning
    <3>1. PICK i \in 1 .. Len(strand') : strand'[i].handler = "loaded"
      BY <2>2 DEF Returning
    <3>2. i + 1 \in 1 .. Len(strand) /\ strand'[i] = strand[i + 1]
      BY <1>2, <3>1
    <3> QED
      BY <3>1, <3>2 DEF Returning
  <2> QED
    BY <2>1, <2>2
<1>5. OneReload'
  <2>1. \A i, j \in 1 .. Len(strand') :
           strand'[i].handler = "loaded" /\ strand'[j].handler = "loaded" => i = j
    <3>1. SUFFICES ASSUME NEW i \in 1 .. Len(strand'), NEW j \in 1 .. Len(strand'),
                          strand'[i].handler = "loaded", strand'[j].handler = "loaded"
                   PROVE  i = j
      OBVIOUS
    <3>2. i + 1 \in 1 .. Len(strand) /\ j + 1 \in 1 .. Len(strand)
      BY <1>2
    <3>3. strand[i + 1].handler = "loaded" /\ strand[j + 1].handler = "loaded"
      BY <1>2, <3>1
    <3>4. i + 1 = j + 1
      BY <1>0, <3>2, <3>3 DEF OneReload
    <3> QED
      BY <3>4
  <2>2. /\ reload_in_progress' <=> reloader' # "idle" \/ Returning'
        /\ reloader' # "idle" => ~Returning'
    BY <1>0, <1>1, <1>4 DEF OneReload, ReloadTyped
  <2> QED
    BY <2>1, <2>2 DEF OneReload
<1>6. Fresh'
  <2>1. CASE report' = "rejected"
    BY <2>1 DEF Fresh, Settled
  <2>2. CASE ~reload_in_progress /\ reload_in_progress' = TRUE /\ reloader' = "queued"
    <3>1. ~Returning'
      BY <1>0, <1>4, <2>2 DEF OneReload
    <3>2. \A i \in 1 .. Len(strand') : strand'[i] \in Handlers
      BY <1>2, ElementOfSeq
    <3>3. \A i \in 1 .. Len(strand') : strand'[i].handler = "request"
      BY <3>1, <3>2 DEF Returning, Handlers
    <3> QED
      BY <2>2, <3>3 DEF Fresh, Settled
  <2> QED
    BY <1>1, <2>1, <2>2
<1>7. LogFollows'
  <2>1. raised # 0
    BY <1>0, <1>1 DEF LogFollows, TakeHandler
  <2> QED
    BY <1>0, <1>1, <2>1 DEF LogFollows
<1> QED
  BY <1>1, <1>3, <1>5, <1>6, <1>7 DEF ReloadInv

LEMMA LoadKeeps ==
  ASSUME ReloadInv, LoadFile, UNCHANGED <<mode, raised, handled, level, json>>
  PROVE  ReloadInv'
<1>1. /\ reloader = "queued" /\ reloader' = "loaded" /\ candidate' = file
      /\ UNCHANGED <<file, initial, snapshot, reload_in_progress, strand, publishing, report, edited>>
  BY DEF LoadFile
<1>2. ReloadTyped'
  BY <1>1 DEF ReloadInv, ReloadTyped
<1>3. OneReload' /\ Fresh' /\ LogFollows'
  BY <1>1 DEF ReloadInv, OneReload, Returning, Fresh, Settled, LogFollows
<1> QED
  BY <1>1, <1>2, <1>3 DEF ReloadInv

\* What the manager's thread has read goes back to the strand.
LEMMA PostKeeps ==
  ASSUME ReloadInv, PostLoaded, UNCHANGED <<mode, raised, handled, level, json>>
  PROVE  ReloadInv'
<1>0. ReloadTyped /\ OneReload /\ LogFollows /\ Fresh
  BY DEF ReloadInv
<1>1. /\ reloader = "loaded" /\ reloader' = "idle" /\ candidate' = NoConfig
      /\ strand' = Append(strand, Loaded(candidate))
      /\ UNCHANGED <<file, initial, snapshot, reload_in_progress, publishing, report, edited>>
  BY DEF PostLoaded
<1>2. /\ Loaded(candidate) \in Handlers
      /\ Loaded(candidate).handler = "loaded" /\ Loaded(candidate).next = candidate
  BY <1>0 DEF Loaded, Handlers, ReloadTyped
<1>3. /\ strand' \in Seq(Handlers) /\ Len(strand) \in Nat /\ Len(strand') = Len(strand) + 1
      /\ \A i \in 1 .. Len(strand) : strand'[i] = strand[i]
      /\ strand'[Len(strand) + 1] = Loaded(candidate)
  BY <1>0, <1>1, <1>2, Posted DEF ReloadTyped
<1>4. ReloadTyped'
  BY <1>0, <1>1, <1>3 DEF ReloadTyped
<1>5. /\ \A i \in 1 .. Len(strand) : strand'[i].handler = "request"
      /\ reload_in_progress
  <2>1. \A i \in 1 .. Len(strand) : strand[i] \in Handlers
    BY <1>0, ElementOfSeq DEF ReloadTyped
  <2> QED
    BY <1>0, <1>1, <1>3, <2>1 DEF OneReload, Returning, Handlers
<1>6. Returning'
  BY <1>2, <1>3 DEF Returning
<1>7. \A i \in 1 .. Len(strand') : strand'[i].handler = "loaded" => i = Len(strand) + 1
  BY <1>3, <1>5
<1>8. OneReload'
  BY <1>1, <1>5, <1>6, <1>7 DEF OneReload
<1>9. Fresh'
  <2>1. SUFFICES ASSUME Settled' PROVE Fresh'
    BY DEF Fresh
  <2>2. Len(strand) = 0
    BY <1>3, <1>5, <2>1 DEF Settled
  <2>3. Settled
    BY <1>1, <2>1, <2>2 DEF Settled
  <2>4. candidate = file
    BY <1>0, <1>1, <2>3 DEF Fresh
  <2>5. \A i \in 1 .. Len(strand') : strand'[i].next = file'
    BY <1>1, <1>2, <1>3, <2>2, <2>4
  <2> QED
    BY <1>1, <1>5, <2>5 DEF Fresh
<1>10. LogFollows'
  <2>1. raised # 0
    BY <1>0, <1>1 DEF LogFollows
  <2> QED
    BY <1>0, <1>1, <2>1 DEF LogFollows
<1> QED
  BY <1>0, <1>1, <1>4, <1>8, <1>9, <1>10 DEF ReloadInv

\* The strand ends the reload: what it publishes differs in the logging part only,
\* and is the file if nothing has happened since the last SIGHUP.
LEMMA FinishKeeps ==
  ASSUME ReloadInv, FinishReload, UNCHANGED <<mode, raised, handled, level, json>>
  PROVE  ReloadInv'
<1>0. ReloadTyped /\ OneReload /\ LogFollows /\ Fresh /\ snapshot.static = initial.static
  BY DEF ReloadInv
<1> DEFINE next == Head(strand).next
<1>1. /\ TakeHandler("loaded") /\ publishing = "no" /\ strand # <<>> /\ reload_in_progress' = FALSE
      /\ IF Publishable(next) THEN snapshot' = next /\ publishing' = "level"
         ELSE UNCHANGED <<snapshot, publishing>>
      /\ UNCHANGED <<file, initial, reloader, candidate, report, edited>>
  BY DEF FinishReload, TakeHandler
<1>2. /\ strand' \in Seq(Handlers) /\ Len(strand') \in Nat /\ Len(strand) = Len(strand') + 1
      /\ \A i \in 1 .. Len(strand') : strand'[i] = strand[i + 1]
      /\ strand[1].handler = "loaded" /\ strand[1].next = next /\ strand[1] \in Handlers
  BY <1>0, <1>1, Taken
<1>3. next \in Configs \cup {NoConfig}
  BY <1>2 DEF Handlers
<1> HIDE DEF next
<1>4. snapshot' \in Configs /\ snapshot'.static = initial'.static
  BY <1>0, <1>1, <1>3 DEF Publishable, ReloadTyped
<1>5. publishing' \in {"no", "level"} /\ (publishing' = "no" => snapshot' = snapshot)
  BY <1>1
<1>6. ReloadTyped'
  BY <1>0, <1>1, <1>2, <1>4, <1>5 DEF ReloadTyped
<1>7. reloader = "idle" /\ ~Returning'
  <2>1. Returning
    BY <1>2 DEF Returning
  <2>2. ASSUME NEW i \in 1 .. Len(strand'), strand'[i].handler = "loaded" PROVE FALSE
    <3>1. /\ i + 1 \in 1 .. Len(strand) /\ 1 \in 1 .. Len(strand)
          /\ strand[i + 1].handler = "loaded"
      BY <1>2, <2>2
    <3>2. i + 1 = 1
      BY <1>0, <1>2, <3>1 DEF OneReload
    <3> QED
      BY <3>2
  <2> QED
    BY <1>0, <2>1, <2>2 DEF OneReload, Returning
<1>8. OneReload'
  BY <1>1, <1>7 DEF OneReload, Returning
<1>9. Fresh'
  <2>1. SUFFICES ASSUME Settled' PROVE Fresh'
    BY DEF Fresh
  <2>2. \A i \in 1 .. Len(strand') : FALSE
    <3>1. \A i \in 1 .. Len(strand') : strand'[i] \in Handlers
      BY <1>2, ElementOfSeq
    <3> QED
      BY <1>7, <2>1, <3>1 DEF Settled, Returning, Handlers
  <2>3. Len(strand') = 0
    BY <1>2, <2>2
  <2>4. Settled
    BY <1>1, <1>2, <2>1, <2>3 DEF Settled
  <2>5. next = file
    BY <1>0, <1>2, <2>3, <2>4 DEF Fresh
  <2>6. file # NoConfig /\ file.static = initial.static => snapshot' = file
    BY <1>0, <1>1, <2>5 DEF Publishable
  <2> QED
    BY <1>1, <1>7, <2>2, <2>6 DEF Fresh
<1>10. LogFollows'
  <2>1. raised # 0 /\ publishing' # "json"
    BY <1>0, <1>1, <1>5 DEF LogFollows
  <2> QED
    BY <1>0, <1>1, <1>5, <2>1 DEF LogFollows
<1> QED
  BY <1>4, <1>6, <1>8, <1>9, <1>10 DEF ReloadInv

\* The two stores of setLogging follow a publication.
LEMMA PublishKeeps ==
  ASSUME ReloadInv, PublishLevel \/ PublishJson, UNCHANGED mode
  PROVE  ReloadInv'
<1>1. /\ UNCHANGED <<file, initial, snapshot, reload_in_progress, strand, reloader, candidate, report, edited,
                     raised, handled>>
      /\ \/ publishing = "level" /\ publishing' = "json" /\ level' = snapshot.logging.level /\ json' = json
         \/ publishing = "json" /\ publishing' = "no" /\ level' = level /\ json' = snapshot.logging.json
  BY DEF PublishLevel, PublishJson, Publishing, SetLevel, SetJson, KeepGateway, gatewayVars
<1>2. ReloadTyped'
  BY <1>1 DEF ReloadInv, ReloadTyped
<1>3. OneReload' /\ Fresh'
  BY <1>1 DEF ReloadInv, OneReload, Returning, Fresh, Settled
<1>4. LogFollows'
  <2>1. raised # 0 /\ mode # "cli"
    BY <1>1 DEF ReloadInv, LogFollows
  <2> QED
    BY <1>1, <2>1 DEF ReloadInv, LogFollows
<1> QED
  BY <1>1, <1>2, <1>3, <1>4 DEF ReloadInv

LEMMA ReloadStep ==
  ASSUME IInv, [Next]_vars
  PROVE  ReloadInv'
<1>0. ReloadInv /\ RuntimeTyped
  BY DEF IInv
<1>1. CASE UNCHANGED reloadVars /\ UNCHANGED mode
  BY <1>0, <1>1 DEF reloadVars, managerVars, ReloadInv, ReloadTyped, OneReload, Returning, Fresh, Settled,
                    LogFollows
<1>2. ASSUME Next PROVE ReloadInv'
  <2>0. UNCHANGED mode
    BY <1>2, TouchLog
  <2>1. CASE SendHup \/ HandleHup \/ \E content \in Configs \cup {NoConfig} : Edit(content)
    BY <1>0, <2>0, <2>1, SignalKeeps
  <2>2. CASE ManagerStrand
    <3>1. CASE PublishLevel \/ PublishJson
      BY <1>0, <2>0, <3>1, PublishKeeps
    <3>2. CASE (StartReload \/ FinishReload) /\ KeepGateway /\ UNCHANGED loggerVars
      BY <1>0, <3>2, StartKeeps, FinishKeeps DEF KeepGateway, gatewayVars, loggerVars
    <3> QED
      BY <2>2, <3>1, <3>2 DEF ManagerStrand
  <2>3. CASE ReloadWorker \/ ReloadOutlivesRuntime
    <3>1. (LoadFile \/ PostLoaded) /\ UNCHANGED <<mode, raised, handled, level, json>>
      BY <2>3 DEF ReloadWorker, ReloadOutlivesRuntime, KeepGateway, gatewayVars, loggerVars
    <3> QED
      BY <1>0, <3>1, LoadKeeps, PostKeeps
  <2> QED
    BY <1>1, <1>2, <2>0, <2>1, <2>2, <2>3, TouchReload
<1>3. CASE UNCHANGED vars
  BY <1>1, <1>3 DEF vars, gatewayVars, loggerVars, reloadVars
<1> QED
  BY <1>2, <1>3

-----------------------------------------------------------------------------
(* The theorems *)

LEMMA InitIInv ==
  ASSUME Init
  PROVE  IInv
<1>1. LogInv
  <2>1. /\ queue = <<>> /\ accepted = <<>> /\ written = <<>> /\ worker = "lock" /\ dropped = 0
        /\ entry = NoEntry /\ stop_requested = FALSE /\ destructor = "no" /\ main = "running"
    BY DEF Init, LoggerInit
  <2>2. <<>> \in Seq(Sessions) /\ Len(<<>>) = 0 /\ <<>> \o <<>> = <<>>
    BY EmptySeq, ConcatEmptySeq
  <2>3. LogTyped
    <3>1. Len(queue) <= queue_capacity /\ dropped \in Nat
      BY <2>1, <2>2, LoggerConfig
    <3>2. /\ queue \in Seq(Sessions) /\ accepted \in Seq(Sessions) /\ written \in Seq(Sessions)
          /\ stop_requested \in BOOLEAN
      BY <2>1, <2>2
    <3> QED
      BY <2>1, <3>1, <3>2 DEF LogTyped
  <2> QED
    BY <2>1, <2>2, <2>3 DEF LogInv, NothingLost, LogEnds, InHand
<1>2. LogCounts
  <2>1. Logged = {}
    BY DEF Init, Logged
  <2>2. Len(accepted) = 0 /\ dropped = 0
    BY EmptySeq DEF Init, LoggerInit
  <2> QED
    BY <2>1, <2>2, FS_EmptySet DEF LogCounts
<1>3. FileInv /\ FileAwaited
  <2>1. /\ reads = [s \in Sessions |-> "none"] /\ seen = [s \in Sessions |-> 0] /\ pending = 0
    BY DEF Init, FileInit
  <2>2. Slots = {}
    BY <2>1 DEF Slots, In
  <2> QED
    BY <2>1, <2>2, FS_EmptySet, FileLimits DEF FileInv, FileAwaited
<1>4. ReloadInv
  <2>1. /\ file = Initial /\ initial = Initial /\ snapshot = Initial /\ reload_in_progress = FALSE
        /\ strand = <<>> /\ reloader = "idle" /\ candidate = NoConfig /\ publishing = "no"
        /\ report = "none" /\ edited = FALSE /\ raised = 0 /\ handled = 0
    BY DEF Init, ManagerInit
  <2>2. strand \in Seq(Handlers) /\ Len(strand) = 0
    BY <2>1, EmptySeq
  <2>3. ReloadTyped
    <3>1. raised \in Nat /\ handled \in 0 .. raised
      BY <2>1
    <3>2. reload_in_progress \in BOOLEAN /\ edited \in BOOLEAN
      BY <2>1
    <3>3. initial \in Configs /\ snapshot \in Configs /\ file \in Configs /\ candidate \in {NoConfig}
      BY <2>1, RuntimeConfig
    <3> QED
      BY <2>1, <2>2, <3>1, <3>2, <3>3 DEF ReloadTyped
  <2>4. OneReload /\ Fresh
    BY <2>1, <2>2 DEF OneReload, Returning, Fresh, Settled
  <2>5. LogFollows
    <3>1. CASE mode = "config"
      <4>1. level = initial.logging.level /\ json = initial.logging.json
        BY <3>1 DEF Init, LoggerInit
      <4> QED
        BY <2>1, <3>1, <4>1 DEF LogFollows
    <3>2. CASE mode = "cli"
      <4>1. level = "info"
        BY <3>2 DEF Init, LoggerInit
      <4> QED
        BY <2>1, <3>2, <4>1 DEF LogFollows
    <3> QED
      BY <3>1, <3>2 DEF Init
  <2> QED
    BY <2>1, <2>3, <2>4, <2>5 DEF ReloadInv
<1>5. RuntimeTyped /\ Drained
  BY RuntimeConfig DEF Init, ContractInit, RuntimeTyped, Drained
<1> QED
  BY <1>1, <1>2, <1>3, <1>4, <1>5 DEF IInv, LogInv

\* The invariant holds of every state of the process, from start to exit.
THEOREM Inductive == Spec => []IInv
<1>1. IInv /\ [Next]_vars => IInv'
  BY LogStep, LogCountsStep, FileStep, FileAwaitedStep, ReloadStep, RuntimeStep DEF IInv, LogInv
<1> QED
  BY <1>1, InitIInv, PTL DEF Spec

\* Every variable holds a value of its type, and the log's queue its capacity
\* (AsyncLogger::logAccess).
THEOREM Typed == Spec => []TypeOK
<1>1. IInv => TypeOK
  <2>1. SUFFICES ASSUME IInv PROVE TypeOK
    OBVIOUS
  <2>2. pending \in 0 .. file_capacity
    BY <2>1, FileLimits, FS_CardinalityType DEF IInv, FileInv
  <2> QED
    BY <2>1, <2>2 DEF IInv, LogTyped, FileInv, ReloadInv, ReloadTyped, RuntimeTyped, TypeOK
<1> QED
  BY <1>1, Inductive, PTL

\* The access log (AsyncLogger) loses, repeats and reorders nothing, counts what it
\* drops, and is empty when the server is gone.
THEOREM LogKept == Spec => []AccessLogKept
<1>1. IInv => AccessLogKept
  <2>1. SUFFICES ASSUME IInv PROVE AccessLogKept
    OBVIOUS
  <2>2. accepted = (written \o InHand) \o queue
    BY <2>1 DEF IInv, NothingLost
  <2>3. ASSUME mode = "cli", main \in {"server gone", "destroyed", "proxies gone",
                                       "exited"} PROVE written = accepted
    <3>1. queue = <<>> /\ InHand = <<>> /\ written \in Seq(Sessions)
      BY <2>1, <2>3 DEF IInv, LogEnds, LogTyped, InHand
    <3> QED
      BY <2>2, <3>1, ConcatEmptySeq
  <2>4. mode = "cli" => Len(accepted) + dropped = Cardinality(Logged)
    BY <2>1 DEF IInv, LogCounts
  <2> QED
    BY <2>2, <2>3, <2>4 DEF AccessLogKept, InHand, Logged
<1> QED
  BY <1>1, Inductive, PTL

\* A reload that was accepted (ConfigManager::requestReload) ends, and publishes the
\* file unless that needs a restart.
THEOREM Honoured == Spec => []ReloadHonoured
<1>1. IInv => ReloadHonoured
  <2>1. SUFFICES ASSUME IInv PROVE ReloadHonoured
    OBVIOUS
  <2>2. ASSUME ReloadQuiet
        PROVE  /\ ~reload_in_progress
               /\ handled = raised /\ report = "accepted" /\ ~edited => Settled
    <3>1. Len(strand) = 0 /\ reloader = "idle"
      BY <2>2, EmptySeq DEF ReloadQuiet
    <3> QED
      BY <2>1, <3>1 DEF IInv, ReloadInv, OneReload, Returning, Settled
  <2> QED
    BY <2>1, <2>2 DEF IInv, ReloadInv, LogFollows, Fresh, ReloadQuiet, ReloadHonoured
<1> QED
  BY <1>1, Inductive, PTL

\* pending_ of the file service is exact and within its limit, however the
\* compare-and-swap loops of tryAcquireSlot interleave.
THEOREM SlotsExact == Spec => []FileSlotsExact
<1>1. IInv => FileSlotsExact
  BY DEF IInv, FileInv, Slots, FileSlotsExact
<1> QED
  BY <1>1, Inductive, PTL

\* main takes nothing down that still runs, however many handlers have thrown.
THEOREM CleanStop == Spec => []StopsClean
<1>1. IInv => StopsClean
  <2>1. SUFFICES ASSUME IInv PROVE StopsClean
    OBVIOUS
  <2>2. ASSUME main # "running", NEW s \in Sessions PROVE Finished(s) /\ reads[s] \in {"none", "done"}
    BY <2>1, <2>2 DEF IInv, Drained, Finished, FileAwaited
  <2> QED
    BY <2>1, <2>2 DEF IInv, Drained, StopsClean
<1> QED
  BY <1>1, Inductive, PTL

=============================================================================
