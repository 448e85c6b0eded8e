------------------------------ MODULE Gateway -------------------------------
(***************************************************************************)
(* The pulsegate process (app/pulsegate_main.cpp) from start to exit: the  *)
(* AsioRuntime and its worker threads, the signal handler, the sessions,   *)
(* the access log, configuration reload or static files, and the order in  *)
(* which main takes them down.  The server's part is DrainContract, which  *)
(* HttpServer implements.                                                  *)
(*                                                                         *)
(* The program runs in one of two modes: "config" (runFromConfig, with     *)
(* reload on SIGHUP) or "cli" (options, with static files).  A connection  *)
(* carries one request.                                                    *)
(***************************************************************************)
EXTENDS AsyncLogger, ConfigManager, FileService, DrainContract

CONSTANTS io_threads,
          MaxFaults,     \* for each mode: handlers that throw (the last worker goes on),
          MaxClients,    \* connections,
          Upstreams,     \* and whether there are health checkers: "on", "none"
          MaxHups,       \* SIGHUPs
          Initial        \* the configuration the program is started with
ASSUME RuntimeConfig ==
    /\ io_threads \in Nat \ {0}
    /\ \A m \in {"config", "cli"} : /\ MaxFaults[m] \in 0 .. io_threads - 1
                                    /\ Upstreams[m] \subseteq {"on", "none"}
    /\ Initial \in Configs

VARIABLES
    mode,
    guard, threads,       \* AsioRuntime: work_guard_, the workers still in run()
    armed,                \* an async_wait of the signal set is pending
    raised, handled,      \* SIGHUPs
    term,                 \* SIGTERM or SIGINT: "no", "raised", "handled"
    session,              \* where each session's coroutine is
    checkers,             \* the health checkers: "none" without upstreams, otherwise "on",
                          \* "stopping", "stuck" in a probe that was not cancelled, "off"
    main                  \* the main thread

gatewayVars == <<mode, guard, threads, armed, raised, handled, term, session, checkers, main>>
vars == <<loggerVars, managerVars, fileVars, contractVars, gatewayVars>>

Init ==
    /\ mode \in {"config", "cli"}
    /\ ManagerInit(Initial)
    /\ LoggerInit(IF mode = "config" THEN initial.logging ELSE [level |-> "info", json |-> TRUE])
    /\ FileInit(Sessions)
    /\ ContractInit
    /\ guard = TRUE /\ threads = io_threads /\ armed = TRUE
    /\ raised = 0 /\ handled = 0 /\ term = "no"
    /\ session = [s \in Sessions |-> "none"]
    /\ checkers \in Upstreams[mode]
    /\ main = "running"

\* Upstreams are configured: there are a proxy and a health checker for each.
Proxied == checkers # "none"
\* Handlers run while a worker is in run().
Io == main = "running" /\ threads > 0
Alive == main \notin {"exited", "crashed"}
KeepRuntime == UNCHANGED <<mode, guard, threads, armed, raised, handled, term, checkers, main>>

-----------------------------------------------------------------------------
(* Signals, and the operator: one edit of the file between two SIGHUPs, and  *)
(* nothing once run() has returned.                                          *)

SendHup ==
    /\ Io /\ mode = "config" /\ raised < MaxHups
    /\ raised' = raised + 1
    /\ AskReload
    /\ UNCHANGED <<mode, guard, threads, armed, handled, term, session, checkers, main, loggerVars,
                   fileVars, contractVars>>
SendTerm ==
    /\ Io /\ term = "no"
    /\ term' = "raised"
    /\ UNCHANGED <<mode, guard, threads, armed, raised, handled, session, checkers, main, loggerVars,
                   managerVars, fileVars, contractVars>>
Edit(content) ==
    /\ Io /\ mode = "config" /\ ~edited
    /\ EditFile(content)
    /\ UNCHANGED <<gatewayVars, loggerVars, fileVars, contractVars>>
\* SIGHUP asks for a reload and waits for the next signal.
HandleHup ==
    /\ Io /\ armed /\ handled < raised
    /\ handled' = handled + 1
    /\ requestReload
    /\ UNCHANGED <<mode, guard, threads, armed, raised, term, session, checkers, main, loggerVars,
                   fileVars, contractVars>>
\* SIGTERM and SIGINT drain the server and are not waited for again.
HandleTerm ==
    /\ Io /\ armed /\ term = "raised"
    /\ term' = "handled" /\ armed' = FALSE
    /\ BeginToDrain
    /\ UNCHANGED <<mode, guard, threads, raised, handled, session, checkers, main, loggerVars,
                   managerVars, fileVars>>

\* Faulty variant: the callback leaves the health checkers running.
DrainCompleted_Probing ==
    /\ Io /\ Complete
    /\ guard' = FALSE
    /\ UNCHANGED <<mode, threads, armed, raised, handled, term, session, checkers, main, loggerVars,
                   managerVars, fileVars>>
\* The completion callback: the health checkers and the proxies are stopped and
\* the work guard is released.
DrainCompleted ==
    /\ Io /\ Complete
    /\ checkers' = IF Proxied THEN "stopping" ELSE checkers
    /\ guard' = FALSE
    /\ UNCHANGED <<mode, threads, armed, raised, handled, term, session, main, loggerVars,
                   managerVars, fileVars>>
CheckersGo(from, to) ==
    /\ Io /\ checkers = from /\ checkers' = to
    /\ UNCHANGED <<mode, guard, threads, armed, raised, handled, term, session, main, loggerVars,
                   managerVars, fileVars, contractVars>>
\* stop() cancels the probes and they end.  One whose resolver has just completed has
\* nothing to cancel, opens the socket that stop() closed and has no timer any more:
\* it lasts as long as its peer lets it.
CheckersStop == CheckersGo("stopping", "off")
CheckersHang == CheckersGo("stopping", "stuck")
HangingProbeEnds == CheckersGo("stuck", "off")
CheckersEnd == CheckersStop \/ CheckersHang \/ HangingProbeEnds

-----------------------------------------------------------------------------
(* Sessions *)

Goes(s, from, to) == /\ Io
                     /\ session[s] = from
                     /\ session' = [session EXCEPT ![s] = to]
                     /\ KeepRuntime
KeepData == UNCHANGED <<loggerVars, managerVars, fileVars>>

Connect(s) ==
    /\ Cardinality({t \in Sessions : session[t] # "none"}) < MaxClients[mode]
    /\ Goes(s, "none", "open")
    /\ Admit(s)
    /\ KeepData
\* The session is closed: by its client or a deadline while it reads, by a drain
\* at once while it reads and otherwise when the grace is over.
CloseSession(s) ==
    /\ Io
    /\ session[s] = "open" \/ phase = "draining"
    /\ Leave(s)
    /\ UNCHANGED gatewayVars /\ KeepData
\* A coroutine that reads notices that its session has been closed; one that is
\* handling a request goes on until that is answered.
EndUnserved(s) ==
    s \notin live /\ Goes(s, "open", "closed") /\ KeepData /\ UNCHANGED contractVars
ReadRequest(s) ==
    /\ s \in live
    /\ \/ Goes(s, "open", "handling")
       \/ mode = "cli" /\ Goes(s, "open", "file")
    /\ KeepData /\ UNCHANGED contractVars
\* The handler returns and the response is written, or cannot be.
HandlerReturns(s) == Goes(s, "handling", "answered") /\ KeepData /\ UNCHANGED contractVars
\* A proxy transaction whose deadline has been used up waits for its upstream without
\* one, and cancel() does nothing (ProxyTransaction!OperationEnds).
ProxyHangs(s) == Proxied /\ Goes(s, "handling", "stuck") /\ KeepData /\ UNCHANGED contractVars
HangEnds(s) == Goes(s, "stuck", "answered") /\ KeepData /\ UNCHANGED contractVars
Hangs(s) == ProxyHangs(s) \/ HangEnds(s)
\* StaticFileHandler: BoundedFileService::read.
AwaitFile(s) ==
    /\ Io /\ session[s] = "file"
    /\ LoadPending(s) \/ AcquireSlot(s)
    /\ UNCHANGED <<gatewayVars, loggerVars, managerVars, contractVars>>
FileAnswered(s) ==
    /\ Goes(s, "file", "answered")
    /\ TakeReply(s)
    /\ UNCHANGED <<loggerVars, managerVars, contractVars>>
\* logAccess, once the answer is out.
CheckLevel(s) ==
    /\ Goes(s, "answered", IF LogsAccess THEN "logging" ELSE "logged")
    /\ KeepData /\ UNCHANGED contractVars
LogRequest(s) ==
    /\ Goes(s, "logging", "logged")
    /\ logAccess(s)
    /\ UNCHANGED <<managerVars, fileVars, contractVars>>
EndServed(s) ==
    /\ Goes(s, "logged", "ended")
    /\ \/ Leave(s)
       \/ s \notin live /\ UNCHANGED contractVars
    /\ KeepData

CoroutineStep(s) ==
    \/ EndUnserved(s) \/ HandlerReturns(s) \/ AwaitFile(s) \/ FileAnswered(s)
    \/ CheckLevel(s) \/ LogRequest(s) \/ EndServed(s)

-----------------------------------------------------------------------------
(* Other threads *)

KeepGateway == UNCHANGED <<gatewayVars, contractVars>>

FileWorker(s) == Alive /\ FileWorkerStep(s) /\ KeepGateway /\ UNCHANGED <<loggerVars, managerVars>>
LogWorker == Alive /\ WorkerStep /\ KeepGateway /\ UNCHANGED <<managerVars, fileVars>>
LogWorkerWakes == Alive /\ SpuriousWakeup /\ KeepGateway /\ UNCHANGED <<managerVars, fileVars>>

\* The handler given to requestReload, after a publication.
PublishLevel ==
    /\ Io /\ Publishing("level", "json") /\ SetLevel(snapshot.logging.level)
    /\ KeepGateway /\ UNCHANGED fileVars
PublishJson ==
    /\ Io /\ Publishing("json", "no") /\ SetJson(snapshot.logging.json)
    /\ KeepGateway /\ UNCHANGED fileVars
ManagerStrand ==
    \/ Io /\ (StartReload \/ FinishReload) /\ KeepGateway /\ UNCHANGED <<loggerVars, fileVars>>
    \/ PublishLevel \/ PublishJson
\* The manager's own thread holds no work of the runtime: it may post to a context
\* that nobody runs any more, and, as the manager is never destroyed, to one that
\* has been.
ReloadWorker ==
    /\ Alive /\ main # "destroyed" /\ (LoadFile \/ PostLoaded)
    /\ KeepGateway /\ UNCHANGED <<loggerVars, fileVars>>
ReloadOutlivesRuntime ==
    /\ main = "destroyed"
    /\ \/ LoadFile /\ UNCHANGED main
       \/ PostLoaded /\ main' \in {"destroyed", "crashed"}
    /\ UNCHANGED <<mode, guard, threads, armed, raised, handled, term, session, checkers,
                   loggerVars, fileVars, contractVars>>

-----------------------------------------------------------------------------
(* AsioRuntime and main *)

Finished(s) == session[s] \in {"none", "closed", "ended"}
\* What keeps run() from returning.  A co_spawned coroutine counts until it ends;
\* a file job holds a work guard of its own.
Work ==
    \/ guard \/ armed
    \/ phase # "done" \/ checkers \in {"on", "stopping", "stuck"}
    \/ \E s \in Sessions : ~Finished(s)
    \/ In({"queued", "reading", "released", "replied", "busy"}) # {}
    \/ strand # <<>> \/ publishing # "no"

\* runWorker: a handler's exception ends one worker and releases the guard.
HandlerThrows ==
    /\ Io /\ threads > io_threads - MaxFaults[mode]
    /\ threads' = threads - 1
    /\ guard' = FALSE
    /\ UNCHANGED <<mode, armed, raised, handled, term, session, checkers, main, loggerVars,
                   managerVars, fileVars, contractVars>>

MainGoes(from, to) == /\ main = from /\ main' = to
                      /\ UNCHANGED <<mode, guard, threads, armed, raised, handled, term, session,
                                     checkers, managerVars, fileVars, contractVars>>
\* Faulty variant: the context is stopped rather than its guard released.
RunReturns_Stopped == ~guard /\ MainGoes("running", "joined") /\ UNCHANGED loggerVars
\* Every worker's run() returns; main joins them.
RunReturns == ~Work /\ MainGoes("running", "joined") /\ UNCHANGED loggerVars
\* ~HttpServer: the last owner of the router, its files and the observability;
\* with runFromConfig the signal handler owns itself, and with it the latter.
DestroyServer ==
    /\ mode = "cli" /\ MainGoes("joined", "destructor")
    /\ destructor' = "stop"
    /\ UNCHANGED <<queue, dropped, level, json, worker, entry, stop_requested, accepted, written>>
LeakObservability == mode = "config" /\ MainGoes("joined", "server gone") /\ UNCHANGED loggerVars
DestroyLogger ==
    /\ main = "destructor" /\ DestructorStep
    /\ KeepGateway /\ UNCHANGED <<managerVars, fileVars>>
DestroyFiles ==
    /\ destructor = "gone" /\ In({"queued", "reading", "released"}) = {}
    /\ MainGoes("destructor", "server gone") /\ UNCHANGED loggerVars
DestroyRuntime == MainGoes("server gone", "destroyed") /\ UNCHANGED loggerVars
\* main declares its checkers and proxies before the runtime, so they outlive it:
\* their strands, timers and pooled sockets return to services that the io_context
\* took with it.  runFromConfig declares them after its runtime.
OutliveRuntime == mode = "cli" /\ Proxied
DestroyProxies ==
    /\ OutliveRuntime /\ UNCHANGED loggerVars
    /\ MainGoes("destroyed", "proxies gone") \/ MainGoes("destroyed", "crashed")
Exit ==
    /\ MainGoes(IF OutliveRuntime THEN "proxies gone" ELSE "destroyed", "exited")
    /\ UNCHANGED loggerVars
MainStep == \/ RunReturns \/ DestroyServer \/ LeakObservability \/ DestroyLogger
            \/ DestroyFiles \/ DestroyRuntime \/ DestroyProxies \/ Exit

-----------------------------------------------------------------------------
Next ==
    \/ SendHup \/ SendTerm \/ \E content \in Configs \cup {NoConfig} : Edit(content)
    \/ HandleHup \/ HandleTerm \/ DrainCompleted \/ CheckersEnd
    \/ \E s \in Sessions :
          \/ Connect(s) \/ CloseSession(s) \/ ReadRequest(s)
          \/ CoroutineStep(s) \/ Hangs(s) \/ FileWorker(s)
    \/ LogWorker \/ LogWorkerWakes
    \/ ManagerStrand \/ ReloadWorker \/ ReloadOutlivesRuntime
    \/ HandlerThrows
    \/ MainStep

\* Threads and posted handlers run; DrainContract is kept.  Nothing is assumed of
\* clients, signals and edits, nor of a request whose session is open: once the
\* session is closed its reads and writes fail and its proxy is cancelled.  Nothing is
\* assumed either of a transaction or a probe that hangs where its cancellation had
\* no effect.  The log's mutex is not withheld for ever, however often its worker
\* wakes.
Fairness ==
    /\ WF_vars(HandleHup \/ HandleTerm \/ DrainCompleted \/ CheckersStop)
    /\ \A s \in Sessions : /\ WF_vars(phase = "draining" /\ CloseSession(s))
                           /\ WF_vars(s \notin live /\ CoroutineStep(s))
                           /\ SF_vars(s \notin live /\ LogRequest(s))
    /\ WF_vars(\E s \in Sessions : FileWorker(s))
    /\ WF_vars(LogWorker)
    /\ WF_vars(ManagerStrand \/ ReloadWorker)
    /\ WF_vars(MainStep)
Spec == Init /\ [][Next]_vars /\ Fairness

-----------------------------------------------------------------------------
(* Properties *)

\* Every variable holds a value of its type; the log's queue respects its capacity.
TypeOK ==
    /\ Len(queue) <= queue_capacity /\ dropped \in Nat
    /\ worker \in {"lock", "checked", "waiting", "write", "done"}
    /\ entry \in Sessions \cup {NoEntry}
    /\ destructor \in {"no", "stop", "notify", "join", "gone"}
    /\ file \in Configs \cup {NoConfig} /\ snapshot \in Configs
    /\ candidate \in Configs \cup {NoConfig}
    /\ reloader \in {"idle", "queued", "loaded"} /\ publishing \in {"no", "level", "json"}
    /\ pending \in 0 .. file_capacity /\ seen \in [Sessions -> 0 .. file_capacity]
    /\ live \subseteq Sessions /\ phase \in {"serving", "draining", "done"}
    /\ threads \in 1 .. io_threads /\ handled \in 0 .. raised
    /\ session \in [Sessions -> {"none", "open", "handling", "stuck", "file", "answered",
                                 "logging", "logged", "closed", "ended"}]
    /\ checkers \in {"none", "on", "stopping", "stuck", "off"}
    /\ main \in {"running", "joined", "destructor", "server gone", "destroyed", "proxies gone",
                 "exited", "crashed"}

\* Every answered request is logged or counted as dropped, entries are written in
\* the order they were taken and none twice, and the destructor leaves nothing
\* unwritten.  With runFromConfig there is no destructor: what is queued at exit
\* is lost.
AccessLogKept ==
    /\ accepted = written \o (IF worker = "write" THEN <<entry>> ELSE <<>>) \o queue
    /\ mode = "cli" =>
          /\ Len(accepted) + dropped = Cardinality({s \in Sessions : session[s] \in {"logged", "ended"}})
          /\ main \in {"server gone", "destroyed", "proxies gone", "exited"} => written = accepted

\* A reload that was accepted ends: when none is under way, another would be
\* accepted, the log uses the snapshot's settings, no static part has changed,
\* and a valid file that differs only in its logging and was not edited since the
\* last SIGHUP has been published, unless that SIGHUP met a reload under way.
ReloadHonoured ==
    /\ snapshot.static = initial.static
    /\ mode = "config" /\ main = "running" /\ ReloadQuiet =>
          /\ ~reload_in_progress
          /\ level = snapshot.logging.level /\ json = snapshot.logging.json
          /\ /\ handled = raised /\ report = "accepted" /\ ~edited
             /\ file # NoConfig /\ file.static = initial.static
             => snapshot = file

\* pending_ counts the reads that are queued or under way, and never exceeds its
\* limit however the compare-and-swap loops interleave.
FileSlotsExact ==
    pending = Cardinality(In({"queued", "reading"})) /\ pending <= file_capacity

\* main takes nothing down under a running coroutine, file job or health checker,
\* even when a worker thread has died of an exception, and even if that meant
\* waiting for a probe that hangs.  A destroyed runtime is touched in two ways only:
\* by the destructors of main's proxies and checkers, which it does not outlive when
\* the upstreams are given by options, and by a reload, whose thread nobody joins.
StopsClean ==
    /\ main # "running" =>
          /\ phase = "done" /\ live = {} /\ checkers \in {"none", "off"}
          /\ \A s \in Sessions : Finished(s) /\ reads[s] \in {"none", "done"}
    /\ main = "crashed" => OutliveRuntime \/ raised > 0

ProxyStuck == checkers = "stuck" \/ \E s \in Sessions : session[s] = "stuck"
\* A drain ends the process, although clients may hang, with three exceptions:
\* ~AsyncLogger may notify its worker just before that goes to sleep, and a proxy
\* transaction or a health probe that its cancellation missed may hang for ever and
\* with it run().
ExitsUnlessHung == (phase = "draining" ~> ~Alive \/ LostWakeup) \/ <>[]ProxyStuck
=============================================================================
