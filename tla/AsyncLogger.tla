---------------------------- MODULE AsyncLogger -----------------------------
(***************************************************************************)
(* The asynchronous access log (src/http/observability.cpp): a bounded     *)
(* queue under a mutex, a worker thread that waits on a condition variable *)
(* and writes outside the mutex, and the destructor, which requests the    *)
(* stop and notifies without the mutex.                                    *)
(*                                                                         *)
(* std::condition_variable::wait evaluates the predicate with the mutex    *)
(* held, and then releases it and sleeps in one step: between the two the  *)
(* mutex keeps logAccess out, but not the destructor.                      *)
(***************************************************************************)
EXTENDS Integers, Sequences

CONSTANT queue_capacity
ASSUME LoggerConfig == queue_capacity \in Nat \ {0}

VARIABLES
    queue, dropped,          \* queue_ and dropped_
    level, json,             \* two relaxed atomics, stored one after the other
    worker,                  \* run(): "lock", "checked" (mutex held), "waiting", "write", "done"
    entry,                   \* the entry run() has taken
    stop_requested,          \* the jthread's stop token
    destructor,              \* "no", "stop", "notify", "join", "gone"
    accepted, written        \* history: the entries logAccess took, the ones the sink has seen

loggerVars == <<queue, dropped, level, json, worker, entry, stop_requested, destructor, accepted,
                written>>

NoEntry == "no entry"

LoggerInit(logging) ==
    /\ queue = <<>> /\ dropped = 0
    /\ level = logging.level /\ json = logging.json
    /\ worker = "lock" /\ entry = NoEntry /\ stop_requested = FALSE /\ destructor = "no"
    /\ accepted = <<>> /\ written = <<>>

MutexFree == worker # "checked"
Woken == IF worker = "waiting" THEN "lock" ELSE worker

\* Faulty variant: the queue has no limit.
QueueFull_Never == FALSE
QueueFull == Len(queue) >= queue_capacity
\* logAccess: the level is loaded first and the mutex taken afterwards; a drop when
\* the queue is full, else an append and notify_one with the mutex held.
LogsAccess == level = "info"
logAccess(e) ==
    /\ MutexFree
    /\ IF QueueFull
       THEN dropped' = dropped + 1 /\ UNCHANGED <<queue, worker, accepted>>
       ELSE /\ queue' = Append(queue, e)
            /\ worker' = Woken
            /\ accepted' = Append(accepted, e)
            /\ UNCHANGED dropped
    /\ UNCHANGED <<level, json, entry, stop_requested, destructor, written>>

\* setLogging is two stores; a reader in between sees one of each.
SetLevel(to) ==
    /\ level' = to
    /\ UNCHANGED <<queue, dropped, json, worker, entry, stop_requested, destructor, accepted, written>>
SetJson(to) ==
    /\ json' = to
    /\ UNCHANGED <<queue, dropped, level, worker, entry, stop_requested, destructor, accepted, written>>

-----------------------------------------------------------------------------
(* The worker thread *)

\* Faulty variant: a stop ends the worker whatever is queued.
LeaveRun_AtOnce == stop_requested
\* run() returns only when it finds the queue empty.
LeaveRun == stop_requested /\ queue = <<>>
\* Lock, evaluate the predicate; take an entry, leave run(), or go to sleep.
CheckPredicate ==
    /\ worker = "lock"
    /\ \/ LeaveRun /\ worker' = "done" /\ UNCHANGED <<queue, entry>>
       \/ /\ ~LeaveRun /\ queue # <<>>
          /\ worker' = "write" /\ entry' = Head(queue) /\ queue' = Tail(queue)
       \/ ~LeaveRun /\ queue = <<>> /\ worker' = "checked" /\ UNCHANGED <<queue, entry>>
    /\ UNCHANGED <<dropped, level, json, stop_requested, destructor, accepted, written>>
Sleep ==
    /\ worker = "checked"
    /\ worker' = "waiting"
    /\ UNCHANGED <<queue, dropped, level, json, entry, stop_requested, destructor, accepted, written>>
\* A condition variable may wake without a notification, but need not.
SpuriousWakeup ==
    /\ worker = "waiting"
    /\ worker' = "lock"
    /\ UNCHANGED <<queue, dropped, level, json, entry, stop_requested, destructor, accepted, written>>
\* The sink, outside the mutex.
WriteEntry ==
    /\ worker = "write"
    /\ written' = Append(written, entry)
    /\ entry' = NoEntry
    /\ worker' = "lock"
    /\ UNCHANGED <<queue, dropped, level, json, stop_requested, destructor, accepted>>
WorkerStep == CheckPredicate \/ Sleep \/ WriteEntry

-----------------------------------------------------------------------------
(* ~AsyncLogger *)

RequestStop ==
    /\ destructor = "stop"
    /\ stop_requested' = TRUE
    /\ destructor' = "notify"
    /\ UNCHANGED <<queue, dropped, level, json, worker, entry, accepted, written>>
\* notify_all reaches a worker that sleeps, not one that is about to.
NotifyAll ==
    /\ destructor = "notify"
    /\ worker' = Woken
    /\ destructor' = "join"
    /\ UNCHANGED <<queue, dropped, level, json, entry, stop_requested, accepted, written>>
\* The jthread joins.
JoinWorker ==
    /\ destructor = "join" /\ worker = "done"
    /\ destructor' = "gone"
    /\ UNCHANGED <<queue, dropped, level, json, worker, entry, stop_requested, accepted, written>>
DestructorStep == RequestStop \/ NotifyAll \/ JoinWorker

\* The worker slept after the only notification: nothing will wake it.
LostWakeup == destructor = "join" /\ worker \in {"checked", "waiting"}
=============================================================================
