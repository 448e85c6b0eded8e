---------------------------- MODULE UpstreamPool ----------------------------
(***************************************************************************)
(* The pool of upstream connections of one endpoint                        *)
(* (src/http/upstream_pool.cpp, include/pulsegate/http/upstream_pool.h).   *)
(*                                                                         *)
(* A request is one call of asyncAcquire() and the lease it may obtain.    *)
(* Every method of the pool posts a handler to the pool strand, so a call  *)
(* and its effect are two steps; handlers run one at a time.  A posted     *)
(* handler that owns a lease is a member of `posted'; the order of the     *)
(* posts is left open, because callers post from unrelated executors.      *)
(*                                                                         *)
(* The clock is abstracted to the two comparisons reusable() makes: a      *)
(* connection's lifetime has elapsed, and its idle timeout has elapsed.    *)
(* The vector idle_ is the set `idle' ordered by last_used_at: an entry is *)
(* pushed at the back at the moment its last_used_at is set.               *)
(***************************************************************************)
EXTENDS Naturals, Sequences, FiniteSets

CONSTANTS
    Requests,         \* calls of asyncAcquire
    max_connections, max_idle_connections, max_reuses, max_waiters,
    MaxId             \* bound: connections ever created (next_id_ is 64 bit)

Id == 1 .. MaxId
NoLease == 0          \* connectionId() of an invalid lease

ASSUME PoolLimits ==
    /\ max_connections \in Nat \ {0}
    /\ max_idle_connections \in 1 .. max_connections
    /\ max_reuses \in Nat \ {0}
    /\ max_waiters \in Nat
    /\ MaxId \in Nat
\* Identifiers do not run out: a request is granted at most one connection.
ASSUME IdsSuffice == IsFiniteSet(Requests) /\ Cardinality(Requests) <= MaxId

VARIABLES
    policy,             \* UpstreamPoolPolicy: idle_, busy_, next_id_, records
    waiters,            \* waiters_, oldest first
    done,               \* Waiter::done of the request's waiter
    timer,              \* the waiter's acquire_timeout timer
    stopping,           \* stopping_
    cleanup_scheduled,  \* cleanup_scheduled_
    cleanup_timer,      \* cleanup_timer_
    posted,             \* handlers posted with a lease: release or discard
    pc,                 \* where each request is
    lease,              \* the connection a request owns, or NoLease
    error,              \* the error code its acquire completed with
    replies,            \* how often its completion handler was posted
    stop_call           \* the owner's call of stop()

vars == <<policy, waiters, done, timer, stopping, cleanup_scheduled, cleanup_timer,
          posted, pc, lease, error, replies, stop_call>>
waiterVars  == <<waiters, done, timer, pc, lease, error, replies>>
cleanupVars == <<cleanup_scheduled, cleanup_timer>>

-----------------------------------------------------------------------------
(* UpstreamPoolPolicy: functions from policy to policy. *)

\* UpstreamConnectionRecord; the time points are kept as order and expiry.
Record == [reuse_count : Nat, open : BOOLEAN, last_used_at : Nat,
           lifetime_over : BOOLEAN, idle_over : BOOLEAN]
NewRecord(now) == [reuse_count |-> 0, open |-> TRUE, last_used_at |-> now,
                   lifetime_over |-> FALSE, idle_over |-> FALSE]

Policy == [idle : SUBSET Id, busy : Nat, next_id : Nat, clock : Nat,
           rec : [Id -> Record]]

\* Faulty variant: the reuse limit is off by one.
reusable_OneMore(r) == r.open /\ r.reuse_count <= max_reuses /\ ~r.lifetime_over /\ ~r.idle_over
reusable(r) == /\ r.open
               /\ r.reuse_count < max_reuses
               /\ ~r.lifetime_over
               /\ ~r.idle_over

\* The entry that the loop over idle_ stops at: the last reusable one.
IsNewestReusable(p, c) ==
    /\ c \in p.idle
    /\ reusable(p.rec[c])
    /\ \A d \in p.idle : reusable(p.rec[d]) =>
                            p.rec[d].last_used_at <= p.rec[c].last_used_at
CanReuse(p) == \E c \in p.idle : reusable(p.rec[c])
\* Faulty variant: idle and busy connections are compared with <= .
CanCreate_OneMore(p) == p.busy <= max_connections /\ p.next_id \in Id
CanCreate(p) == p.busy < max_connections /\ p.next_id \in Id

\* Faulty variant: the entry is leased without being popped.
TakeIdle_NotPopped(p, c) ==
    [p EXCEPT !.idle = {d \in p.idle : p.rec[d].last_used_at <= p.rec[c].last_used_at},
              !.busy = @ + 1]
\* acquire() pops every entry behind the one it takes; all of them if none fits.
\* It also sets last_used_at to now, which only matters again once c is released.
OlderIdle(p, c) == {d \in p.idle : p.rec[d].last_used_at < p.rec[c].last_used_at}
TakeIdle(p, c) ==
    [idle |-> OlderIdle(p, c), busy |-> p.busy + 1, next_id |-> p.next_id, clock |-> p.clock,
     rec |-> p.rec]
CreateConnection(p) ==
    [idle |-> {}, busy |-> p.busy + 1, next_id |-> p.next_id + 1, clock |-> p.clock,
     rec |-> [p.rec EXCEPT ![p.next_id] = NewRecord(p.clock)]]
AcquireNothing(p) == [p EXCEPT !.idle = {}]

\* acquire() turns policy p into q and returns the lease on c (or none).
acquire(p, q, c) ==
    \/ IsNewestReusable(p, c) /\ q = TakeIdle(p, c)
    \/ ~CanReuse(p) /\ CanCreate(p) /\ c = p.next_id /\ q = CreateConnection(p)
    \/ ~CanReuse(p) /\ ~CanCreate(p) /\ c = NoLease /\ q = AcquireNothing(p)

\* The record is used once more before reusable() decides whether it is kept.
Used(p, c) ==
    [reuse_count |-> p.rec[c].reuse_count + 1, open |-> p.rec[c].open,
     last_used_at |-> p.clock + 1, lifetime_over |-> p.rec[c].lifetime_over, idle_over |-> FALSE]
Keeps(p, c) == reusable(Used(p, c)) /\ Cardinality(p.idle) < max_idle_connections
releaseReusable(p, c) ==
    [idle |-> IF Keeps(p, c) THEN p.idle \cup {c} ELSE p.idle,
     busy |-> p.busy - 1, next_id |-> p.next_id, clock |-> p.clock + 1,
     rec |-> [p.rec EXCEPT ![c] = Used(p, c)]]

\* Faulty variant: the lease's destructor discards a second time.
discard_Twice(p, c) == [p EXCEPT !.busy = @ - 2, !.rec[c].open = FALSE]
discard(p, c) ==
    [idle |-> p.idle, busy |-> p.busy - 1, next_id |-> p.next_id, clock |-> p.clock,
     rec |-> [p.rec EXCEPT ![c] = [@ EXCEPT !.open = FALSE]]]

\* Faulty variant: only the idle timeout is looked at.
pruneIdle_IgnoresLifetime(p) == [p EXCEPT !.idle = {c \in @ : ~p.rec[c].idle_over}]
ReusableIdle(p) == {c \in p.idle : reusable(p.rec[c])}
pruneIdle(p) == [p EXCEPT !.idle = ReusableIdle(p)]

-----------------------------------------------------------------------------
(* Completing an acquire.  The reply is posted to the caller's executor and *)
(* carries the error and the lease.                                        *)

Reply(r, e, c) ==
    /\ pc' = [pc EXCEPT ![r] = "replied"]
    /\ error' = [error EXCEPT ![r] = e]
    /\ lease' = [lease EXCEPT ![r] = c]
    /\ replies' = [replies EXCEPT ![r] = @ + 1]

\* std::erase: the queue without r.
Erase(s, r) ==
    IF \E i \in DOMAIN s : s[i] = r
    THEN LET at == CHOOSE i \in DOMAIN s : s[i] = r
         IN  [i \in 1 .. Len(s) - 1 |-> IF i < at THEN s[i] ELSE s[i + 1]]
    ELSE s

\* Cancelling a timer whose handler is already queued does not recall it.
Cancelled(t) == IF t = "armed" THEN "off" ELSE t

\* Faulty variant: the done flag is not looked at.
completeWaiter_Again(w, e, c, tm) ==
    /\ done' = [done EXCEPT ![w] = TRUE]
    /\ timer' = [tm EXCEPT ![w] = Cancelled(@)]
    /\ waiters' = Erase(waiters, w)
    /\ Reply(w, e, c)
\* The timers are tm when the handler makes the call.
completeWaiter(w, e, c, tm) ==
    IF done[w] THEN timer' = tm /\ UNCHANGED <<waiters, done, pc, lease, error, replies>>
    ELSE /\ done' = [done EXCEPT ![w] = TRUE]
         /\ timer' = [tm EXCEPT ![w] = Cancelled(@)]
         /\ waiters' = Erase(waiters, w)
         /\ Reply(w, e, c)

\* Faulty variants: the release does not look at the queue; it serves the newest.
satisfyOneWaiter_Nobody(p) == policy' = p /\ UNCHANGED waiterVars
satisfyOneWaiter_Newest(p) ==
    IF waiters = <<>>
    THEN policy' = p /\ UNCHANGED waiterVars
    ELSE \E c \in Id \cup {NoLease} :
            /\ acquire(p, policy', c)
            /\ IF c = NoLease THEN UNCHANGED waiterVars
               ELSE completeWaiter(waiters[Len(waiters)], "none", c, timer)
\* Policy p is the policy the handler has reached before the trailing call.
satisfyOneWaiter(p) ==
    IF waiters = <<>>
    THEN policy' = p /\ UNCHANGED waiterVars
    ELSE \E c \in Id \cup {NoLease} :
            /\ acquire(p, policy', c)
            /\ IF c = NoLease THEN UNCHANGED waiterVars
               ELSE completeWaiter(Head(waiters), "none", c, timer)

-----------------------------------------------------------------------------
Init ==
    /\ policy = [idle |-> {}, busy |-> 0, next_id |-> 1, clock |-> 0,
                 rec |-> [c \in Id |-> NewRecord(0)]]
    /\ waiters = <<>>
    /\ done = [r \in Requests |-> FALSE]
    /\ timer = [r \in Requests |-> "off"]
    /\ stopping = FALSE
    /\ cleanup_scheduled = FALSE
    /\ cleanup_timer = "off"
    /\ posted = {}
    /\ pc = [r \in Requests |-> "new"]
    /\ lease = [r \in Requests |-> NoLease]
    /\ error = [r \in Requests |-> "none"]
    /\ replies = [r \in Requests |-> 0]
    /\ stop_call = "none"

\* asyncAcquire(): the call only posts.
AsyncAcquire(r) ==
    /\ pc[r] = "new"
    /\ pc' = [pc EXCEPT ![r] = "posted"]
    /\ UNCHANGED <<policy, waiters, done, timer, stopping, cleanupVars, posted, lease,
                   error, replies, stop_call>>

scheduleCleanup(scheduled, tm) ==
    IF stopping \/ scheduled
    THEN cleanup_scheduled' = scheduled /\ cleanup_timer' = tm
    ELSE cleanup_scheduled' = TRUE /\ cleanup_timer' = "armed"

\* The handler of asyncAcquire, one disjunct per outcome.
AcquireAborted(r) ==
    /\ stopping
    /\ Reply(r, "operation_aborted", NoLease)
    /\ UNCHANGED <<policy, waiters, done, timer>>
\* Faulty variant: a stopped pool still grants.
AcquireGranted_Stopped(r, c) ==
    /\ acquire(policy, policy', c)
    /\ Reply(r, "none", c)
    /\ UNCHANGED <<waiters, done, timer>>
AcquireGranted(r, c) ==
    /\ ~stopping
    /\ c # NoLease
    /\ acquire(policy, policy', c)
    /\ Reply(r, "none", c)
    /\ UNCHANGED <<waiters, done, timer>>
AcquireRejected(r) ==
    /\ ~stopping
    /\ acquire(policy, policy', NoLease)
    /\ Len(waiters) >= max_waiters
    /\ Reply(r, "no_buffer_space", NoLease)
    /\ UNCHANGED <<waiters, done, timer>>
\* Faulty variant: the waiter's timer is not started.
AcquireQueued_NoTimer(r) ==
    /\ ~stopping
    /\ acquire(policy, policy', NoLease)
    /\ Len(waiters) < max_waiters
    /\ pc' = [pc EXCEPT ![r] = "waiting"]
    /\ waiters' = Append(waiters, r)
    /\ UNCHANGED <<timer, done, lease, error, replies>>
AcquireQueued(r) ==
    /\ ~stopping
    /\ acquire(policy, policy', NoLease)
    /\ Len(waiters) < max_waiters
    /\ pc' = [pc EXCEPT ![r] = "waiting"]
    /\ waiters' = Append(waiters, r)
    /\ timer' = [timer EXCEPT ![r] = "armed"]
    /\ UNCHANGED <<done, lease, error, replies>>
AcquireHandler(r) ==
    /\ pc[r] = "posted"
    /\ scheduleCleanup(cleanup_scheduled, cleanup_timer)
    /\ \/ AcquireAborted(r)
       \/ \E c \in Id : AcquireGranted(r, c)
       \/ AcquireRejected(r)
       \/ AcquireQueued(r)
    /\ UNCHANGED <<stopping, posted, stop_call>>

\* The completion handler runs on the caller's executor.
Resume(r) ==
    /\ pc[r] = "replied"
    /\ pc' = [pc EXCEPT ![r] = IF lease[r] = NoLease THEN "done" ELSE "holding"]
    /\ UNCHANGED <<policy, waiters, done, timer, stopping, cleanupVars, posted, lease,
                   error, replies, stop_call>>

\* releaseReusable(), discard(), or the lease's destructor (abandon): each moves
\* the lease into a handler posted to the strand.
ReturnLease(r, op) ==
    /\ pc[r] = "holding"
    /\ posted' = posted \cup {[op |-> op, conn |-> lease[r]]}
    /\ lease' = [lease EXCEPT ![r] = NoLease]
    /\ pc' = [pc EXCEPT ![r] = "done"]
    /\ UNCHANGED <<policy, waiters, done, timer, stopping, cleanupVars, error, replies,
                   stop_call>>

ReleaseHandler(m) ==
    /\ m \in posted /\ m.op = "release"
    /\ posted' = posted \ {m}
    /\ satisfyOneWaiter(releaseReusable(policy, m.conn))
    /\ UNCHANGED <<stopping, cleanupVars, stop_call>>

\* discard() and discardAbandoned(): neither looks at the waiters.
DiscardHandler(m) ==
    /\ m \in posted /\ m.op \in {"discard", "abandon"}
    /\ posted' = posted \ {m}
    /\ policy' = discard(policy, m.conn)
    /\ UNCHANGED <<waiterVars, stopping, cleanupVars, stop_call>>

\* The acquire_timeout passes and the timer's handler is queued; then it runs.
WaiterTimerExpires(r) ==
    /\ timer[r] = "armed"
    /\ timer' = [timer EXCEPT ![r] = "fired"]
    /\ UNCHANGED <<policy, waiters, done, stopping, cleanupVars, posted, pc, lease, error,
                   replies, stop_call>>
WaiterTimerHandler(r) ==
    /\ timer[r] = "fired"
    /\ completeWaiter(r, "timed_out", NoLease, [timer EXCEPT ![r] = "off"])
    /\ UNCHANGED <<policy, stopping, cleanupVars, posted, stop_call>>

CleanupTimerExpires ==
    /\ cleanup_timer = "armed"
    /\ cleanup_timer' = "fired"
    /\ UNCHANGED <<policy, waiterVars, stopping, cleanup_scheduled, posted, stop_call>>
\* Faulty variant: the flag is not reset before rescheduling.
CleanupHandler_FlagKept ==
    /\ cleanup_timer = "fired"
    /\ policy' = pruneIdle(policy)
    /\ scheduleCleanup(cleanup_scheduled, "off")
    /\ UNCHANGED <<waiterVars, stopping, posted, stop_call>>
CleanupHandler ==
    /\ cleanup_timer = "fired"
    /\ policy' = pruneIdle(policy)
    /\ scheduleCleanup(FALSE, "off")
    /\ UNCHANGED <<waiterVars, stopping, posted, stop_call>>

Stop ==
    /\ stop_call = "none"
    /\ stop_call' = "posted"
    /\ UNCHANGED <<policy, waiterVars, stopping, cleanupVars, posted>>
\* The loop completes the front waiter until none is left.
StopHandler ==
    /\ stop_call = "posted"
    /\ stop_call' = "handled"
    /\ stopping' = TRUE
    /\ cleanup_timer' = Cancelled(cleanup_timer)
    /\ LET aborted == {r \in Requests : \E i \in DOMAIN waiters : waiters[i] = r} IN
       /\ waiters' = <<>>
       /\ done' = [r \in Requests |-> r \in aborted \/ done[r]]
       /\ timer' = [r \in Requests |-> IF r \in aborted THEN Cancelled(timer[r]) ELSE timer[r]]
       /\ pc' = [r \in Requests |-> IF r \in aborted THEN "replied" ELSE pc[r]]
       /\ error' = [r \in Requests |-> IF r \in aborted THEN "operation_aborted" ELSE error[r]]
       /\ replies' = [r \in Requests |-> IF r \in aborted THEN replies[r] + 1 ELSE replies[r]]
    /\ UNCHANGED <<policy, lease, cleanup_scheduled, posted>>

\* Time passes.  Connections age in the order of creation, idle entries in the
\* order of their last use.
LifetimeElapses(c) ==
    /\ c < policy.next_id
    /\ ~policy.rec[c].lifetime_over
    /\ \A d \in Id : d < c => policy.rec[d].lifetime_over
    /\ policy' = [policy EXCEPT !.rec[c] = [@ EXCEPT !.lifetime_over = TRUE]]
    /\ UNCHANGED <<waiterVars, stopping, cleanupVars, posted, stop_call>>
IdleTimeoutElapses(c) ==
    /\ c \in policy.idle
    /\ ~policy.rec[c].idle_over
    /\ \A d \in policy.idle :
          policy.rec[d].last_used_at < policy.rec[c].last_used_at => policy.rec[d].idle_over
    /\ policy' = [policy EXCEPT !.rec[c] = [@ EXCEPT !.idle_over = TRUE]]
    /\ UNCHANGED <<waiterVars, stopping, cleanupVars, posted, stop_call>>

PoolStep ==
    \/ \E r \in Requests : AcquireHandler(r) \/ WaiterTimerExpires(r) \/ WaiterTimerHandler(r)
    \/ \E m \in posted : ReleaseHandler(m) \/ DiscardHandler(m)
    \/ CleanupTimerExpires
    \/ CleanupHandler
    \/ StopHandler
CallerStep ==
    \/ \E r \in Requests :
          \/ AsyncAcquire(r)
          \/ Resume(r)
          \/ \E op \in {"release", "discard", "abandon"} : ReturnLease(r, op)
    \/ Stop
ClockStep == \E c \in Id : LifetimeElapses(c) \/ IdleTimeoutElapses(c)

Next == PoolStep \/ CallerStep \/ ClockStep

Spec == Init /\ [][Next]_vars

\* The strand runs what is posted to it and timers expire.  No fairness is
\* assumed of the callers: a lease may be held for ever.
Message == [op : {"release", "discard", "abandon"}, conn : Id]
Fairness ==
    /\ \A r \in Requests : /\ WF_vars(AcquireHandler(r))
                           /\ WF_vars(WaiterTimerExpires(r))
                           /\ WF_vars(WaiterTimerHandler(r))
    /\ \A m \in Message : WF_vars(ReleaseHandler(m)) /\ WF_vars(DiscardHandler(m))
    /\ WF_vars(CleanupTimerExpires) /\ WF_vars(CleanupHandler)
    /\ WF_vars(StopHandler)
FairSpec == Spec /\ Fairness

-----------------------------------------------------------------------------
(* Properties *)

\* Every variable holds a value of its type; in particular busy_, a size_t that
\* is decremented without a check, never wraps below zero.
TypeOK ==
    /\ policy \in Policy
    /\ waiters \in Seq(Requests)
    /\ done \in [Requests -> BOOLEAN]
    /\ timer \in [Requests -> {"off", "armed", "fired"}]
    /\ stopping \in BOOLEAN
    /\ cleanup_scheduled \in BOOLEAN
    /\ cleanup_timer \in {"off", "armed", "fired"}
    /\ posted \subseteq Message
    /\ pc \in [Requests -> {"new", "posted", "waiting", "replied", "holding", "done"}]
    /\ lease \in [Requests -> Id \cup {NoLease}]
    /\ error \in [Requests -> {"none", "operation_aborted", "no_buffer_space", "timed_out"}]
    /\ replies \in [Requests -> Nat]
    /\ stop_call \in {"none", "posted", "handled"}

\* The connections out on lease: owned by a request or by a posted handler.
Held == {c \in Id : \E r \in Requests : lease[r] = c}
InReturn == {m.conn : m \in posted}
Leased == Held \cup InReturn

\* busy_ is the number of connections out on lease, and together with the idle
\* ones they never exceed max_connections; idle_ never exceeds its own limit.
CapacityRespected ==
    /\ policy.busy = Cardinality(Leased)
    /\ policy.busy + Cardinality(policy.idle) <= max_connections
    /\ Cardinality(policy.idle) <= max_idle_connections
    /\ Len(waiters) <= max_waiters

\* A connection belongs to at most one transaction: no two requests hold it,
\* none holds one that is being returned, and none of these is idle.
LeaseExclusive ==
    /\ \A r, s \in Requests : lease[r] = lease[s] /\ lease[r] # NoLease => r = s
    /\ \A m, n \in posted : m.conn = n.conn => m = n
    /\ Held \cap InReturn = {}
    /\ Leased \cap policy.idle = {}

\* A connection that is idle or leased was never discarded and has been used
\* fewer than max_reuses times.
OnlyReusableInUse ==
    \A c \in Leased \cup policy.idle : /\ policy.rec[c].open
                                       /\ policy.rec[c].reuse_count < max_reuses

\* The completion handler of a request is posted at most once, whichever of
\* release, timeout and stop come together, and exactly once when it has left
\* the queue; the queue holds the requests that wait, each once.
CompletedOnce ==
    /\ \A r \in Requests : replies[r] = IF pc[r] \in {"new", "posted", "waiting"} THEN 0 ELSE 1
    /\ \A r \in Requests : pc[r] = "waiting" <=> \E i \in DOMAIN waiters : waiters[i] = r
    /\ \A i, j \in DOMAIN waiters : waiters[i] = waiters[j] => i = j

\* No request waits while a connection is idle, and none waits after stop().
NoWaiterBesideIdle ==
    waiters # <<>> => policy.idle = {} /\ ~stopping

\* While the pool runs, an idle connection has a cleanup timer pending.
CleanupPending ==
    policy.idle # {} /\ ~stopping => cleanup_scheduled /\ cleanup_timer # "off"

\* A release while requests wait serves the oldest one in the same step, and a
\* queued request obtains a lease only as the oldest.
OldestFirst ==
    /\ \A m \in posted :
          m.op = "release" /\ m \notin posted' /\ waiters # <<>>
          => waiters' = Tail(waiters) /\ lease'[Head(waiters)] # NoLease
    /\ \A r \in Requests :
          pc[r] = "waiting" /\ lease'[r] # NoLease => r = Head(waiters)
HandsOverInOrder == [][OldestFirst]_vars

\* Every acquire is answered, even if no lease is ever returned.
EveryAcquireCompletes ==
    \A r \in Requests : pc[r] = "posted" ~> replies[r] = 1

\* A connection whose lifetime is over does not stay idle while the pool runs.
ExpiredIdleIsPruned ==
    \A c \in Id : (c \in policy.idle /\ policy.rec[c].lifetime_over)
                     ~> (c \notin policy.idle \/ stopping)

-----------------------------------------------------------------------------
(* What the pool promises its callers, and that it keeps the promise. *)

Status(r) == IF pc[r] = "new" THEN "idle"
             ELSE IF pc[r] \in {"posted", "waiting"} THEN "pending"
             ELSE IF error[r] = "none" THEN "granted" ELSE "refused"

Broker == INSTANCE LeaseBroker
             WITH Capacity <- max_connections, Connections <- Id,
                  status <- [r \in Requests |-> Status(r)],
                  leased <- Leased, closed <- stopping

\* The pool implements LeaseBroker: bounded exclusive leases, each request
\* answered once, and nothing granted once the pool has stopped.
ImplementsBroker == Broker!Spec
=============================================================================
