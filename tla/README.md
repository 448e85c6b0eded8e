# PulseGate in TLA+

PulseGate is a multi-threaded HTTP/1.1 gateway in C++23 on Boost.Asio: a
listener, sessions, a router with rate limits and a response cache, and a reverse
proxy with pooled upstream connections, health checks and circuit breakers.
These modules model its concurrent core, its parsers and the life of the process
from start to exit. TLC checks them on small instances. TLAPS proves most of their
safety properties, and the implementation of the pool's contract, for every size.

Paths below are relative to the repository (`src/http/...`, `include/...`).

## 1. Inventory

Everything runs on one `io_context` with several worker threads (`AsioRuntime`).
State is protected in one of three ways, and the modules follow them:

- a *strand* (session, listener, pool, upstream connection): its handlers run one
  at a time, and a call from elsewhere is a posted handler, so call and effect
  are two steps;
- a *mutex* (session registry, circuit breaker, limiter and cache shards): one
  critical section is one step;
- *atomics* (`in_flight`, `next`, `key_count_`, drain flags, health snapshot): one
  access is one step, and a compare-and-swap loop is a load and attempts.

| Component | State | Operations | Hard behaviour | What makes it correct |
|---|---|---|---|---|
| Upstream pool (`upstream_pool.cpp`) | idle and busy connections, waiters, timers | asyncAcquire, release, discard, abandon, cleanup, stop | releases, timeouts and stop meet at one waiter | limits exact, leases exclusive, every acquire answered once |
| Upstream transaction (`reverse_proxy.cpp`, `ProxySession`; `deadline.cpp`) | phase, stop reason, deadlines, lease, response started | execute, forward, cancel, expiry | two strands; a deadline meets a completion | no byte or close of one transaction reaches another; every operation ends |
| Proxy admission (`ReverseProxy::operator()`) | `in_flight`, `next`, breakers, health | admit, select, acquire, transact, record | threads share atomics; exits by return and by exception | counters exact; a probe is always given back |
| Circuit breaker, health store | state, failures, probes; thresholds | allowRequest, record... | late outcomes | see above |
| Health checker (`health_checker.cpp`) | rotation, active probes, cancellations; a transport per probe | start, round, probe, publish, stop | completion, timer and stop meet at one probe | only timely answers count, every endpoint is probed, probes bounded |
| Server (`http_server.cpp`, `listener.cpp`) | registry, session states, drain flags | accept, run, read, respond, beginDrain, grace, checkDrain, stop | drain against accept, two polling chains, hung clients | one completion, nothing admitted after it, drain ends |
| Router (`router.cpp`) | route, limiter and cache tables | handle, add | the handler runs between lookup and store | only answers for everybody are shared |
| Rate limiter (`rate_limiter.cpp`) | buckets per shard, `key_count_` | check, prune | shards lock separately; clock read before the lock | key limit and rate |
| Response cache (`response_cache.cpp`) | LRU list, index, bytes | get, put, evict | unsigned budget | index, list and bytes agree |
| Parsers and buffer (`http_parser.cpp`, `http_response_parser.cpp`, `buffer.cpp`) | parser state, counted header bytes, storage and indices | parse, finishOnEof, reset; prepare, commit, consume | bytes arrive in any pieces, several messages at once; limits met exactly | the result depends on the messages and not on the pieces; there is room for the next read |
| Static files (`file_service.cpp`, `static_file_handler.cpp`) | `pending_`, pool threads | read, worker, reply | compare-and-swap slots; replies at shutdown | slots exact |
| Log (`observability.cpp`) | queue, worker, levels, stop token | logAccess, run, setLogging, destructor | wake-up at shutdown, full queue | nothing lost but what is counted, join ends |
| Configuration (`config.cpp`) | snapshot, reload flag, reload thread | load, requestReload, publish | reload against reload, against edits and against exit | one at a time, only logging changes, the last accepted request counts |
| Runtime and program (`asio_runtime.cpp`, `pulsegate_main.cpp`) | work guard, workers, signal set, order of destruction | start, signals, requestStop, join, destructors | a worker dies of an exception; work outlives its owner | nothing is taken down under something running; a drain ends the process |

Interaction: the listener's factory creates an `HttpSession` and registers it.
The session's coroutine calls `Router::handle`, which calls the proxy. The proxy
asks the pool for a lease and runs a `ProxySession` on the leased connection,
which writes downstream through the session's callback. Closing the session
cancels its current `ProxySession`. The health checker publishes into the health
store that selection reads. `main` drains the server on SIGTERM; the drain's
callback stops checkers and proxies and releases the runtime, `join` returns when
no work is left, and the destructors run in reverse order of construction.

`PROJECT.json` lists each component with its status, and every hazard at its
line.

## 2. Modules

| Module | Models | Uses |
|---|---|---|
| `UpstreamPool` | `UpstreamPoolPolicy` as functions on a record `policy`; `UpstreamPool` as handlers on the strand, with waiters, timers and posted leases | |
| `LeaseBroker` | abstract: what a pool promises (bounded exclusive leases, one answer each, none granted once closed) | refined by `UpstreamPool` (`ImplementsBroker`) |
| `X_proofs` | the inductive invariant of `X` and its theorems (section 4), for `UpstreamPool`, `ReverseProxy`, `ProxyTransaction`, `HealthChecker`, `HttpServer`, `Router`, `Parsing`, `Gateway` | `X` |
| `CircuitBreaker`, `HealthStateStore` | methods as functions of one breaker, one endpoint | |
| `ReverseProxy` | `operator()`: one step per access to shared state | the two above |
| `ProxyUnwinding` | adds the exit by exception | `ReverseProxy` |
| `ProxyTransaction` | `ProxySession` with deadlines, cancel, close and return of the lease | |
| `HealthChecker` | rounds of `run()`, probe coroutines with transport and timer, publication, `stop()` | `HealthStateStore` |
| `HttpServer` | listener, registry, session lifecycle, `beginDrain`, `checkDrain`, `stop` | |
| `DrainContract` | abstract: sessions come and go, a drain admits none and ends once, when the last has left | refined by `HttpServer` (`KeepsDrainContract`), used by `Gateway` |
| `RateLimiter`, `ResponseCache` | buckets and one cache shard as functions | |
| `Router` | `handle` for concurrent requests to one limited and cached route | the two above |
| `Buffer` | the byte buffer as functions on a record; what throws is a guard | |
| `Reader` | the loop around a parser: parse, prepare, read, commit | `Buffer` |
| `HttpParser`, `HttpResponseParser` | one action per turn of the loop in `parse()` | `Reader` |
| `Parsing` | a session reading requests, or a proxy reading a response; the reference the results are compared with | the two above |
| `ParsingInvariant` | the inductive invariants of `Parsing` and what they are made of, stated apart from their proofs | `Parsing` |
| `AsyncLogger`, `ConfigManager`, `FileService` | actions on the variables of each, without a `Next` of their own | |
| `Gateway` | the process: runtime, signals, sessions, reload, files, shutdown | the three above, `DrainContract` |

Variables carry the names of the members they model; `PROJECT.json` maps each
definition to its lines. The operators named `X_Something` and marked "Faulty
variant" are deliberate errors: with one of them in place of `X`, TLC must find
the property violated that `mutants` names. They take no part in any run.

Main abstractions:

- **Time in the pool** is two flags per connection, `lifetime_over` and
  `idle_over`, the outcomes of the comparisons in `reusable()`. Any time may pass
  between two steps. `idle_`, a vector, is a set ordered by `last_used_at`.
- **Order of posts.** Callers post to the pool from unrelated executors, so posted
  leases form a set. Calls to a session's strand are queued in order (`inbox`).
- **The breaker's cooldown** is a flag set by time, and the health counters
  saturate at their thresholds, beyond which they are only compared.
- **Transactions**: bytes are `wire`, the set of transactions whose response may
  still be on a socket. A parse result is an input. An operation that has
  completed is not recalled by a close that runs before its handler, which is how
  Asio behaves. The operations bound to the connection's executor resume the
  coroutine on the connection's strand; a write to the client brings it back to
  the session's.
- **Bytes** in the parsers are `CR`, `LF` or a letter. The first letter of a line is
  what its text means (a request line of HTTP/1.1, a header `Host`, a length of 2,
  something malformed), the others make it longer. So every position, limit and
  cut is real, and only the wording is gone. The reference in `Parsing` computes
  from the messages alone what must come of them. What a peer sends is a sequence of
  messages, the last of which it may leave unfinished: a line ends at its first
  `CR LF`, a head at its first empty line, and a body where the head says
  (`IsRequest`, `IsResponse`; after a `HEAD` request a response is its head, and what
  follows is arbitrary). Lines that mean nothing, limits that are exceeded, headers
  that contradict each other and chunks with a wrong end are all allowed.
- **Sizes** are added in `size_t`: `SizeMod` is 2^64 in the code and any larger number
  than a buffer in the model. Chunk sizes reach up to `SizeMod - 1`. What the parser
  reads in front of the buffer's view is the byte that is there if the buffer has
  consumed something, and otherwise anything.
- **The process**: the server is its contract. That is sound because
  `KeepsDrainContract` is checked with fairness, so what `Gateway` assumes of a
  drain is what `HttpServer` shows. What is known of `ProxyTransaction` and
  `HealthChecker` enters as steps in which a transaction or a probe misses its
  cancellation and hangs. A connection carries one request. A
  configuration is its logging part and one value for everything else, since only
  logging may change without a restart; a file that does not load is `NoConfig`.
  `std::condition_variable::wait` is two steps: the predicate with the mutex held,
  and the release that goes with falling asleep. The mutex keeps `logAccess` out in
  between, but not the destructor, which does not take it.
- **The router** counts tokens in whole units of `token` and keeps a clock
  bounded by `MaxTime`. A request may use a clock reading that is up to `MaxDelay`
  old by the time it takes the lock.

## 3. Runs

| Run | Instance | Checks |
|---|---|---|
| `pool_safety` | 4 requests, 2 connections, 1 idle, 2 uses, queue of 2, at most 4 connections created; requests symmetric | `TypeOK`, `CapacityRespected`, `LeaseExclusive`, `OnlyReusableInUse`, `CompletedOnce`, `NoWaiterBesideIdle`, `CleanupPending`, `HandsOverInOrder` |
| `pool_liveness` | 3 requests, 1 connection, queue of 1, no symmetry | `EveryAcquireCompletes`, `ExpiredIdleIsPruned`, `ImplementsBroker` |
| `proxy_admission` | 3 callers, 1 endpoint, 2 in flight, 1 probe | `InFlightExact`, `ProbesBacked`, `HalfOpenResolves` |
| `health_checker` | 2 endpoints, 2 probes at a time, thresholds 1 | `ProbesCounted`, `OnlyTimelyAnswersPublished`, `EveryEndpointProbed` |
| `server_drain` | 2 clients, 1 session at a time | `SessionsAccounted`, `DrainedMeansUnforced`, `DrainingReadersStartedLate`, `DrainCompletes`, `KeepsDrainContract` |
| `transaction_safety` | 2 transactions, 1 connection | `NoForeignBytes`, `NoErrorAfterHead` |
| `router_requests` | 3 requests, 2 clients in 2 shards, 1 key, 2 cache keys, 5 ticks, idle buckets kept for 4 | `TypeOK`, `KeysCounted`, `RateBounded`, `CacheBounded`, `OnlySharedAnswers` |
| `parsing` | sizes modulo 24; 1 or 2 requests out of 17, 1 response out of 24 and those with a chunk size that wraps, with or without an informational one before it, every cut into reads, every point of closing; limits met exactly, exceeded and kept; buffers with and without room | `TypeOK`, `RequestsAsSent`, `DeadlineFitsPhase`, `ResponseAsSent`, `RoomToRead` |
| `gateway` | 2 sessions, log queue of 1, 1 file worker and slot, 2 threads, 2 SIGHUPs, 3 configurations; with `--config` 1 client, no fault and upstreams, otherwise 2 clients, 1 worker that dies, and upstreams or none | `TypeOK`, `AccessLogKept`, `ReloadHonoured`, `FileSlotsExact`, `StopsClean`, `ExitsUnlessHung` |

The bounds are the smallest at which the case in question happens. Four requests
with two leases leave two waiters, so order in the queue matters and a release, a
timer and `stop()` can compete for the same waiter. Two uses per connection let it
be reused and then retired. Three callers with two in flight make the
compare-and-swap fail, retry and find the limit. Two clients for one place make
`tryAdd` refuse. One connection and two transactions are what it takes to hand a
connection on. One key and two shards make shards compete for `key_count_`; the
bodies include one that fills the cache and one that does not fit. Two endpoints and
two probes at a time let one probe hang while rounds go on with the other; the third
probe identifier is there so that a fault in the limit could show. The first lines
in `parsing` are shorter than, equal to and longer than their limit, so that a cut
between `CR` and `LF` of a maximal line happens, and 24 is larger than any buffer there,
so that only the sizes meant to wrap do. Two SIGHUPs with an edit before
each let a request meet a reload under way, and be followed by an edit the reload
missed. A log queue of one makes the second session's entry the one that is dropped;
one file slot makes the other session's read find it taken, and retry when it has
just been given back. `MaxClients`, `MaxFaults` and `Upstreams` differ by mode because
reload and files do not occur in the same mode, and because only without `--config` does
it matter for the shutdown whether there are upstreams.

Where a run has no `TypeOK`, the type is the first conjunct of its first invariant.

Three runs end in a violation: the code does something that a comment, a document
or a test excludes. Each is explained under `findings` in `PROJECT.json`.

| Run | Property | What happens |
|---|---|---|
| `probe_leak` | `ProbesBacked` | an exception in the transaction skips the recording; the breaker stays half-open with no probe left |
| `foreign_close` | `NoForeignClose` | a close decided by a deadline reaches the connection after its lease has passed on |
| `transaction_ends` | `OperationEnds` | a deadline that meets the resolver's completion uses up `stop_reason_`; nothing bounds the operations after it |

Other behaviour that a reader of the code may not expect is written into a
property as an exception, so that the run shows that there is no other:

- `DrainingReadersStartedLate`: a session that waits for a request while the server
  drains is one the drain's notification reached before its `run()`. It waits until
  its read deadline or the grace period (comment at `src/http/http_server.cpp:432`:
  "A slow client must not keep shutdown alive").
- `HalfOpenResolves`: a half-open breaker that has given out all its probes gets one
  back unless the transactions that hold them hang. That is real: the deadline may be
  used up (`transaction_ends`), and a write to a client that stops reading has none
  (`src/http/http_server.cpp:389`).
- `ExitsUnlessHung`: a drain ends the process with three exceptions. `~AsyncLogger` may
  notify its worker between the worker's predicate and its sleep, and the join waits
  for ever; a proxy transaction whose deadline was used up ignores `cancel()`
  (`transaction_ends`); a health probe may miss `stop()`. The last two keep `run()` from
  returning for as long as their upstream is silent. The probe is one whose resolver has
  completed when `stop()` runs: there is nothing to cancel, `async_connect` opens the
  socket that was just closed, and its timer is gone (`src/http/health_checker.cpp:23-29`,
  `:73-78`, `:134`; `docs/work-log.md:611-612` has the probes cancelled at shutdown). In
  `HealthChecker` it is `StopInStrand` between `Completes` and `Advance`.
- `AccessLogKept`: with `--config`, the signal handler's function object owns itself
  and through it the observability, so `~AsyncLogger` never runs and what is queued
  at exit is not written.
- `StopsClean`: two things touch a runtime that is gone. With `--config` a reload: the
  manager, leaked in the same way, is not joined, and its thread may post to a destroyed
  context. Without it the proxies and checkers of `main`: they are declared before the
  runtime (`app/pulsegate_main.cpp:289-290`, `:428`), so their strands, timers and pooled
  sockets are destroyed after their `io_context`. `runFromConfig` declares them after it.
- `ReloadHonoured`: a SIGHUP during a reload is turned away, not kept; the file as
  it was then is not read.
- `RequestsAsSent`, `ResponseAsSent`: a first line of exactly the allowed length is
  refused when a read ends between its `CR` and its `LF`.
- `ResponseAsSent`: it says nothing of an answer with a chunk size that wraps
  (`SizesFit`). A size may have 16 digits and is compared with nothing before 2 is added
  to it (`src/http/http_response_parser.cpp:56`, `:100`). For the largest but one the sum
  is 0: the chunk counts as buffered, the check of its end meets the `CR LF` of the size
  line, what is buffered becomes body and stays buffered. Read again as size lines and
  trailers it can end in a complete response, on a reusable connection, with a body no
  chunk of it has; `docs/development.md:274-275` says that the parser handles or refuses
  every form of boundary. The run has such streams: what it checks of them is `TypeOK`
  and `RoomToRead`.
- `RoomToRead`: reading a response throws when a chunk-size line does not fit into the
  buffer, since such a line has no limit of its own, or when a single chunk exceeds
  both the body limit and the buffer, since a chunk is buffered whole before it is
  measured; reading a request can throw when the configured limits are smaller than
  one read.
- `RateBounded`: a client is held to its rate only if a bucket that may be pruned would
  have been full by then, `(idle_ttl - 2 * MaxDelay) * rate >= burst`. Otherwise being
  pruned is worth more than waiting. A bucket's `last_seen` and the reading of the
  check that prunes it may each be `MaxDelay` old or ahead of the other, hence twice.

Three things met on the way need no interleaving and have no run: an upstream's
`Connection: close` is not looked at, so that the connection goes back to the pool
(`README.md:126-127` says otherwise); `validate()` accepts bodies of up to 64 MiB
while the parser's constructor refuses limits above 16 MiB; and expired rate limiter
keys make room only within their shard.

### Deadlock

`CHECK_DEADLOCK FALSE` stands where the system may come to rest: every request
answered, every client served, or time used up. `ReverseProxy` goes on for ever
and is checked for deadlock.

### Fairness

- `UpstreamPool!FairSpec`: weak fairness of the handlers posted to the strand and
  of timers. Asio runs what is posted while the runtime has a worker, and an armed
  timer expires. None for callers: a lease may be held for ever.
- `ReverseProxy!FairSpec`: weak fairness of a request that has begun, except for the end
  of its transaction, of which nothing is assumed (`Proceeds` has every step but
  `Transact`). The pool's answer is justified by `EveryAcquireCompletes`.
- `HttpServer!FairSpec`: the listener, dispatched calls, the drain's steps and
  polls. None for clients, handlers or writes, so `DrainCompletes` rests on the
  grace timer and `forceCloseAll` alone.
- `HealthChecker!FairSpec`: the strand's handlers, the interval and the probe timers.
  None for the network, the upstream or `stop()`, so `EveryEndpointProbed` rests on
  the timers; it makes an exception for the case that every probe slot hangs, since
  a timer that meets the resolver's completion closes a socket that is not open yet.
- `ProxyTransaction!FairSpec`: the coroutine's own steps, deadlines and closes.
  None for the upstream or the client.
- `DrainContract!ContractSpec`: while draining, every session leaves and the drain
  completes. `HttpServer!FairSpec` implies it (`KeepsDrainContract`).
- `Gateway!Fairness`: worker threads, posted handlers, the reload and file threads,
  the log worker and `main`. None for clients, signals or edits, nor for a request
  whose session is open; once the session is closed its reads and writes fail and
  its proxy is cancelled. A transaction or probe that misses its cancellation is a step
  of its own (`ProxyHangs`, `CheckersHang`) and nothing is assumed of its end. Strong fairness only for `logAccess` taking the log's
  mutex, which the worker releases again and again. `SpuriousWakeup` has none:
  `LostWakeup` may last.
- `Parsing` states safety only.

## 4. Proofs

Each `X_proofs` states an inductive invariant, proves `Spec => []IInv` (`Inductive`;
in `Router_proofs` the invariant is `LimiterInv /\ CacheInv`) with one lemma per
action, and derives the theorems from it. They hold for every value of the constants
that satisfies the named assumptions. `PROJECT.json` lists the theorems with the
properties of the runs they state.

| Module | Theorems | Assumptions |
|---|---|---|
| `UpstreamPool_proofs` | `TypeCorrect`, `Capacity`, `Exclusive`, `OnlyReusable`, `AnsweredOnce`, `NobodyWaitsInVain`, `CleanupNeverLost`, `ServesOldest`, `Implements` | `PoolLimits`: what the constructor requires. `IdsSuffice`, for `ServesOldest` only |
| `ReverseProxy_proofs` | `InFlight`, `Backed` | `ProxyLimits`, `CircuitBreakerLimits`, `HealthThresholds` |
| `ProxyTransaction_proofs` | `OwnBytesOnly`, `NothingAfterHead` | `TransactionNames` |
| `HealthChecker_proofs` | `Counted`, `OnlyTimely` | `CheckerConfig`, `HealthThresholds` |
| `HttpServer_proofs` | `Accounted`, `TrueMeansUnforced`, `OnlyEarlyDrainsRead`, `RefinesContract` | `SessionLimits`, `SessionNames` |
| `Router_proofs` | `Typed`, `CountedKeys`, `Bounded`, `CacheExact`, `SharedOnly` | `RateLimitConfig`, `ResponseCacheConfig`, `RouterLimits` |
| `Parsing_proofs` | `Typed`, `Room`, `Placed`, `AsSent`, `DeadlineFits`, `Answered`, `AnswersAsSent` | `SettingsAccepted`, `SizeModAssumption`, `StreamsOfBytes`; from `Placed` on also `StreamsOfMessages` |
| `Gateway_proofs` | `Typed`, `LogKept`, `Honoured`, `SlotsExact`, `CleanStop` | `RuntimeConfig`, `LoggerConfig`, `FileLimits` |

Most assumptions repeat what constructors and `validate()` require: limits are
positive, an idle limit does not exceed its total, a read fits into its buffer. Others
are of another kind. `SessionNames`, `TransactionNames` and part of `RouterLimits` say
that a null value is not a name. `StreamsOfBytes` says that a message is made of bytes,
`StreamsOfMessages` where a message ends (section 2): what the router or the proxy's
caller must get is defined only for a peer that sends messages.
`IdsSuffice` says that connection identifiers, which are 64 bits wide, do not run out
before the requests do. `RuntimeConfig` lets fewer handlers throw than there are
workers: when the last worker dies, `join()` returns whatever is left of sessions and
drain, and nothing about an orderly stop can be said.

### Why the invariants are what they are

**Pool.** That a release does not wrap `busy_` needs `busy_` to be the number of leased
connections; that the number is right needs leases to be exclusive; that a new
connection is exclusive needs every connection in use to have an identifier below
`next_id_`. `PolicyInv(policy, Leased)` says that the policy's books are right if exactly
the connections in `Leased` are out, where `Leased` is what requests hold together with
what posted handlers carry. `RequestInv` says who holds a lease, who waits, and that
timers, `done` and replies agree with it. Lemmas about the policy (`TakeIdleKeeps`,
`ReleaseKeeps`, ...) take `PolicyInv(p, L)` to `PolicyInv(q, L')`; lemmas about handlers
show that `Leased` changes just so. `CleanupNeverLost` adds that flag, timer and posted
handler of the cleanup agree (`CleanupInv`). `ServesOldest` adds that a queue is served
only while identifiers are left (`IdsLeft`). `Implements` maps every
handler to a grant, a refusal, a return, a handover or a close of `LeaseBroker`, or to
a stutter; since `LeaseBroker!Spec` states no fairness this is all of
`ImplementsBroker`.

**Proxy admission.** `in_flight` is the number of callers between a successful
compare-and-swap and the destructor. A half-open probe that is counted belongs to a
caller at a place from which it records an outcome. Every record method gives one back
or forgets them all (`GivesBack`), and a late answer can only lower the count.

**Transactions.** `NoForeignBytes` is about a connection's next holder, so the invariant
is about the pool's side as well: nothing is on the wire of a free connection, on a
leased one only its holder's response (`CleanWires`), and the holder is unique
(`Leases`). `NothingAfterHead` is an action property: a step taken once the head is out
ends in `StreamedClose` or in success.

**Health checker.** The count of active probes is the number of coroutines alive, and
an operation belongs to a probe that has begun (`OpsOwned`), so that a completion never
reaches a slot that has been given to another endpoint.

**Server.** A session is in one place of a short life: unseen by the registry, refused,
registered or closed (`Lifecycle`), and the counters are cardinalities of those sets
(`Accounting`). That `run()` is dispatched once (`RunOnce`) is what makes it impossible
to leave `Closed`. For a drain, `Draining` says that once a poll has seen the registry
empty nobody enters it again, which is why two polling chains cannot complete twice and
why the callback's argument is still right when it is delivered (`Answer`).
`RefinesContract` is the step part of `KeepsDrainContract`; its fairness part is checked
by `server_drain`.

**Router.** The limiter's invariant ties every bucket to what its client has been
allowed: tokens spent so far are paid for by burst and time (`Paid`), also across the
drop and re-creation of a bucket. It needs the age of every reading in use (`Readers`)
and, since the count of keys is taken before the bucket is inserted, who holds the shard
in between (`Holders`, `KeyTable`). For the cache, `Charged` gives the byte count as a
function of the list's prefix, so that evicting a suffix and moving an entry to the front
are arithmetic on that function. The facts about its values for all prefixes are proved
by a least counterexample, because the library's induction rules cannot be applied.

**Parsing.** What a parser leaves in the buffer when it asks for more is bounded by the
limit of its state (`RequestWaits`, `ResponseWaits`): a line that is not complete, the
rest of a head, a body without its last byte, nothing. A head that is being read has
taken three bytes already. With the buffer's own lemmas (`PrepareKeeps`, `CommitKeeps`,
`ConsumeKeeps`) this is all that `prepare` needs.

That the parsers find the messages again takes an invariant about positions.
`Buffered` says that the buffer holds the bytes of the wire from `Taken`, what the
parser has consumed, to `sent`. `SessionInv` (`Placed`) then says where `Taken` is: at
the start of the next request, before line `j` of its head, inside its body, at its
end, or at its fault; and what the parser holds there: the meanings of the lines taken,
none of them at fault, and a header count that is the position in the head. `ProxyInv`
(`Answered`) does the same for a response behind any number of informational ones, with
a place before each size line, inside each chunk and before each trailer. It holds if
2 can be added to every chunk size in `size_t` (`SizesFit`, a property of the stream):
then the sum is the natural one (`ChunkSums`) and the chunk's end is looked for where it
is. `SizeMod` is arbitrary beyond that, larger than the buffer. A parser that
has asked for more is short of the end of the line, chunk or body it is in, which is
why `RequestsAsSent` and `ResponseAsSent` can say that nobody waits for what has come.
The core of each step is `FindsLine`: if the bytes at `Taken` are a line and its
`CR LF`, then the search in the buffer finds exactly that line, or finds none because
`sent` is short of its end. `FirstFault` and `ChunkFaultIs` connect the parser's verdict
on the line in hand with the reference's choice of the first faulty line of the message.
The facts about `FlattenSeq` that this needs (where the parts of a sequence of sequences
lie in it) are proved from its definition, again by a least counterexample.

**Process.** For the log, what was accepted is what is written, in hand and queued, in
this order (`NothingLost`), and the worker leaves only behind the last writer
(`LogEnds`). A reload is in one place at a time (`OneReload`); if the last request was
accepted and the file has not been edited since, what is on its way is that file
(`Fresh`). A slot belongs to a read that a coroutine awaits (`FileAwaited`). `main` leaves
`join()` only when nothing is left to run (`Drained`), however long a probe or a
transaction that missed its cancellation makes it wait. What is destroyed after the
runtime follows from the mode and from whether there are upstreams (`OutliveRuntime`).

### What the proofs changed

- `RateBounded` was stated with a weaker proviso, which its run could not tell from the
  right one; the proof of the prune step asks for twice the delay. The run's `idle_ttl`
  and clock range now satisfy it.
- `RoomToRead` knew only the exception of the oversized chunk. The bound on what a
  parser waits for fails for a chunk-size line; the instance now has a long one.
- The reference of `Parsing` counted the status line against `header_bytes` at once, as
  the request parser does. The response parser compares only when the next line has
  come. No limits of the run could tell the two apart: a longer status line than a whole
  head must be allowed for that. The reference follows the code now
  (`RequestLineLimit`), and the run has a proxy with such limits.
- `StreamsOfMessages` was implicit in the streams of the run.

### Model-checked only

- Liveness, and with it the fairness part of `KeepsDrainContract`: beyond the prover.

- The three runs that end in a violation.

## 5. Not modelled

- The wording of everything: targets, header values, numbers, key text, metrics
  output, the paths of static files. The parsers keep positions and limits.
- Writing responses (`http_response.cpp`) and rewriting headers in the proxy.
- Reading YAML and `validate()`; option parsing in `main`. Both come before any
  concurrency and end in a configuration or none.
- `Router::add`: every route is added before the server starts.
- Selection over several endpoints. `ReverseProxy` takes any number, but three
  callers, admission and a breaker over two endpoints are beyond five minutes, and
  the repository promises nothing about how often an endpoint is tried.
- The pools that `poolFor()` creates on first use and `ReverseProxy::stop`: each
  pool by itself is `UpstreamPool`, whose `stop()` is modelled.
- A session, its proxied request and the pool waiter in one module. That the drain
  does not depend on them is `DrainCompletes`; that `join` waits for them is
  `StopsClean`.
- Metrics and statistics counters, except `closed_counts_` and the gauge of active
  connections.
- The blocking server of an early milestone.

In `ReverseProxy` the health checker appears only through what it publishes.

## 6. Plan

The components in the order of importance are modelled: pool, proxy admission,
transaction, server, router, health checker, parsers, process. Every invariant and
every action property that a run checks is proved. What is left:

1. What holds in spite of the findings: that a close reaches a foreign connection
   only when it was decided by a deadline or a cancel that met the end of its own
   transaction, and that a probe is lost only by unwinding.
2. Shorter proofs where several cases repeat one argument, in `Parsing_proofs` above all.
