------------------------------- MODULE Router -------------------------------
(***************************************************************************)
(* Router::handle (src/http/router.cpp) for concurrent requests to one     *)
(* route with a per-client limiter and a response cache, behind the global *)
(* limiter.                                                                *)
(*                                                                         *)
(* Worker threads run handle() in parallel.  Each limiter and cache call   *)
(* reads the clock first and takes its mutex later: the reading `now' may  *)
(* lie up to MaxDelay ticks in the past when the call uses it.             *)
(***************************************************************************)
EXTENDS RateLimiter, ResponseCache

CONSTANTS
    Requests, Keys,             \* calls of handle(); results of makeKey()
    Bodies,                     \* sizes of the handlers' responses
    MaxTime, MaxDelay,          \* bounds: the clock; from clock reading to use
    Nobody                      \* the null value

ASSUME RouterLimits ==
    /\ {MaxTime, MaxDelay} \cup Bodies \subseteq Nat
    /\ Nobody \notin Requests

VARIABLES
    clock,
    global_bucket,              \* global_limiter_, one bucket for everybody
    buckets, key_count,         \* the route's limiter: client buckets, key_count_
    owner,                      \* who holds the mutex of each limiter shard
    cache,                      \* the shard of the route's cache
    pc, since,                  \* where a request is; the oldest clock reading it can use there
    client, now, current_count, \* checkClient's arguments and local variable
    request, response, outcome,
    allowed, global_allowed     \* history: requests let through per client, in all

vars == <<clock, global_bucket, buckets, key_count, owner, cache, pc, since, client,
          now, current_count, request, response, outcome, allowed, global_allowed>>
limiterVars == <<buckets, key_count, owner, client, now, current_count, allowed>>
globalVars  == <<global_bucket, global_allowed>>

\* Key, method and credentials; they and the client are chosen where they are
\* first read.
Request == [key : Keys, kind : {"get", "head", "credentials"}]
Response == [made_for : Request, status : {200, 500}, sensitive : BOOLEAN, body : Bodies]

Init ==
    /\ clock = 0
    /\ global_bucket = NewBucket(global_burst, 0)
    /\ buckets = [c \in {} |-> 0]
    /\ key_count = 0
    /\ owner = [s \in Shards |-> Nobody]
    /\ cache = EmptyShard
    /\ pc = [r \in Requests |-> "new"]
    /\ since = [r \in Requests |-> 0]
    /\ client = [r \in Requests |-> Nobody]
    /\ now = [r \in Requests |-> 0]
    /\ current_count = [r \in Requests |-> 0]
    /\ request = [r \in Requests |-> Nobody]
    /\ response = [r \in Requests |-> Nobody]
    /\ outcome = [r \in Requests |-> "none"]
    /\ allowed = [c \in Clients |-> 0]
    /\ global_allowed = 0

\* No limiter call is still running MaxDelay ticks after it read the clock.
Tick ==
    /\ clock < MaxTime
    /\ \A r \in Requests : pc[r] = "reserve" => clock - now[r] < MaxDelay
    /\ clock' = clock + 1
    /\ since' = [r \in Requests |-> IF clock' - since[r] > MaxDelay THEN clock' - MaxDelay
                                   ELSE since[r]]
    /\ UNCHANGED <<globalVars, limiterVars, cache, pc, request, response, outcome>>

\* What the clock showed when r made the call that takes its mutex in this step.
Readings(r) == since[r] .. clock

Goto(r, label) ==
    /\ pc' = [pc EXCEPT ![r] = label]
    /\ since' = [since EXCEPT ![r] = IF label = "done" THEN @ ELSE clock]
    /\ UNCHANGED clock
Answer(r, what) ==
    /\ Goto(r, "done")
    /\ outcome' = [outcome EXCEPT ![r] = what]

-----------------------------------------------------------------------------
(* The limiters *)

CheckGlobal(r) ==
    /\ pc[r] = "new"
    /\ \E t \in Readings(r) :
          /\ global_bucket' = allow(global_bucket, t)
          /\ IF Allows(global_bucket, t)
             THEN /\ Goto(r, "match")
                  /\ global_allowed' = global_allowed + 1
                  /\ UNCHANGED outcome
             ELSE Answer(r, "limited") /\ UNCHANGED global_allowed
    /\ UNCHANGED <<limiterVars, cache, request, response>>

\* No route matches the target: 404, or 405 when only the method differs.
NoRoute(r) ==
    /\ pc[r] = "match"
    /\ Answer(r, "no_route")
    /\ UNCHANGED <<globalVars, limiterVars, cache, request, response>>

\* checkClient() returns and releases the mutex of its shard.
LeaveCheck(r, c) ==
    /\ owner' = [owner EXCEPT ![shard_of[c]] = Nobody]
    /\ client' = [client EXCEPT ![r] = Nobody]
    /\ now' = [now EXCEPT ![r] = 0]
    /\ current_count' = [current_count EXCEPT ![r] = 0]
\* The bucket b of client c answers.
Decide(r, c, left, b, t) ==
    /\ buckets' = Checked(left, c, b, t)
    /\ LeaveCheck(r, c)
    /\ IF Allows(b, t)
       THEN /\ Goto(r, "lookup")
            /\ allowed' = [allowed EXCEPT ![c] = @ + 1]
            /\ UNCHANGED outcome
       ELSE Answer(r, "limited") /\ UNCHANGED allowed

\* checkClient() up to the search for client c: its shard is locked and pruned.
\* Every erase is followed by its own decrement of key_count_; a reader in
\* between sees the count from before, as if it had come earlier.
CheckClient(r, c) ==
    LET s == shard_of[c] IN
    /\ pc[r] = "match"
    /\ owner[s] = Nobody
    /\ \E t \in Readings(r) :
          LET gone == Expired(buckets, s, t)
              left == Without(buckets, gone)
          IN  /\ key_count' = key_count - Cardinality(gone)
              /\ \/ /\ c \in DOMAIN left
                    /\ Decide(r, c, left, left[c].bucket, t)
                 \/ /\ c \notin DOMAIN left
                    /\ buckets' = left
                    /\ owner' = [owner EXCEPT ![s] = r]
                    /\ client' = [client EXCEPT ![r] = c]
                    /\ now' = [now EXCEPT ![r] = t]
                    /\ current_count' = [current_count EXCEPT ![r] = key_count']
                    /\ Goto(r, "reserve")
                    /\ UNCHANGED <<allowed, outcome>>
    /\ UNCHANGED <<globalVars, cache, request, response>>

\* The loop around compare_exchange_weak on key_count_.
\* Faulty variant: the count is stored without comparing.
ReserveKey_Unchecked(r) ==
    /\ pc[r] = "reserve"
    /\ current_count[r] < max_keys
    /\ key_count' = current_count[r] + 1
    /\ Decide(r, client[r], buckets, NewBucket(burst, now[r]), now[r])
    /\ UNCHANGED <<globalVars, cache, request, response>>
ReserveKey(r) ==
    /\ pc[r] = "reserve"
    /\ current_count[r] < max_keys
    /\ key_count = current_count[r]
    /\ key_count' = key_count + 1
    /\ Decide(r, client[r], buckets, NewBucket(burst, now[r]), now[r])
    /\ UNCHANGED <<globalVars, cache, request, response>>
RetryReserve(r) ==
    /\ pc[r] = "reserve"
    /\ current_count[r] < max_keys
    /\ key_count # current_count[r]
    /\ current_count' = [current_count EXCEPT ![r] = key_count]
    /\ UNCHANGED <<clock, globalVars, buckets, key_count, owner, client, now, allowed, cache, pc,
                   since, request, response, outcome>>
\* Faulty variant: the refusal gives back a key it has not taken.
KeysExhausted_GivesBack(r) ==
    /\ pc[r] = "reserve"
    /\ current_count[r] >= max_keys
    /\ key_count' = key_count - 1
    /\ LeaveCheck(r, client[r])
    /\ Answer(r, "limited")
    /\ UNCHANGED <<globalVars, buckets, allowed, cache, request, response>>
KeysExhausted(r) ==
    /\ pc[r] = "reserve"
    /\ current_count[r] >= max_keys
    /\ LeaveCheck(r, client[r])
    /\ Answer(r, "limited")
    /\ UNCHANGED <<globalVars, buckets, key_count, allowed, cache, request, response>>

-----------------------------------------------------------------------------
(* The cache and the handler *)

cacheableRequest(q) == q.kind \in {"get", "head"}

Lookup(r, q) ==
    /\ pc[r] = "lookup"
    /\ request' = [request EXCEPT ![r] = q]
    /\ IF ~cacheableRequest(q)
       THEN Goto(r, "handler") /\ UNCHANGED <<cache, response, outcome>>
       ELSE \E t \in Readings(r) :
               /\ cache' = get(cache, q.key, t)
               /\ IF Hit(cache, q.key, t)
                  THEN /\ Answer(r, "hit")
                       /\ response' = [response EXCEPT ![r] = Found(cache, q.key)]
                  ELSE Goto(r, "handler") /\ UNCHANGED <<response, outcome>>
    /\ UNCHANGED <<globalVars, limiterVars>>

\* A HEAD request may read the cache but never fills it.
\* Faulty variant: the method is not looked at.
CanStore_AnyMethod(r, made) == cacheableRequest(request[r]) /\ cacheableResponse(made)
CanStore(r, made) ==
    /\ cacheableRequest(request[r])
    /\ request[r].kind = "get"
    /\ cacheableResponse(made)

\* The handler has answered with anything, or thrown: 500.  Its answer is the
\* coroutine's own until it is stored.
Store(r) ==
    /\ pc[r] = "handler"
    /\ \E made \in Response :
          /\ made.made_for = request[r]
          /\ \/ /\ CanStore(r, made)
                /\ \E t \in Readings(r) : cache' = put(cache, request[r].key, made, t)
                /\ Answer(r, IF Fits(made) THEN "miss" ELSE "bypass")
             \/ /\ ~CanStore(r, made)
                /\ Answer(r, "bypass")
                /\ UNCHANGED cache
    /\ request' = [request EXCEPT ![r] = Nobody]
    /\ UNCHANGED <<globalVars, limiterVars, response>>

Next ==
    \/ Tick
    \/ \E r \in Requests :
          \/ CheckGlobal(r) \/ NoRoute(r)
          \/ \E c \in Clients : CheckClient(r, c)
          \/ ReserveKey(r) \/ RetryReserve(r) \/ KeysExhausted(r)
          \/ \E q \in Request : Lookup(r, q)
          \/ Store(r)

Spec == Init /\ [][Next]_vars

-----------------------------------------------------------------------------
(* Properties *)

\* Every variable holds a value of its type; the unsigned counters key_count_
\* and current_bytes never wrap below zero.
TypeOK ==
    /\ clock \in 0 .. MaxTime
    /\ global_bucket \in TokenBucket
    /\ DOMAIN buckets \subseteq Clients
    /\ \A c \in DOMAIN buckets : buckets[c] \in ClientBucket
    /\ key_count \in Nat
    /\ owner \in [Shards -> Requests \cup {Nobody}]
    /\ cache.current_bytes \in Nat
    /\ cache.index \subseteq Keys
    /\ \A i \in DOMAIN cache.lru : cache.lru[i].response \in Response
    /\ pc \in [Requests -> {"new", "match", "reserve", "lookup", "handler", "done"}]
    /\ since \in [Requests -> 0 .. MaxTime]
    /\ now \in [Requests -> 0 .. MaxTime]
    /\ current_count \in [Requests -> Nat]
    /\ client \in [Requests -> Clients \cup {Nobody}]
    /\ request \in [Requests -> Request \cup {Nobody}]
    /\ response \in [Requests -> Response \cup {Nobody}]
    /\ outcome \in [Requests -> {"none", "limited", "no_route", "hit", "miss", "bypass"}]

\* key_count_, shared by shards with mutexes of their own, is the number of
\* client buckets and never exceeds max_keys.
KeysCounted ==
    /\ key_count = Cardinality(DOMAIN buckets)
    /\ key_count <= max_keys

\* No more requests pass than the burst and the time so far allow: for all
\* clients together, and for each client even when its bucket is dropped and
\* made anew, provided that an idle bucket is full before it expires, and twice
\* MaxDelay before: the check that was the last to touch it, and the one that makes
\* it anew, may both use a reading that old.  The constructor checks no proviso.
RateBounded ==
    /\ global_allowed * token <= global_burst + clock * rate
    /\ (idle_ttl - 2 * MaxDelay) * rate >= burst =>
          \A c \in Clients : allowed[c] * token <= burst + clock * rate

\* The byte count of the cache is the sum of its entries' charges and within the
\* budget, and the index knows exactly the entries of the list, each key once.
CacheBounded ==
    /\ cache.current_bytes = Bytes(cache.lru, 1, Len(cache.lru))
    /\ cache.current_bytes <= max_bytes
    /\ cache.index = {KeyAt(cache, i) : i \in DOMAIN cache.lru}
    /\ \A i, j \in DOMAIN cache.lru : KeyAt(cache, i) = KeyAt(cache, j) => i = j

\* An answer out of the cache was made for a GET request without credentials
\* under the same key, and for everybody; a request with credentials gets none.
OnlySharedAnswers ==
    \A r \in Requests : outcome[r] = "hit" =>
        /\ request[r].kind # "credentials"
        /\ response[r].made_for.key = request[r].key
        /\ response[r].made_for.kind = "get"
        /\ response[r].status = 200 /\ ~response[r].sensitive
=============================================================================
