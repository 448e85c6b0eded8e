---------------------------- MODULE RateLimiter ----------------------------
(***************************************************************************)
(* TokenBucket and the table of client buckets (src/http/rate_limiter.cpp).*)
(* Tokens are counted in units: a request costs `token' units and `rate'   *)
(* units come back per tick of the clock, so that a bucket can be partly   *)
(* refilled.                                                               *)
(***************************************************************************)
EXTENDS Integers, FiniteSets

CONSTANTS
    Clients, Shards,
    shard_of,                   \* std::hash(client_key) % shards_.size()
    token, rate,                \* 1.0 and requests_per_second in units
    burst, global_burst,        \* burst of the route's and of the global limiter
    max_keys, idle_ttl

ASSUME RateLimitConfig ==
    /\ shard_of \in [Clients -> Shards]
    /\ {token, rate, burst, global_burst, max_keys, idle_ttl} \subseteq Nat \ {0}

TokenBucket == [capacity : Nat, available_tokens : Nat, last_refill : Nat]
NewBucket(size, now) == [capacity |-> size, available_tokens |-> size, last_refill |-> now]

Least(a, b) == IF a < b THEN a ELSE b
\* Faulty variant: the bucket is refilled but last_refill_ is not moved.
refill_TimeKept(b, now) ==
    IF now <= b.last_refill THEN b
    ELSE [b EXCEPT !.available_tokens = Least(b.capacity, @ + (now - b.last_refill) * rate)]
\* A clock reading that is older than the last one refills nothing.
refill(b, now) ==
    IF now <= b.last_refill THEN b
    ELSE [capacity |-> b.capacity, last_refill |-> now,
          available_tokens |-> Least(b.capacity, b.available_tokens + (now - b.last_refill) * rate)]

Allows(b, now) == token <= refill(b, now).available_tokens
\* The bucket after allow(), whatever it answered.
allow(b, now) ==
    IF Allows(b, now) THEN [refill(b, now) EXCEPT !.available_tokens = @ - token]
    ELSE refill(b, now)

ClientBucket == [bucket : TokenBucket, last_seen : Nat]

\* The clients of shard s whose bucket pruneExpired() erases.  last_seen may be
\* ahead of now: the difference is signed.
Expired(buckets, s, now) ==
    {c \in DOMAIN buckets : shard_of[c] = s /\ now - buckets[c].last_seen >= idle_ttl}
Without(buckets, gone) == [c \in DOMAIN buckets \ gone |-> buckets[c]]
\* Client c is checked on bucket b.
Checked(buckets, c, b, now) ==
    [d \in DOMAIN buckets \cup {c} |->
        IF d = c THEN [bucket |-> allow(b, now), last_seen |-> now] ELSE buckets[d]]
=============================================================================
