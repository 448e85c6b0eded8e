---------------------------- MODULE Router_proofs ----------------------------
(***************************************************************************)
(* Proofs about Router with its rate limiters and its response cache.      *)
(* First the token bucket and the cache shard, as facts about one object   *)
(* under its mutex; then the invariant of the concurrent requests: who     *)
(* holds a shard of the client limiter, how old a clock reading can be,    *)
(* and what the list of the cache can hold.                                *)
(*                                                                         *)
(* Sums over the cache's list are handled by induction in the form of a    *)
(* least counterexample.                                                   *)
(***************************************************************************)
EXTENDS Router, FiniteSetTheorems, SequenceTheorems, WellFoundedInduction, TLAPS

-----------------------------------------------------------------------------
(* Numbers *)

LEMMA LeastNat ==
  ASSUME NEW T, T \subseteq Nat, T # {}
  PROVE  \E m \in T : \A n \in T : m <= n
<1> DEFINE R == OpToRel(<, Nat)
<1>1. IsWellFoundedOn(R, Nat)
  BY NatLessThanWellFounded
<1>2. \A x, y \in Nat : x < y => <<x, y>> \in R
  BY DEF OpToRel
<1> HIDE DEF R
<1>3. PICK m \in T : \A y \in T : ~(<<y, m>> \in R)
  BY <1>1, WFMin
<1>4. \A y \in T : m <= y
  <2>1. SUFFICES ASSUME NEW y \in T PROVE m <= y
    OBVIOUS
  <2>2. m \in Nat /\ y \in Nat /\ ~(y < m)
    BY <1>2, <1>3
  <2> QED
    BY <2>2
<1> QED
  BY <1>4

LEMMA Distributes ==
  ASSUME NEW a \in Int, NEW b \in Int, NEW k \in Int
  PROVE  (a - b) * k = a * k - b * k /\ (a + b) * k = a * k + b * k /\ a * k \in Int
  OBVIOUS

LEMMA Monotone ==
  ASSUME NEW a \in Int, NEW b \in Int, NEW k \in Nat, a <= b
  PROVE  a * k <= b * k
<1>1. b - a \in Nat /\ (b - a) * k >= 0
  OBVIOUS
<1> QED
  BY <1>1, Distributes

LEMMA Limits ==
  /\ token \in Nat \ {0} /\ rate \in Nat \ {0} /\ burst \in Nat \ {0} /\ global_burst \in Nat \ {0}
  /\ max_keys \in Nat \ {0} /\ idle_ttl \in Nat \ {0}
  BY RateLimitConfig

-----------------------------------------------------------------------------
(* One token bucket *)

LEMMA AllowTyped ==
  ASSUME NEW b \in TokenBucket, NEW t \in Nat
  PROVE  /\ allow(b, t) \in TokenBucket
         /\ allow(b, t).last_refill = IF t <= b.last_refill THEN b.last_refill ELSE t
<1> DEFINE c == refill(b, t)
<1>1. c \in TokenBucket /\ c.last_refill = IF t <= b.last_refill THEN b.last_refill ELSE t
  <2>1. CASE t <= b.last_refill
    BY <2>1 DEF refill
  <2>2. CASE ~(t <= b.last_refill)
    <3>1. (t - b.last_refill) * rate \in Nat /\ b.available_tokens \in Nat /\ b.capacity \in Nat
      <4>1. t - b.last_refill \in Nat /\ rate \in Nat
        BY <2>2, Limits DEF TokenBucket
      <4> QED
        BY <4>1 DEF TokenBucket
    <3>2. Least(b.capacity, b.available_tokens + (t - b.last_refill) * rate) \in Nat
      BY <3>1 DEF Least
    <3> QED
      BY <2>2, <3>1, <3>2 DEF refill, TokenBucket
  <2> QED
    BY <2>1, <2>2
<1>2. c.available_tokens \in Nat /\ token \in Nat
  BY <1>1, Limits DEF TokenBucket
<1>3. CASE Allows(b, t)
  <2>1. allow(b, t) = [c EXCEPT !.available_tokens = @ - token] /\ token <= c.available_tokens
    BY <1>3 DEF allow, Allows
  <2> HIDE DEF c
  <2> QED
    BY <1>1, <1>2, <2>1 DEF TokenBucket
<1>4. CASE ~Allows(b, t)
  BY <1>1, <1>4 DEF allow
<1> QED
  BY <1>3, <1>4

\* The requests let through so far, in units, are paid for by the first filling and
\* by the time up to the last refill.
Paid(b, size, spent) ==
    /\ b \in TokenBucket /\ b.capacity = size
    /\ spent \in Nat /\ spent + b.available_tokens <= size + b.last_refill * rate

LEMMA NewPaid ==
  ASSUME NEW size \in Nat, NEW t \in Nat, NEW spent \in Nat, spent <= t * rate
  PROVE  Paid(NewBucket(size, t), size, spent)
<1>1. t * rate \in Int
  BY Limits
<1> QED
  BY <1>1 DEF Paid, NewBucket, TokenBucket

LEMMA RefillPaid ==
  ASSUME NEW b, NEW size \in Nat, NEW spent, NEW t \in Nat, Paid(b, size, spent)
  PROVE  /\ Paid(refill(b, t), size, spent)
         /\ refill(b, t).last_refill = IF t <= b.last_refill THEN b.last_refill ELSE t
<1>1. /\ b.last_refill \in Nat /\ b.available_tokens \in Nat /\ b.capacity = size /\ b \in TokenBucket
      /\ spent \in Nat /\ spent + b.available_tokens <= size + b.last_refill * rate
  BY DEF Paid, TokenBucket
<1>2. CASE t <= b.last_refill
  BY <1>1, <1>2 DEF refill, Paid
<1>3. CASE ~(t <= b.last_refill)
  <2> DEFINE c == refill(b, t)
             more == b.available_tokens + (t - b.last_refill) * rate
  <2>1. c = [capacity |-> b.capacity, last_refill |-> t, available_tokens |-> Least(b.capacity, more)]
    BY <1>3 DEF refill
  <2>2. /\ (t - b.last_refill) * rate = t * rate - b.last_refill * rate
        /\ t * rate \in Int /\ b.last_refill * rate \in Int
        /\ (t - b.last_refill) * rate >= 0
    <3>1. t - b.last_refill \in Nat /\ rate \in Nat
      BY <1>1, <1>3, Limits
    <3>2. (t - b.last_refill) * rate \in Nat
      BY <3>1
    <3> QED
      BY <1>1, <3>1, <3>2, Distributes
  <2>3. more \in Nat /\ Least(b.capacity, more) \in Nat /\ Least(b.capacity, more) <= more
    BY <1>1, <2>2 DEF Least
  <2> HIDE DEF more
  <2>4. c \in TokenBucket /\ c.capacity = size /\ c.last_refill = t
        /\ c.available_tokens = Least(b.capacity, more)
    BY <1>1, <2>1, <2>3 DEF TokenBucket
  <2> HIDE DEF c
  <2>5. spent + more <= size + t * rate
    BY <1>1, <2>2 DEF more
  <2>6. spent + c.available_tokens <= size + c.last_refill * rate
    BY <1>1, <2>2, <2>3, <2>4, <2>5
  <2>7. Paid(c, size, spent)
    BY <1>1, <2>4, <2>6 DEF Paid
  <2> QED
    BY <1>3, <2>4, <2>7 DEF c
<1> QED
  BY <1>2, <1>3

\* allow() takes a token if there is one.
LEMMA AllowPaid ==
  ASSUME NEW b, NEW size \in Nat, NEW count \in Nat, NEW t \in Nat, Paid(b, size, count * token)
  PROVE  /\ Allows(b, t) => Paid(allow(b, t), size, (count + 1) * token)
         /\ ~Allows(b, t) => Paid(allow(b, t), size, count * token)
         /\ allow(b, t).last_refill = IF t <= b.last_refill THEN b.last_refill ELSE t
<1> DEFINE c == refill(b, t)
           spent == count * token
<1>1. /\ Paid(c, size, spent)
      /\ c.last_refill = IF t <= b.last_refill THEN b.last_refill ELSE t
  BY RefillPaid
<1>2. (count + 1) * token = spent + token /\ spent \in Nat /\ token \in Nat
  BY Limits, Distributes
<1> HIDE DEF c, spent
<1>3. CASE Allows(b, t)
  <2>1. allow(b, t) = [c EXCEPT !.available_tokens = @ - token] /\ token <= c.available_tokens
    BY <1>3 DEF allow, Allows, c
  <2>2. /\ c \in TokenBucket /\ c.available_tokens \in Nat /\ c.last_refill \in Nat
        /\ c.capacity = size /\ spent + c.available_tokens <= size + c.last_refill * rate
    BY <1>1 DEF Paid, TokenBucket
  <2>3. c.available_tokens - token \in Nat
    BY <1>2, <2>1, <2>2
  <2>4. /\ allow(b, t) \in TokenBucket /\ allow(b, t).capacity = size
        /\ allow(b, t).last_refill = c.last_refill
        /\ allow(b, t).available_tokens = c.available_tokens - token
    BY <2>1, <2>2, <2>3 DEF TokenBucket
  <2>5. c.last_refill * rate \in Int
    BY <2>2, Limits
  <2>6. (spent + token) + (c.available_tokens - token) <= size + c.last_refill * rate
    BY <1>2, <2>2, <2>5
  <2>7. Paid(allow(b, t), size, spent + token)
    BY <1>2, <2>4, <2>6 DEF Paid
  <2> QED
    BY <1>1, <1>2, <1>3, <2>4, <2>7
<1>4. CASE ~Allows(b, t)
  <2>1. allow(b, t) = c
    BY <1>4 DEF allow, c
  <2> QED
    BY <1>1, <1>4, <2>1 DEF spent
<1> QED
  BY <1>3, <1>4

-----------------------------------------------------------------------------
(* The table of client buckets *)

\* An idle bucket is full 2 * MaxDelay before it expires.
Proviso == (idle_ttl - 2 * MaxDelay) * rate >= burst

\* The last check of a bucket may have used an older reading than an earlier one.
Seen(e) ==
    /\ e \in ClientBucket
    /\ e.bucket.last_refill <= clock
    /\ e.last_seen <= e.bucket.last_refill /\ e.bucket.last_refill - e.last_seen <= MaxDelay

\* A client without a bucket may get a full one at any reading from now on.
ClientOK(table, count, c) ==
    /\ c \in DOMAIN table =>
          Seen(table[c]) /\ (Proviso => Paid(table[c].bucket, burst, count[c] * token))
    /\ c \notin DOMAIN table /\ Proviso =>
          count[c] = 0 \/ count[c] * token <= (clock - MaxDelay) * rate

TableOK(table, count) == /\ DOMAIN table \subseteq Clients
                         /\ count \in [Clients -> Nat]
                         /\ \A c \in Clients : ClientOK(table, count, c)

Recent(t) == t \in Nat /\ t <= clock /\ clock - t <= MaxDelay

LEMMA Bounds == clock \in 0 .. MaxTime => clock \in Nat /\ MaxDelay \in Nat /\ MaxTime \in Nat
  BY RouterLimits

\* What pruneExpired() erases had filled up again.
LEMMA PrunedOK ==
  ASSUME clock \in 0 .. MaxTime, NEW table, NEW count, TableOK(table, count), NEW s, NEW t, Recent(t)
  PROVE  LET left == Without(table, Expired(table, s, t))
         IN  /\ DOMAIN left = DOMAIN table \ Expired(table, s, t)
             /\ \A c \in DOMAIN left : left[c] = table[c]
             /\ TableOK(left, count)
<1> DEFINE gone == Expired(table, s, t)
           left == Without(table, gone)
<1>1. DOMAIN left = DOMAIN table \ gone /\ \A c \in DOMAIN left : left[c] = table[c]
  BY DEF Without
<1>2. ASSUME NEW c \in gone, Proviso PROVE count[c] * token <= (clock - MaxDelay) * rate
  <2> DEFINE refilled == table[c].bucket.last_refill
             seen == table[c].last_seen
             spent == count[c] * token
             free == table[c].bucket.available_tokens
  <2>1. c \in DOMAIN table /\ c \in Clients /\ t - seen >= idle_ttl
    BY DEF Expired, TableOK
  <2>2. ClientOK(table, count, c)
    BY <2>1 DEF TableOK
  <2>3. /\ table[c] \in ClientBucket /\ refilled - seen <= MaxDelay
        /\ Paid(table[c].bucket, burst, spent)
    BY <1>2, <2>1, <2>2 DEF ClientOK, Seen
  <2>4. refilled \in Nat /\ seen \in Nat /\ free \in Nat
    BY <2>3 DEF ClientBucket, TokenBucket
  <2>5. spent \in Nat /\ spent + free <= burst + refilled * rate
    BY <2>3 DEF Paid
  <2>6. clock \in Nat /\ MaxDelay \in Nat /\ t \in Nat /\ t <= clock /\ idle_ttl \in Nat /\ rate \in Nat
        /\ burst \in Nat
    BY Bounds, Limits DEF Recent
  <2> HIDE DEF refilled, seen, spent, free
  <2>7. (idle_ttl - 2 * MaxDelay) + refilled <= clock - MaxDelay
    BY <2>1, <2>3, <2>4, <2>6 DEF seen
  <2>8. ((idle_ttl - 2 * MaxDelay) + refilled) * rate <= (clock - MaxDelay) * rate
    <3>1. (idle_ttl - 2 * MaxDelay) + refilled \in Int /\ clock - MaxDelay \in Int
      BY <2>4, <2>6
    <3> QED
      BY <2>6, <2>7, <3>1, Monotone
  <2>9. ((idle_ttl - 2 * MaxDelay) + refilled) * rate = (idle_ttl - 2 * MaxDelay) * rate + refilled * rate
    <3>1. idle_ttl - 2 * MaxDelay \in Int /\ refilled \in Int /\ rate \in Int
      BY <2>4, <2>6
    <3> QED
      BY <3>1, Distributes
  <2> DEFINE x == (idle_ttl - 2 * MaxDelay) * rate
             y == refilled * rate
             z == (clock - MaxDelay) * rate
  <2>10. x \in Int /\ y \in Int /\ z \in Int
    BY <2>4, <2>6
  <2>11. x >= burst /\ x + y <= z /\ spent + free <= burst + y
    BY <1>2, <2>5, <2>8, <2>9 DEF Proviso
  <2> HIDE DEF x, y, z
  <2>12. spent <= z
    BY <2>4, <2>5, <2>6, <2>10, <2>11
  <2> QED
    BY <2>12 DEF spent, z
<1>3. ASSUME NEW c \in Clients PROVE ClientOK(left, count, c)
  <2>1. ClientOK(table, count, c)
    BY DEF TableOK
  <2>2. CASE c \in gone
    BY <1>1, <1>2, <2>2 DEF ClientOK
  <2>3. CASE c \notin gone
    BY <1>1, <2>1, <2>3 DEF ClientOK
  <2> QED
    BY <2>2, <2>3
<1>4. TableOK(left, count)
  BY <1>1, <1>3 DEF TableOK
<1> QED
  BY <1>1, <1>4

\* One check of client c, on its bucket or on a new one.
LEMMA CheckedOK ==
  ASSUME clock \in 0 .. MaxTime, NEW left, NEW count, TableOK(left, count), NEW c \in Clients, NEW t, Recent(t),
         NEW b, b = IF c \in DOMAIN left THEN left[c].bucket ELSE NewBucket(burst, t),
         NEW more, more = IF Allows(b, t) THEN [count EXCEPT ![c] = @ + 1] ELSE count
  PROVE  /\ DOMAIN Checked(left, c, b, t) = DOMAIN left \cup {c}
         /\ TableOK(Checked(left, c, b, t), more)
<1> DEFINE table == Checked(left, c, b, t)
<1>1. /\ DOMAIN table = DOMAIN left \cup {c}
      /\ table[c] = [bucket |-> allow(b, t), last_seen |-> t]
      /\ \A d \in DOMAIN left \ {c} : table[d] = left[d]
  BY DEF Checked
<1>2. /\ t \in Nat /\ t <= clock /\ clock - t <= MaxDelay /\ clock \in Nat /\ MaxDelay \in Nat
      /\ burst \in Nat /\ rate \in Nat /\ token \in Nat
  BY Bounds, Limits DEF Recent
<1>3. count \in [Clients -> Nat] /\ DOMAIN left \subseteq Clients /\ ClientOK(left, count, c)
  BY DEF TableOK
<1>4. b \in TokenBucket /\ b.last_refill \in Nat /\ b.last_refill <= clock
  <2>1. CASE c \in DOMAIN left
    BY <1>3, <2>1 DEF ClientOK, Seen, ClientBucket, TokenBucket
  <2>2. CASE c \notin DOMAIN left
    BY <1>2, <2>2 DEF NewBucket, TokenBucket
  <2> QED
    BY <2>1, <2>2
<1>5. ASSUME Proviso PROVE Paid(b, burst, count[c] * token)
  <2>1. CASE c \in DOMAIN left
    BY <1>3, <1>5, <2>1 DEF ClientOK
  <2>2. CASE c \notin DOMAIN left
    <3>1. count[c] = 0 \/ count[c] * token <= (clock - MaxDelay) * rate
      BY <1>3, <1>5, <2>2 DEF ClientOK
    <3>2. count[c] * token \in Nat /\ t * rate \in Nat
      BY <1>2, <1>3
    <3>3. (clock - MaxDelay) * rate <= t * rate /\ (clock - MaxDelay) * rate \in Int
      <4>1. clock - MaxDelay \in Int /\ clock - MaxDelay <= t
        BY <1>2
      <4> QED
        BY <1>2, <4>1, Monotone, Distributes
    <3>4. count[c] * token <= t * rate
      <4>1. CASE count[c] = 0
        BY <1>2, <3>2, <4>1
      <4>2. CASE count[c] * token <= (clock - MaxDelay) * rate
        BY <3>2, <3>3, <4>2
      <4> QED
        BY <3>1, <4>1, <4>2
    <3> QED
      BY <1>2, <2>2, <3>2, <3>4, NewPaid
  <2> QED
    BY <2>1, <2>2
<1>6. more \in [Clients -> Nat] /\ \A d \in Clients \ {c} : more[d] = count[d]
  BY <1>3
<1>7. more[c] = IF Allows(b, t) THEN count[c] + 1 ELSE count[c]
  BY <1>3
<1>8. /\ allow(b, t) \in TokenBucket
      /\ allow(b, t).last_refill = IF t <= b.last_refill THEN b.last_refill ELSE t
  BY <1>2, <1>4, AllowTyped
<1>9. Seen(table[c])
  <2>1. table[c] \in ClientBucket /\ table[c].bucket = allow(b, t) /\ table[c].last_seen = t
    BY <1>1, <1>2, <1>8 DEF ClientBucket
  <2> HIDE DEF table
  <2> QED
    BY <1>2, <1>4, <1>8, <2>1 DEF Seen
<1>10. ASSUME Proviso PROVE Paid(allow(b, t), burst, more[c] * token)
  BY <1>2, <1>3, <1>5, <1>7, <1>10, AllowPaid
<1> HIDE DEF table
<1>11. ClientOK(table, more, c)
  BY <1>1, <1>9, <1>10 DEF ClientOK
<1>12. ASSUME NEW d \in Clients \ {c} PROVE ClientOK(table, more, d)
  <2>1. ClientOK(left, count, d)
    BY DEF TableOK
  <2> QED
    BY <1>1, <1>6, <2>1 DEF ClientOK
<1>13. TableOK(table, more)
  BY <1>1, <1>3, <1>6, <1>11, <1>12 DEF TableOK
<1> QED
  BY <1>1, <1>13 DEF table

-----------------------------------------------------------------------------
(* The inductive invariant of the limiters *)

Labels == {"new", "match", "reserve", "lookup", "handler", "done"}

LimiterTyped ==
    /\ clock \in 0 .. MaxTime
    /\ owner \in [Shards -> Requests \cup {Nobody}]
    /\ pc \in [Requests -> Labels]
    /\ since \in [Requests -> 0 .. MaxTime]
    /\ now \in [Requests -> 0 .. MaxTime]
    /\ current_count \in [Requests -> Nat]
    /\ client \in [Requests -> Clients \cup {Nobody}]
    /\ global_allowed \in Nat

\* No reading in use is older than MaxDelay.
Readers == \A r \in Requests : Recent(since[r]) /\ (pc[r] = "reserve" => Recent(now[r]))

\* A request that reserves a key holds the shard of its client, which has no bucket.
Holders ==
    \A r \in Requests : pc[r] = "reserve" =>
        /\ client[r] \in Clients /\ owner[shard_of[client[r]]] = r
        /\ client[r] \notin DOMAIN buckets

KeyTable ==
    /\ IsFiniteSet(DOMAIN buckets) /\ key_count = Cardinality(DOMAIN buckets)
    /\ key_count <= max_keys

GlobalPaid ==
    /\ Paid(global_bucket, global_burst, global_allowed * token)
    /\ global_bucket.last_refill <= clock

LimiterInv == LimiterTyped /\ Readers /\ Holders /\ KeyTable /\ GlobalPaid /\ TableOK(buckets, allowed)

LEMMA ReadingRecent ==
  ASSUME LimiterInv, NEW r \in Requests, NEW t \in Readings(r)
  PROVE  Recent(t) /\ t \in 0 .. MaxTime
<1>1. /\ since[r] \in Nat /\ since[r] <= clock /\ clock - since[r] <= MaxDelay
      /\ clock \in 0 .. MaxTime /\ MaxDelay \in Nat /\ MaxTime \in Nat
  BY RouterLimits DEF LimiterInv, Readers, Recent, LimiterTyped
<1>2. t \in since[r] .. clock
  BY DEF Readings
<1> QED
  BY <1>1, <1>2 DEF Recent

\* Goto moves one request and gives it a fresh reading.
LEMMA GotoMoves ==
  ASSUME LimiterInv, NEW r \in Requests, NEW label \in Labels, Goto(r, label)
  PROVE  /\ clock' = clock /\ clock' \in 0 .. MaxTime
         /\ pc' \in [Requests -> Labels] /\ pc'[r] = label
         /\ \A q \in Requests \ {r} : pc'[q] = pc[q]
         /\ since' \in [Requests -> 0 .. MaxTime]
         /\ \A q \in Requests : Recent(since'[q])
<1>1. /\ pc' = [pc EXCEPT ![r] = label] /\ clock' = clock
      /\ since' = [since EXCEPT ![r] = IF label = "done" THEN since[r] ELSE clock]
      /\ pc \in [Requests -> Labels] /\ since \in [Requests -> 0 .. MaxTime] /\ clock \in 0 .. MaxTime
  BY DEF Goto, LimiterInv, LimiterTyped
<1>2. Recent(clock) /\ \A q \in Requests : Recent(since[q])
  BY <1>1, Bounds DEF LimiterInv, Readers, Recent
<1> QED
  BY <1>1, <1>2

\* TableOK and Paid look at the clock only.
LEMMA TableStays ==
  ASSUME clock' = clock, TableOK(buckets', allowed')
  PROVE  TableOK(buckets, allowed)'
  BY DEF TableOK, ClientOK, Seen

\* A step that leaves the limiters alone.
LEMMA PassesLimiters ==
  ASSUME LimiterInv, NEW r \in Requests, NEW label \in Labels, Goto(r, label),
         pc[r] # "reserve", label # "reserve", UNCHANGED <<globalVars, limiterVars>>
  PROVE  LimiterInv'
<1>1. UNCHANGED <<buckets, key_count, owner, client, now, current_count, allowed, global_bucket, global_allowed>>
  BY DEF globalVars, limiterVars
<1>2. /\ clock' = clock /\ clock' \in 0 .. MaxTime
      /\ pc' \in [Requests -> Labels] /\ pc'[r] = label
      /\ \A q \in Requests \ {r} : pc'[q] = pc[q]
      /\ since' \in [Requests -> 0 .. MaxTime]
      /\ \A q \in Requests : Recent(since'[q])
  BY GotoMoves
<1>3. LimiterTyped'
  BY <1>1, <1>2 DEF LimiterInv, LimiterTyped
<1>4. Readers'
  BY <1>1, <1>2 DEF LimiterInv, Readers, Recent
<1>5. Holders' /\ KeyTable'
  BY <1>1, <1>2 DEF LimiterInv, Holders, KeyTable
<1>6. GlobalPaid'
  BY <1>1, <1>2 DEF LimiterInv, GlobalPaid, Paid
<1>7. TableOK(buckets, allowed)'
  BY <1>1, <1>2, TableStays DEF LimiterInv
<1> QED
  BY <1>3, <1>4, <1>5, <1>6, <1>7 DEF LimiterInv

LEMMA TickKeeps ==
  ASSUME LimiterInv, Tick
  PROVE  LimiterInv'
<1>1. /\ clock < MaxTime /\ clock' = clock + 1
      /\ \A r \in Requests : pc[r] = "reserve" => clock - now[r] < MaxDelay
      /\ since' = [r \in Requests |-> IF clock' - since[r] > MaxDelay THEN clock' - MaxDelay ELSE since[r]]
      /\ UNCHANGED <<buckets, key_count, owner, client, now, current_count, allowed, global_bucket,
                     global_allowed, pc>>
  BY DEF Tick, globalVars, limiterVars
<1>2. clock \in Nat /\ MaxDelay \in Nat /\ MaxTime \in Nat /\ clock' \in 0 .. MaxTime
  BY <1>1, Bounds DEF LimiterInv, LimiterTyped
<1>3. \A r \in Requests : /\ since[r] \in Nat /\ since[r] <= clock /\ clock - since[r] <= MaxDelay
                          /\ pc[r] = "reserve" => now[r] \in Nat /\ now[r] <= clock /\ clock - now[r] <= MaxDelay
  BY DEF LimiterInv, Readers, Recent
<1>4. \A r \in Requests : since'[r] \in 0 .. MaxTime /\ since'[r] <= clock' /\ clock' - since'[r] <= MaxDelay
  BY <1>1, <1>2, <1>3
<1>5. LimiterTyped'
  BY <1>1, <1>2, <1>4 DEF LimiterInv, LimiterTyped
<1>6. Readers'
  <2>1. SUFFICES ASSUME NEW r \in Requests
                 PROVE  Recent(since[r])' /\ (pc'[r] = "reserve" => Recent(now[r])')
    BY DEF Readers
  <2>2. Recent(since[r])'
    BY <1>2, <1>4 DEF Recent
  <2>3. ASSUME pc'[r] = "reserve" PROVE Recent(now[r])'
    BY <1>1, <1>2, <1>3, <2>3 DEF Recent
  <2> QED
    BY <2>2, <2>3
<1>7. Holders' /\ KeyTable'
  BY <1>1 DEF LimiterInv, Holders, KeyTable
<1>8. GlobalPaid'
  <2>1. global_bucket.last_refill \in Nat /\ global_bucket.last_refill <= clock
    BY DEF LimiterInv, GlobalPaid, Paid, TokenBucket
  <2> QED
    BY <1>1, <1>2, <2>1 DEF LimiterInv, GlobalPaid, Paid
<1>9. TableOK(buckets, allowed)'
  <2>1. ASSUME NEW c \in Clients PROVE ClientOK(buckets, allowed, c)'
    <3>1. ClientOK(buckets, allowed, c) /\ allowed[c] \in Nat
      BY DEF LimiterInv, TableOK
    <3>2. CASE c \in DOMAIN buckets
      <4>1. Seen(buckets[c]) /\ (Proviso => Paid(buckets[c].bucket, burst, allowed[c] * token))
        BY <3>1, <3>2 DEF ClientOK
      <4>2. buckets[c].bucket.last_refill \in Nat
        BY <4>1 DEF Seen, ClientBucket, TokenBucket
      <4>3. Seen(buckets[c])'
        BY <1>1, <1>2, <4>1, <4>2 DEF Seen
      <4> QED
        BY <1>1, <3>2, <4>1, <4>3 DEF ClientOK, Paid
    <3>3. CASE c \notin DOMAIN buckets
      <4>1. (clock - MaxDelay) * rate <= (clock' - MaxDelay) * rate
        <5>1. clock - MaxDelay \in Int /\ clock' - MaxDelay \in Int /\ clock - MaxDelay <= clock' - MaxDelay
          BY <1>1, <1>2
        <5> QED
          BY <5>1, Limits, Monotone
      <4>2. (clock - MaxDelay) * rate \in Int /\ (clock' - MaxDelay) * rate \in Int /\ allowed[c] * token \in Int
        BY <1>1, <1>2, <3>1, Limits
      <4>3. Proviso => allowed[c] = 0 \/ allowed[c] * token <= (clock - MaxDelay) * rate
        BY <3>1, <3>3 DEF ClientOK
      <4>4. Proviso => allowed[c] = 0 \/ allowed[c] * token <= (clock' - MaxDelay) * rate
        BY <4>1, <4>2, <4>3
      <4> QED
        BY <1>1, <3>3, <4>4 DEF ClientOK
    <3> QED
      BY <3>2, <3>3
  <2> QED
    BY <1>1, <2>1 DEF LimiterInv, TableOK
<1> QED
  BY <1>5, <1>6, <1>7, <1>8, <1>9 DEF LimiterInv

LEMMA GlobalKeeps ==
  ASSUME LimiterInv, NEW r \in Requests, CheckGlobal(r)
  PROVE  LimiterInv'
<1>1. PICK t \in Readings(r) :
         /\ global_bucket' = allow(global_bucket, t)
         /\ IF Allows(global_bucket, t) THEN Goto(r, "match") /\ global_allowed' = global_allowed + 1
            ELSE Goto(r, "done") /\ global_allowed' = global_allowed
  BY DEF CheckGlobal, Answer
<1>2. pc[r] = "new" /\ UNCHANGED <<buckets, key_count, owner, client, now, current_count, allowed>>
  BY DEF CheckGlobal, limiterVars
<1>3. PICK label \in {"match", "done"} : Goto(r, label)
  BY <1>1
<1>4. /\ clock' = clock /\ clock' \in 0 .. MaxTime
      /\ pc' \in [Requests -> Labels] /\ pc'[r] = label
      /\ \A q \in Requests \ {r} : pc'[q] = pc[q]
      /\ since' \in [Requests -> 0 .. MaxTime]
      /\ \A q \in Requests : Recent(since'[q])
  BY <1>3, GotoMoves DEF Labels
<1>5. Recent(t) /\ t \in Nat /\ t <= clock /\ clock \in Nat
  BY ReadingRecent, Bounds DEF Recent, LimiterInv, LimiterTyped
<1>6. GlobalPaid'
  <2>1. /\ Paid(global_bucket, global_burst, global_allowed * token)
        /\ global_bucket.last_refill \in Nat /\ global_bucket.last_refill <= clock
        /\ global_allowed \in Nat
    BY DEF LimiterInv, GlobalPaid, Paid, TokenBucket, LimiterTyped
  <2>2. Paid(global_bucket', global_burst, global_allowed' * token)
    BY <1>1, <1>5, <2>1, AllowPaid, Limits
  <2>3. global_bucket'.last_refill <= clock'
    BY <1>1, <1>4, <1>5, <2>1, AllowPaid, Limits
  <2> QED
    BY <2>2, <2>3 DEF GlobalPaid, Paid
<1>7. LimiterTyped'
  <2>1. global_allowed' \in Nat
    BY <1>1 DEF LimiterInv, LimiterTyped
  <2> QED
    BY <1>2, <1>4, <2>1 DEF LimiterInv, LimiterTyped
<1>8. Readers'
  BY <1>2, <1>3, <1>4 DEF LimiterInv, Readers, Recent
<1>9. Holders' /\ KeyTable'
  BY <1>2, <1>3, <1>4 DEF LimiterInv, Holders, KeyTable
<1>10. TableOK(buckets, allowed)'
  BY <1>2, <1>4, TableStays DEF LimiterInv
<1> QED
  BY <1>6, <1>7, <1>8, <1>9, <1>10 DEF LimiterInv


\* One answered check: the shard is released and the client's bucket kept.
LEMMA DecideKeeps ==
  ASSUME LimiterInv, NEW r \in Requests, NEW c \in Clients, NEW left, NEW b, NEW t,
         Decide(r, c, left, b, t), UNCHANGED globalVars,
         Recent(t), TableOK(left, allowed), DOMAIN left \subseteq DOMAIN buckets,
         b = IF c \in DOMAIN left THEN left[c].bucket ELSE NewBucket(burst, t),
         owner[shard_of[c]] \in {Nobody, r},
         IsFiniteSet(DOMAIN left), key_count' = Cardinality(DOMAIN left \cup {c}), key_count' <= max_keys
  PROVE  LimiterInv'
<1>1. /\ buckets' = Checked(left, c, b, t)
      /\ owner' = [owner EXCEPT ![shard_of[c]] = Nobody]
      /\ client' = [client EXCEPT ![r] = Nobody]
      /\ now' = [now EXCEPT ![r] = 0]
      /\ current_count' = [current_count EXCEPT ![r] = 0]
      /\ allowed' = IF Allows(b, t) THEN [allowed EXCEPT ![c] = @ + 1] ELSE allowed
      /\ global_bucket' = global_bucket /\ global_allowed' = global_allowed
  BY DEF Decide, LeaveCheck, Answer, globalVars
<1>2. PICK label \in {"lookup", "done"} : Goto(r, label)
  BY DEF Decide, Answer
<1>3. /\ clock' = clock /\ clock' \in 0 .. MaxTime
      /\ pc' \in [Requests -> Labels] /\ pc'[r] = label
      /\ \A q \in Requests \ {r} : pc'[q] = pc[q]
      /\ since' \in [Requests -> 0 .. MaxTime]
      /\ \A q \in Requests : Recent(since'[q])
  BY <1>2, GotoMoves DEF Labels
<1>4. shard_of \in [Clients -> Shards] /\ Nobody \notin Requests /\ 0 \in 0 .. MaxTime
  <2>1. MaxTime \in Nat
    BY RouterLimits
  <2> QED
    BY <2>1, RateLimitConfig, RouterLimits
<1>5. LimiterTyped'
  <2>1. owner' \in [Shards -> Requests \cup {Nobody}] /\ client' \in [Requests -> Clients \cup {Nobody}]
    BY <1>1, <1>4 DEF LimiterInv, LimiterTyped
  <2>2. now' \in [Requests -> 0 .. MaxTime] /\ current_count' \in [Requests -> Nat]
    BY <1>1, <1>4 DEF LimiterInv, LimiterTyped
  <2> QED
    BY <1>1, <1>3, <2>1, <2>2 DEF LimiterInv, LimiterTyped
<1>6. Readers'
  <2>1. SUFFICES ASSUME NEW q \in Requests
                 PROVE  Recent(since[q])' /\ (pc'[q] = "reserve" => Recent(now[q])')
    BY DEF Readers
  <2>2. Recent(since[q])'
    BY <1>3 DEF Recent
  <2>3. ASSUME pc'[q] = "reserve" PROVE Recent(now[q])'
    <3>1. q # r /\ pc[q] = "reserve" /\ now'[q] = now[q]
      BY <1>1, <1>3, <2>3 DEF LimiterInv, LimiterTyped
    <3> QED
      BY <1>3, <3>1 DEF LimiterInv, Readers, Recent
  <2> QED
    BY <2>2, <2>3
<1>7. /\ DOMAIN buckets' = DOMAIN left \cup {c}
      /\ TableOK(buckets', allowed')
  <2> DEFINE more == allowed'
  <2>1. clock \in 0 .. MaxTime /\ more = IF Allows(b, t) THEN [allowed EXCEPT ![c] = @ + 1] ELSE allowed
    BY <1>1 DEF LimiterInv, LimiterTyped
  <2> HIDE DEF more
  <2>2. DOMAIN Checked(left, c, b, t) = DOMAIN left \cup {c} /\ TableOK(Checked(left, c, b, t), more)
    BY <2>1, CheckedOK
  <2> QED
    BY <1>1, <2>2 DEF more
<1>8. Holders'
  <2>1. SUFFICES ASSUME NEW q \in Requests, pc'[q] = "reserve"
                 PROVE  /\ client'[q] \in Clients /\ owner'[shard_of[client'[q]]] = q
                        /\ client'[q] \notin DOMAIN buckets'
    BY DEF Holders
  <2>2. q # r /\ pc[q] = "reserve" /\ client'[q] = client[q]
    BY <1>1, <1>3, <2>1 DEF LimiterInv, LimiterTyped
  <2>3. client[q] \in Clients /\ owner[shard_of[client[q]]] = q /\ client[q] \notin DOMAIN buckets
    BY <2>2 DEF LimiterInv, Holders
  <2>4. shard_of[client[q]] # shard_of[c]
    BY <1>4, <2>2, <2>3
  <2>5. owner'[shard_of[client[q]]] = q
    BY <1>1, <1>4, <2>3, <2>4 DEF LimiterInv, LimiterTyped
  <2> QED
    BY <1>7, <2>2, <2>3, <2>4, <2>5
<1>9. KeyTable'
  BY <1>7, FS_AddElement DEF KeyTable
<1>10. GlobalPaid'
  BY <1>1, <1>3 DEF LimiterInv, GlobalPaid, Paid
<1>11. TableOK(buckets, allowed)'
  BY <1>3, <1>7, TableStays
<1> QED
  BY <1>5, <1>6, <1>8, <1>9, <1>10, <1>11 DEF LimiterInv

LEMMA CheckKeeps ==
  ASSUME LimiterInv, NEW r \in Requests, NEW c \in Clients, CheckClient(r, c)
  PROVE  LimiterInv'
<1> DEFINE s == shard_of[c]
<1>1. pc[r] = "match" /\ owner[s] = Nobody /\ UNCHANGED globalVars
  BY DEF CheckClient
<1>2. PICK t \in Readings(r) :
         LET gone == Expired(buckets, s, t)
             left == Without(buckets, gone)
         IN  /\ key_count' = key_count - Cardinality(gone)
             /\ \/ /\ c \in DOMAIN left
                   /\ Decide(r, c, left, left[c].bucket, t)
                \/ /\ c \notin DOMAIN left
                   /\ buckets' = left
                   /\ owner' = [owner EXCEPT ![s] = r]
                   /\ client' = [client EXCEPT ![r] = c]
                   /\ now' = [now EXCEPT ![r] = t]
                   /\ current_count' = [current_count EXCEPT ![r] = key_count']
                   /\ Goto(r, "reserve")
                   /\ allowed' = allowed
  BY DEF CheckClient
<1> DEFINE gone == Expired(buckets, s, t)
           left == Without(buckets, gone)
<1>3. Recent(t) /\ t \in 0 .. MaxTime
  BY ReadingRecent
<1>4. /\ DOMAIN left = DOMAIN buckets \ gone /\ TableOK(left, allowed)
  BY <1>3, PrunedOK DEF LimiterInv, LimiterTyped
<1>5. key_count' = key_count - Cardinality(gone)
  BY <1>2
<1>6. gone \subseteq DOMAIN buckets
  BY DEF Expired
<1>7. \/ c \in DOMAIN left /\ Decide(r, c, left, left[c].bucket, t)
      \/ /\ c \notin DOMAIN left
         /\ buckets' = left
         /\ owner' = [owner EXCEPT ![s] = r]
         /\ client' = [client EXCEPT ![r] = c]
         /\ now' = [now EXCEPT ![r] = t]
         /\ current_count' = [current_count EXCEPT ![r] = key_count']
         /\ Goto(r, "reserve")
         /\ allowed' = allowed
  BY <1>2
<1> HIDE DEF gone, left
<1>8. /\ IsFiniteSet(DOMAIN left) /\ key_count' = Cardinality(DOMAIN left)
      /\ key_count' \in Nat /\ key_count' <= max_keys
  <2>1. /\ IsFiniteSet(DOMAIN buckets) /\ key_count = Cardinality(DOMAIN buckets)
        /\ key_count <= max_keys
    BY DEF LimiterInv, KeyTable
  <2>2. IsFiniteSet(gone) /\ Cardinality(gone) \in Nat /\ Cardinality(gone) <= key_count
    BY <1>6, <2>1, FS_Subset, FS_CardinalityType
  <2>3. IsFiniteSet(DOMAIN left) /\ Cardinality(DOMAIN left) = key_count - Cardinality(DOMAIN buckets \cap gone)
    BY <1>4, <2>1, FS_Difference
  <2>4. DOMAIN buckets \cap gone = gone
    BY <1>6
  <2>5. key_count \in Nat /\ max_keys \in Nat
    BY <2>1, FS_CardinalityType, Limits
  <2> QED
    BY <1>5, <2>1, <2>2, <2>3, <2>4, <2>5
<1>9. CASE c \in DOMAIN left /\ Decide(r, c, left, left[c].bucket, t)
  <2>1. DOMAIN left \cup {c} = DOMAIN left /\ DOMAIN left \subseteq DOMAIN buckets
    BY <1>4, <1>9
  <2> DEFINE b == left[c].bucket
  <2>2. Decide(r, c, left, b, t) /\ b = IF c \in DOMAIN left THEN left[c].bucket ELSE NewBucket(burst, t)
    BY <1>9
  <2> HIDE DEF b
  <2> QED
    BY <1>1, <1>3, <1>4, <1>8, <2>1, <2>2, DecideKeeps
<1>10. ASSUME /\ c \notin DOMAIN left
              /\ buckets' = left
              /\ owner' = [owner EXCEPT ![s] = r]
              /\ client' = [client EXCEPT ![r] = c]
              /\ now' = [now EXCEPT ![r] = t]
              /\ current_count' = [current_count EXCEPT ![r] = key_count']
              /\ Goto(r, "reserve")
              /\ allowed' = allowed
       PROVE  LimiterInv'
  <2>1. /\ clock' = clock /\ clock' \in 0 .. MaxTime
        /\ pc' \in [Requests -> Labels] /\ pc'[r] = "reserve"
        /\ \A q \in Requests \ {r} : pc'[q] = pc[q]
        /\ since' \in [Requests -> 0 .. MaxTime]
        /\ \A q \in Requests : Recent(since'[q])
    BY <1>10, GotoMoves DEF Labels
  <2>2. s \in Shards /\ shard_of \in [Clients -> Shards] /\ Nobody \notin Requests
        /\ global_bucket' = global_bucket /\ global_allowed' = global_allowed
    BY <1>1, RateLimitConfig, RouterLimits DEF globalVars
  <2>3. LimiterTyped'
    <3>1. owner' \in [Shards -> Requests \cup {Nobody}] /\ client' \in [Requests -> Clients \cup {Nobody}]
      BY <1>10, <2>2 DEF LimiterInv, LimiterTyped
    <3>2. now' \in [Requests -> 0 .. MaxTime] /\ current_count' \in [Requests -> Nat]
      BY <1>3, <1>8, <1>10 DEF LimiterInv, LimiterTyped
    <3> QED
      BY <2>1, <2>2, <3>1, <3>2 DEF LimiterInv, LimiterTyped
  <2>4. Readers'
    <3>1. SUFFICES ASSUME NEW q \in Requests
                   PROVE  Recent(since[q])' /\ (pc'[q] = "reserve" => Recent(now[q])')
      BY DEF Readers
    <3>2. Recent(since[q])'
      BY <2>1 DEF Recent
    <3>3. now'[q] = IF q = r THEN t ELSE now[q]
      BY <1>10 DEF LimiterInv, LimiterTyped
    <3>4. CASE q = r
      BY <1>3, <2>1, <3>2, <3>3, <3>4 DEF Recent
    <3>5. CASE q # r
      BY <2>1, <3>2, <3>3, <3>5 DEF LimiterInv, Readers, Recent
    <3> QED
      BY <3>4, <3>5
  <2>5. Holders'
    <3>1. SUFFICES ASSUME NEW q \in Requests, pc'[q] = "reserve"
                   PROVE  /\ client'[q] \in Clients /\ owner'[shard_of[client'[q]]] = q
                          /\ client'[q] \notin DOMAIN buckets'
      BY DEF Holders
    <3>2. CASE q = r
      BY <1>10, <2>2, <3>2 DEF LimiterInv, LimiterTyped
    <3>3. CASE q # r
      <4>1. pc[q] = "reserve" /\ client'[q] = client[q]
        BY <1>10, <2>1, <3>1, <3>3 DEF LimiterInv, LimiterTyped
      <4>2. client[q] \in Clients /\ owner[shard_of[client[q]]] = q /\ client[q] \notin DOMAIN buckets
        BY <4>1 DEF LimiterInv, Holders
      <4>3. shard_of[client[q]] # s /\ shard_of[client[q]] \in Shards
        BY <1>1, <2>2, <4>2
      <4>4. owner'[shard_of[client[q]]] = q
        BY <1>10, <4>2, <4>3 DEF LimiterInv, LimiterTyped
      <4> QED
        BY <1>4, <1>10, <4>1, <4>2, <4>4
    <3> QED
      BY <3>2, <3>3
  <2>6. KeyTable'
    BY <1>8, <1>10 DEF KeyTable
  <2>7. GlobalPaid'
    BY <2>1, <2>2 DEF LimiterInv, GlobalPaid, Paid
  <2>8. TableOK(buckets, allowed)'
    BY <1>4, <1>10, <2>1, TableStays
  <2> QED
    BY <2>3, <2>4, <2>5, <2>6, <2>7, <2>8 DEF LimiterInv
<1> QED
  BY <1>7, <1>9, <1>10

LEMMA ReserveKeeps ==
  ASSUME LimiterInv, NEW r \in Requests, ReserveKey(r)
  PROVE  LimiterInv'
<1>1. /\ pc[r] = "reserve" /\ current_count[r] < max_keys /\ key_count = current_count[r]
      /\ key_count' = key_count + 1 /\ UNCHANGED globalVars
      /\ Decide(r, client[r], buckets, NewBucket(burst, now[r]), now[r])
  BY DEF ReserveKey
<1> DEFINE c == client[r]
           b == NewBucket(burst, now[r])
<1>2. c \in Clients /\ owner[shard_of[c]] = r /\ c \notin DOMAIN buckets /\ Recent(now[r])
  BY <1>1 DEF LimiterInv, Holders, Readers
<1>3. /\ IsFiniteSet(DOMAIN buckets) /\ key_count = Cardinality(DOMAIN buckets)
      /\ key_count \in Nat /\ max_keys \in Nat
  BY FS_CardinalityType, Limits DEF LimiterInv, KeyTable
<1>4. key_count' = Cardinality(DOMAIN buckets \cup {c}) /\ key_count' <= max_keys
  <2>1. Cardinality(DOMAIN buckets \cup {c}) = Cardinality(DOMAIN buckets) + 1
    BY <1>2, <1>3, FS_AddElement
  <2>2. current_count[r] \in Nat
    BY <1>1, <1>3
  <2> QED
    BY <1>1, <1>3, <2>1, <2>2
<1>5. /\ Decide(r, c, buckets, b, now[r])
      /\ b = IF c \in DOMAIN buckets THEN buckets[c].bucket ELSE NewBucket(burst, now[r])
      /\ TableOK(buckets, allowed)
  BY <1>1, <1>2 DEF LimiterInv
<1> HIDE DEF b, c
<1> QED
  BY <1>1, <1>2, <1>3, <1>4, <1>5, DecideKeeps

LEMMA RetryKeeps ==
  ASSUME LimiterInv, NEW r \in Requests, RetryReserve(r)
  PROVE  LimiterInv'
<1>1. /\ current_count' = [current_count EXCEPT ![r] = key_count]
      /\ UNCHANGED <<clock, global_bucket, global_allowed, buckets, key_count, owner, client, now, allowed,
                     pc, since>>
  BY DEF RetryReserve, globalVars
<1>2. key_count \in Nat
  BY FS_CardinalityType DEF LimiterInv, KeyTable
<1>3. current_count' \in [Requests -> Nat]
  BY <1>1, <1>2 DEF LimiterInv, LimiterTyped
<1>4. LimiterTyped'
  BY <1>1, <1>3 DEF LimiterInv, LimiterTyped
<1>5. Readers' /\ Holders' /\ KeyTable'
  BY <1>1 DEF LimiterInv, Readers, Recent, Holders, KeyTable
<1>6. GlobalPaid'
  BY <1>1 DEF LimiterInv, GlobalPaid, Paid
<1>7. TableOK(buckets, allowed)'
  BY <1>1, TableStays DEF LimiterInv
<1> QED
  BY <1>4, <1>5, <1>6, <1>7 DEF LimiterInv

LEMMA ExhaustedKeeps ==
  ASSUME LimiterInv, NEW r \in Requests, KeysExhausted(r)
  PROVE  LimiterInv'
<1>1. /\ pc[r] = "reserve" /\ Goto(r, "done")
      /\ owner' = [owner EXCEPT ![shard_of[client[r]]] = Nobody]
      /\ client' = [client EXCEPT ![r] = Nobody]
      /\ now' = [now EXCEPT ![r] = 0]
      /\ current_count' = [current_count EXCEPT ![r] = 0]
      /\ UNCHANGED <<global_bucket, global_allowed, buckets, key_count, allowed>>
  BY DEF KeysExhausted, LeaveCheck, Answer, globalVars
<1>2. /\ clock' = clock /\ clock' \in 0 .. MaxTime
      /\ pc' \in [Requests -> Labels] /\ pc'[r] = "done"
      /\ \A q \in Requests \ {r} : pc'[q] = pc[q]
      /\ since' \in [Requests -> 0 .. MaxTime]
      /\ \A q \in Requests : Recent(since'[q])
  BY <1>1, GotoMoves DEF Labels
<1>3. client[r] \in Clients /\ owner[shard_of[client[r]]] = r /\ Nobody \notin Requests
      /\ shard_of \in [Clients -> Shards]
  BY <1>1, RouterLimits, RateLimitConfig DEF LimiterInv, Holders
<1>4. LimiterTyped'
  <2>1. owner' \in [Shards -> Requests \cup {Nobody}] /\ client' \in [Requests -> Clients \cup {Nobody}]
    BY <1>1 DEF LimiterInv, LimiterTyped
  <2>2. now' \in [Requests -> 0 .. MaxTime] /\ current_count' \in [Requests -> Nat]
    <3>1. 0 \in 0 .. MaxTime
      BY Bounds DEF LimiterInv, LimiterTyped
    <3> QED
      BY <1>1, <3>1 DEF LimiterInv, LimiterTyped
  <2> QED
    BY <1>1, <1>2, <2>1, <2>2 DEF LimiterInv, LimiterTyped
<1>5. Readers'
  <2>1. SUFFICES ASSUME NEW q \in Requests
                 PROVE  Recent(since[q])' /\ (pc'[q] = "reserve" => Recent(now[q])')
    BY DEF Readers
  <2>2. Recent(since[q])'
    BY <1>2 DEF Recent
  <2>3. ASSUME pc'[q] = "reserve" PROVE Recent(now[q])'
    <3>1. q # r /\ pc[q] = "reserve" /\ now'[q] = now[q]
      BY <1>1, <1>2, <2>3 DEF LimiterInv, LimiterTyped
    <3> QED
      BY <1>2, <3>1 DEF LimiterInv, Readers, Recent
  <2> QED
    BY <2>2, <2>3
<1>6. Holders'
  <2>1. SUFFICES ASSUME NEW q \in Requests, pc'[q] = "reserve"
                 PROVE  /\ client'[q] \in Clients /\ owner'[shard_of[client'[q]]] = q
                        /\ client'[q] \notin DOMAIN buckets'
    BY DEF Holders
  <2>2. q # r /\ pc[q] = "reserve" /\ client'[q] = client[q]
    BY <1>1, <1>2, <2>1 DEF LimiterInv, LimiterTyped
  <2>3. client[q] \in Clients /\ owner[shard_of[client[q]]] = q /\ client[q] \notin DOMAIN buckets
    BY <2>2 DEF LimiterInv, Holders
  <2>4. owner'[shard_of[client[q]]] = q
    BY <1>1, <1>3, <2>2, <2>3 DEF LimiterInv, LimiterTyped
  <2> QED
    BY <1>1, <2>2, <2>3, <2>4
<1>7. KeyTable' /\ GlobalPaid'
  BY <1>1, <1>2 DEF LimiterInv, KeyTable, GlobalPaid, Paid
<1>8. TableOK(buckets, allowed)'
  BY <1>1, <1>2, TableStays DEF LimiterInv
<1> QED
  BY <1>4, <1>5, <1>6, <1>7, <1>8 DEF LimiterInv


LEMMA LimiterInit == Init => LimiterInv
<1> SUFFICES ASSUME Init PROVE LimiterInv
  OBVIOUS
<1>1. /\ clock = 0 /\ global_bucket = NewBucket(global_burst, 0) /\ buckets = [c \in {} |-> 0] /\ key_count = 0
      /\ owner = [s \in Shards |-> Nobody] /\ pc = [r \in Requests |-> "new"]
      /\ since = [r \in Requests |-> 0] /\ client = [r \in Requests |-> Nobody]
      /\ now = [r \in Requests |-> 0] /\ current_count = [r \in Requests |-> 0]
      /\ allowed = [c \in Clients |-> 0] /\ global_allowed = 0
  BY DEF Init
<1>2. MaxTime \in Nat /\ MaxDelay \in Nat /\ 0 \in 0 .. MaxTime
  <2>1. MaxTime \in Nat /\ MaxDelay \in Nat
    BY RouterLimits
  <2> QED
    BY <2>1
<1>3. LimiterTyped
  BY <1>1, <1>2 DEF LimiterTyped, Labels
<1>4. Readers /\ Holders
  BY <1>1, <1>2 DEF Readers, Recent, Holders
<1>5. KeyTable
  <2>1. DOMAIN buckets = {} /\ max_keys \in Nat
    BY <1>1, Limits
  <2> QED
    BY <1>1, <2>1, FS_EmptySet DEF KeyTable
<1>6. GlobalPaid
  <2>1. 0 * rate = 0 /\ 0 * token = 0 /\ global_burst \in Nat
    BY Limits
  <2>2. Paid(NewBucket(global_burst, 0), global_burst, 0)
    BY <2>1, NewPaid
  <2>3. NewBucket(global_burst, 0).last_refill = 0
    BY DEF NewBucket
  <2> QED
    BY <1>1, <2>1, <2>2, <2>3 DEF GlobalPaid
<1>7. TableOK(buckets, allowed)
  BY <1>1 DEF TableOK, ClientOK
<1> QED
  BY <1>3, <1>4, <1>5, <1>6, <1>7 DEF LimiterInv

LEMMA LimiterStep == LimiterInv /\ [Next]_vars => LimiterInv'
<1> SUFFICES ASSUME LimiterInv, [Next]_vars PROVE LimiterInv'
  OBVIOUS
<1>1. CASE Tick
  BY <1>1, TickKeeps
<1>2. ASSUME NEW r \in Requests, CheckGlobal(r) PROVE LimiterInv'
  BY <1>2, GlobalKeeps
<1>3. ASSUME NEW r \in Requests, NoRoute(r) PROVE LimiterInv'
  <2>1. pc[r] = "match" /\ Goto(r, "done") /\ UNCHANGED <<globalVars, limiterVars>>
    BY <1>3 DEF NoRoute, Answer
  <2> QED
    BY <2>1, PassesLimiters DEF Labels
<1>4. ASSUME NEW r \in Requests, NEW c \in Clients, CheckClient(r, c) PROVE LimiterInv'
  BY <1>4, CheckKeeps
<1>5. ASSUME NEW r \in Requests, ReserveKey(r) PROVE LimiterInv'
  BY <1>5, ReserveKeeps
<1>6. ASSUME NEW r \in Requests, RetryReserve(r) PROVE LimiterInv'
  BY <1>6, RetryKeeps
<1>7. ASSUME NEW r \in Requests, KeysExhausted(r) PROVE LimiterInv'
  BY <1>7, ExhaustedKeeps
<1>8. ASSUME NEW r \in Requests, NEW q \in Request, Lookup(r, q) PROVE LimiterInv'
  <2>1. pc[r] = "lookup" /\ UNCHANGED <<globalVars, limiterVars>>
    BY <1>8 DEF Lookup
  <2>2. Goto(r, "handler") \/ Goto(r, "done")
    BY <1>8 DEF Lookup, Answer
  <2> QED
    BY <2>1, <2>2, PassesLimiters DEF Labels
<1>9. ASSUME NEW r \in Requests, Store(r) PROVE LimiterInv'
  <2>1. pc[r] = "handler" /\ Goto(r, "done") /\ UNCHANGED <<globalVars, limiterVars>>
    BY <1>9 DEF Store, Answer
  <2> QED
    BY <2>1, PassesLimiters DEF Labels
<1>10. CASE UNCHANGED vars
  <2>1. UNCHANGED <<clock, global_bucket, global_allowed, buckets, key_count, owner, client, now, allowed,
                    current_count, pc, since>>
    BY <1>10 DEF vars
  <2>2. LimiterTyped' /\ Readers' /\ Holders' /\ KeyTable'
    BY <2>1 DEF LimiterInv, LimiterTyped, Readers, Recent, Holders, KeyTable
  <2>3. GlobalPaid'
    BY <2>1 DEF LimiterInv, GlobalPaid, Paid
  <2>4. TableOK(buckets, allowed)'
    BY <2>1, TableStays DEF LimiterInv
  <2> QED
    BY <2>2, <2>3, <2>4 DEF LimiterInv
<1> QED
  BY <1>1, <1>2, <1>3, <1>4, <1>5, <1>6, <1>7, <1>8, <1>9, <1>10 DEF Next

\* A bucket's spending is bounded by the clock.
LEMMA WithinRate ==
  ASSUME clock \in 0 .. MaxTime, NEW b, NEW size \in Nat, NEW spent, Paid(b, size, spent), b.last_refill <= clock
  PROVE  spent <= size + clock * rate
<1>1. /\ b.last_refill \in Nat /\ b.available_tokens \in Nat /\ spent \in Nat
      /\ spent + b.available_tokens <= size + b.last_refill * rate
  BY DEF Paid, TokenBucket
<1>2. clock \in Nat /\ rate \in Nat
  BY Bounds, Limits
<1>3. b.last_refill * rate <= clock * rate /\ b.last_refill * rate \in Int /\ clock * rate \in Int
  BY <1>1, <1>2, Monotone
<1> DEFINE x == b.last_refill * rate
           y == clock * rate
<1>4. spent + b.available_tokens <= size + x /\ x <= y /\ x \in Int /\ y \in Int
  BY <1>1, <1>3
<1> HIDE DEF x, y
<1>5. spent <= size + y
  BY <1>1, <1>4
<1> QED
  BY <1>5 DEF y

LEMMA LimiterInvMeans == LimiterInv => KeysCounted /\ RateBounded
<1> SUFFICES ASSUME LimiterInv PROVE KeysCounted /\ RateBounded
  OBVIOUS
<1>1. KeysCounted
  BY DEF LimiterInv, KeyTable, KeysCounted
<1>2. clock \in 0 .. MaxTime /\ clock \in Nat /\ MaxDelay \in Nat
  BY Bounds DEF LimiterInv, LimiterTyped
<1>3. global_allowed * token <= global_burst + clock * rate
  BY <1>2, Limits, WithinRate DEF LimiterInv, GlobalPaid
<1>4. ASSUME Proviso, NEW c \in Clients PROVE allowed[c] * token <= burst + clock * rate
  <2>1. ClientOK(buckets, allowed, c) /\ allowed[c] \in Nat
    BY DEF LimiterInv, TableOK
  <2>2. CASE c \in DOMAIN buckets
    BY <1>2, <1>4, <2>1, <2>2, Limits, WithinRate DEF ClientOK, Seen
  <2>3. CASE c \notin DOMAIN buckets
    <3>1. allowed[c] = 0 \/ allowed[c] * token <= (clock - MaxDelay) * rate
      BY <1>4, <2>1, <2>3 DEF ClientOK
    <3>2. (clock - MaxDelay) * rate <= clock * rate /\ (clock - MaxDelay) * rate \in Int
          /\ clock * rate \in Nat
      BY <1>2, Limits, Monotone
    <3>3. burst \in Nat /\ allowed[c] * token \in Nat /\ (allowed[c] = 0 => allowed[c] * token = 0)
      BY <2>1, Limits
    <3> QED
      BY <3>1, <3>2, <3>3
  <2> QED
    BY <2>2, <2>3
<1>5. RateBounded
  BY <1>3, <1>4 DEF RateBounded, Proviso
<1> QED
  BY <1>1, <1>5


-----------------------------------------------------------------------------
(* One shard of the cache *)

\* What put() has let in: an answer to a GET request, for everybody.
Entry == {e \in [key : Keys, response : Response, expires_at : Nat, charge : Nat] :
             /\ e.response.made_for.key = e.key /\ e.response.made_for.kind = "get"
             /\ e.response.status = 200 /\ ~e.response.sensitive}

\* h[i] is what the first i entries weigh.
Charged(lru, h) ==
    /\ h \in [0 .. Len(lru) -> Nat] /\ h[0] = 0
    /\ \A i \in 1 .. Len(lru) : h[i] = h[i - 1] + lru[i].charge

LEMMA ListFacts ==
  ASSUME NEW lru \in Seq(Entry)
  PROVE  /\ Len(lru) \in Nat /\ DOMAIN lru = 1 .. Len(lru)
         /\ \A i \in 1 .. Len(lru) : lru[i] \in Entry /\ lru[i].charge \in Nat /\ lru[i].key \in Keys
<1>1. Len(lru) \in Nat /\ DOMAIN lru = 1 .. Len(lru) /\ \A i \in 1 .. Len(lru) : lru[i] \in Entry
  BY LenProperties, ElementOfSeq
<1>2. \A e \in Entry : e.charge \in Nat /\ e.key \in Keys
  BY DEF Entry
<1> QED
  BY <1>1, <1>2

LEMMA ChargesGrow ==
  ASSUME NEW lru \in Seq(Entry), NEW h, Charged(lru, h), NEW i \in 0 .. Len(lru), NEW j \in i .. Len(lru)
  PROVE  h[i] <= h[j] /\ h[i] \in Nat /\ h[j] \in Nat
<1> DEFINE n == Len(lru)
           Bad == {k \in i .. n : ~(h[i] <= h[k])}
<1>1. n \in Nat /\ \A k \in 1 .. n : lru[k].charge \in Nat
  BY ListFacts
<1>2. /\ \A k \in 0 .. n : h[k] \in Nat
      /\ \A k \in 1 .. n : h[k] = h[k - 1] + lru[k].charge
  BY DEF Charged
<1> HIDE DEF n
<1>3. i \in 0 .. n /\ j \in i .. n
  BY DEF n
<1>4. ASSUME Bad # {} PROVE FALSE
  <2>1. Bad \subseteq Nat
    BY <1>1, <1>3
  <2>2. PICK m \in Bad : \A k \in Bad : m <= k
    BY <1>4, <2>1, LeastNat
  <2>3. m \in i .. n /\ ~(h[i] <= h[m]) /\ m # i
    BY <1>1, <1>2, <1>3, <2>2
  <2>4. m - 1 \in i .. n /\ m - 1 \in 0 .. n /\ m \in 1 .. n /\ m \in 0 .. n /\ ~(m <= m - 1)
    BY <1>1, <1>3, <2>3
  <2>5. h[i] <= h[m - 1]
    BY <2>2, <2>4
  <2>6. h[m] = h[m - 1] + lru[m].charge /\ lru[m].charge \in Nat /\ h[m - 1] \in Nat /\ h[i] \in Nat
    BY <1>1, <1>2, <1>3, <2>4
  <2> QED
    BY <2>3, <2>5, <2>6
<1>5. h[i] <= h[j]
  BY <1>3, <1>4
<1>6. j \in 0 .. n
  BY <1>1, <1>3
<1> QED
  BY <1>2, <1>3, <1>5, <1>6

\* The recursive sum agrees with any function that adds up the same way.
LEMMA SumUnique ==
  ASSUME NEW lru, NEW i \in Nat \ {0}, NEW j \in Nat, NEW h \in [0 .. j -> Int],
         \A n \in 0 .. j : h[n] = IF n < i THEN 0 ELSE h[n - 1] + lru[n].charge
  PROVE  Bytes(lru, i, j) = h[j]
<1> DEFINE P(f) == f = [n \in 0 .. j |-> IF n < i THEN 0 ELSE f[n - 1] + lru[n].charge]
           sum == CHOOSE f : P(f)
<1>1. P(h)
  OBVIOUS
<1>2. P(sum)
  BY <1>1
<1>3. Bytes(lru, i, j) = sum[j]
  BY DEF Bytes
<1>4. \A n \in 0 .. j : sum[n] = IF n < i THEN 0 ELSE sum[n - 1] + lru[n].charge
  BY <1>2
<1> HIDE DEF sum
<1> DEFINE Bad == {n \in 0 .. j : sum[n] # h[n]}
<1>5. ASSUME Bad # {} PROVE FALSE
  <2>1. Bad \subseteq Nat
    OBVIOUS
  <2>2. PICK m \in Bad : \A n \in Bad : m <= n
    BY <1>5, <2>1, LeastNat
  <2>3. CASE m < i
    BY <1>4, <2>2, <2>3
  <2>4. CASE m >= i
    <3>1. m - 1 \in 0 .. j /\ ~(m <= m - 1)
      BY <2>2, <2>4
    <3>2. sum[m - 1] = h[m - 1]
      BY <2>2, <3>1
    <3> QED
      BY <1>4, <2>2, <2>4, <3>2
  <2> QED
    BY <2>2, <2>3, <2>4
<1> QED
  BY <1>3, <1>5

LEMMA BytesOf ==
  ASSUME NEW lru \in Seq(Entry), NEW h, Charged(lru, h), NEW n \in 0 .. Len(lru)
  PROVE  Bytes(lru, n + 1, Len(lru)) = h[Len(lru)] - h[n]
<1> DEFINE l == Len(lru)
           g == [k \in 0 .. l |-> IF k < n + 1 THEN 0 ELSE h[k] - h[n]]
<1>1. l \in Nat
  BY ListFacts
<1>2. /\ \A k \in 0 .. l : h[k] \in Nat
      /\ \A k \in 1 .. l : h[k] = h[k - 1] + lru[k].charge /\ lru[k].charge \in Nat
  BY ListFacts DEF Charged
<1> HIDE DEF l
<1>3. n \in 0 .. l
  BY DEF l
<1>4. g \in [0 .. l -> Int]
  BY <1>1, <1>2, <1>3
<1>5. ASSUME NEW k \in 0 .. l PROVE g[k] = IF k < n + 1 THEN 0 ELSE g[k - 1] + lru[k].charge
  <2>1. CASE k < n + 1
    BY <2>1
  <2>2. CASE ~(k < n + 1)
    <3>1. k \in 1 .. l /\ k - 1 \in 0 .. l /\ g[k] = h[k] - h[n]
      BY <1>1, <1>3, <2>2
    <3>2. h[k] = h[k - 1] + lru[k].charge /\ lru[k].charge \in Nat /\ h[k - 1] \in Nat /\ h[n] \in Nat
      BY <1>2, <1>3, <3>1
    <3>3. CASE k - 1 < n + 1
      <4>1. k - 1 = n /\ g[k - 1] = 0
        BY <1>3, <2>2, <3>1, <3>3
      <4>2. h[k] - h[n] = lru[k].charge
        BY <3>2, <4>1
      <4> QED
        BY <2>2, <3>1, <3>2, <4>1, <4>2
    <3>4. CASE ~(k - 1 < n + 1)
      <4>1. g[k - 1] = h[k - 1] - h[n]
        BY <3>1, <3>4
      <4> QED
        BY <2>2, <3>1, <3>2, <4>1
    <3> QED
      BY <3>3, <3>4
  <2> QED
    BY <2>1, <2>2
<1>6. n + 1 \in Nat \ {0}
  BY <1>1, <1>3
<1>7. g[l] = h[l] - h[n]
  BY <1>1, <1>2, <1>3
<1> HIDE DEF g
<1>8. Bytes(lru, n + 1, l) = g[l]
  BY <1>1, <1>4, <1>5, <1>6, SumUnique
<1> QED
  BY <1>7, <1>8 DEF l


\* The byte count is the sum of the charges, the index holds each key once.
Books(lru, index, bytes) ==
    /\ \E h : Charged(lru, h) /\ bytes = h[Len(lru)]
    /\ index = {lru[i].key : i \in 1 .. Len(lru)}
    /\ \A i, j \in 1 .. Len(lru) : lru[i].key = lru[j].key => i = j

LEMMA RemovedList ==
  ASSUME NEW lru \in Seq(Entry), NEW i \in 1 .. Len(lru)
  PROVE  /\ RemoveAt(lru, i) \in Seq(Entry) /\ Len(RemoveAt(lru, i)) = Len(lru) - 1
         /\ \A j \in 1 .. Len(lru) - 1 : RemoveAt(lru, i)[j] = lru[IF j < i THEN j ELSE j + 1]
<1> DEFINE n == Len(lru)
           a == SubSeq(lru, 1, i - 1)
           b == SubSeq(lru, i + 1, n)
<1>1. n \in Nat /\ \A k \in 1 .. n : lru[k] \in Entry
  BY ListFacts
<1> HIDE DEF n
<1>2. i \in 1 .. n
  BY DEF n
<1>3. a \in Seq(Entry) /\ Len(a) = i - 1 /\ \A k \in 1 .. i - 1 : a[k] = lru[k]
  <2>1. \A k \in 1 .. i - 1 : lru[k] \in Entry
    BY <1>1, <1>2
  <2>2. /\ a \in Seq(Entry) /\ Len(a) = IF 1 <= i - 1 THEN (i - 1) - 1 + 1 ELSE 0
        /\ \A k \in 1 .. (i - 1) - 1 + 1 : a[k] = lru[1 + k - 1]
    BY <1>2, <2>1, SubSeqProperties
  <2> HIDE DEF a
  <2> QED
    BY <1>1, <1>2, <2>2
<1>4. b \in Seq(Entry) /\ Len(b) = n - i /\ \A k \in 1 .. n - i : b[k] = lru[i + k]
  <2>1. \A k \in i + 1 .. n : lru[k] \in Entry
    BY <1>1, <1>2
  <2>2. /\ b \in Seq(Entry) /\ Len(b) = IF i + 1 <= n THEN n - (i + 1) + 1 ELSE 0
        /\ \A k \in 1 .. n - (i + 1) + 1 : b[k] = lru[(i + 1) + k - 1]
    BY <1>1, <1>2, <2>1, SubSeqProperties
  <2> HIDE DEF b
  <2> QED
    BY <1>1, <1>2, <2>2
<1>5. RemoveAt(lru, i) = a \o b
  BY DEF RemoveAt, n
<1> HIDE DEF a, b
<1>6. /\ a \o b \in Seq(Entry) /\ Len(a \o b) = Len(a) + Len(b)
      /\ \A k \in 1 .. Len(a) + Len(b) : (a \o b)[k] = IF k <= Len(a) THEN a[k] ELSE b[k - Len(a)]
  BY <1>3, <1>4, ConcatProperties
<1>7. Len(a) + Len(b) = n - 1
  BY <1>1, <1>2, <1>3, <1>4
<1>8. ASSUME NEW j \in 1 .. n - 1 PROVE (a \o b)[j] = lru[IF j < i THEN j ELSE j + 1]
  <2>1. CASE j < i
    BY <1>1, <1>2, <1>3, <1>6, <1>7, <2>1
  <2>2. CASE ~(j < i)
    <3>1. j - (i - 1) \in 1 .. n - i /\ i + (j - (i - 1)) = j + 1 /\ ~(j <= i - 1)
      BY <1>1, <1>2, <2>2
    <3>2. (a \o b)[j] = b[j - (i - 1)]
      BY <1>3, <1>6, <1>7, <3>1
    <3>3. b[j - (i - 1)] = lru[i + (j - (i - 1))]
      BY <1>4, <3>1
    <3> QED
      BY <2>2, <3>1, <3>2, <3>3
  <2> QED
    BY <2>1, <2>2
<1> QED
  BY <1>5, <1>6, <1>7, <1>8 DEF n

LEMMA RemovedBooks ==
  ASSUME NEW lru \in Seq(Entry), NEW index, NEW bytes, Books(lru, index, bytes), NEW i \in 1 .. Len(lru)
  PROVE  /\ Books(RemoveAt(lru, i), index \ {lru[i].key}, bytes - lru[i].charge)
         /\ bytes - lru[i].charge \in Nat /\ bytes - lru[i].charge <= bytes
<1> DEFINE n == Len(lru)
           rest == RemoveAt(lru, i)
           w == lru[i].charge
<1>1. /\ n \in Nat /\ i \in 1 .. n
      /\ \A k \in 1 .. n : lru[k] \in Entry /\ lru[k].charge \in Nat /\ lru[k].key \in Keys
  BY ListFacts
<1>2. rest \in Seq(Entry) /\ Len(rest) = n - 1 /\ \A j \in 1 .. n - 1 : rest[j] = lru[IF j < i THEN j ELSE j + 1]
  BY RemovedList
<1>3. PICK h : Charged(lru, h) /\ bytes = h[n]
  BY DEF Books
<1>4. /\ \A k \in 0 .. n : h[k] \in Nat /\ h[0] = 0
      /\ \A k \in 1 .. n : h[k] = h[k - 1] + lru[k].charge
  BY <1>3 DEF Charged
<1>5. \A j \in i .. n : h[i] <= h[j]
  BY <1>1, <1>3, ChargesGrow
<1>6. w \in Nat /\ h[i] = h[i - 1] + w /\ h[i - 1] \in Nat /\ \A j \in i .. n : h[j] - w \in Nat
  <2>1. w \in Nat /\ h[i] = h[i - 1] + w /\ h[i - 1] \in Nat
    BY <1>1, <1>4
  <2> HIDE DEF w, n
  <2>2. ASSUME NEW j \in i .. n PROVE h[j] - w \in Nat
    <3>1. h[j] \in Nat /\ h[i] <= h[j]
      BY <1>1, <1>4, <1>5
    <3> QED
      BY <2>1, <3>1
  <2> QED
    BY <2>1, <2>2
<1> DEFINE g == [j \in 0 .. n - 1 |-> IF j < i THEN h[j] ELSE h[j + 1] - w]
<1>7. Charged(rest, g)
  <2> HIDE DEF rest, w, n
  <2>1. g \in [0 .. n - 1 -> Nat] /\ g[0] = 0
    <3>1. ASSUME NEW j \in 0 .. n - 1 PROVE g[j] \in Nat
      <4>1. CASE j < i
        BY <1>1, <1>4, <4>1
      <4>2. CASE ~(j < i)
        <5>1. j + 1 \in i .. n
          BY <1>1, <4>2
        <5> QED
          BY <1>6, <4>2, <5>1
      <4> QED
        BY <4>1, <4>2
    <3>2. g[0] = 0
      BY <1>1, <1>4
    <3> QED
      BY <3>1, <3>2
  <2>2. ASSUME NEW j \in 1 .. n - 1 PROVE g[j] = g[j - 1] + rest[j].charge
    <3>1. CASE j < i
      <4>1. j \in 1 .. n /\ j - 1 \in 0 .. n - 1 /\ j \in 0 .. n - 1 /\ j - 1 < i
        BY <1>1, <3>1
      <4>2. rest[j] = lru[j] /\ g[j] = h[j] /\ g[j - 1] = h[j - 1]
        BY <1>2, <3>1, <4>1
      <4> QED
        BY <1>4, <4>1, <4>2
    <3>2. CASE ~(j < i)
      <4>1. j + 1 \in 1 .. n /\ j - 1 \in 0 .. n - 1 /\ j \in 0 .. n - 1 /\ j \in 0 .. n /\ (j + 1) - 1 = j
        BY <1>1, <3>2
      <4>2. rest[j] = lru[j + 1] /\ g[j] = h[j + 1] - w
        BY <1>2, <3>2, <4>1
      <4>3. h[j + 1] = h[j] + lru[j + 1].charge /\ h[j] \in Nat /\ lru[j + 1].charge \in Nat
        BY <1>1, <1>4, <4>1
      <4>4. g[j - 1] = h[j] - w
        <5>1. CASE j = i
          <6>1. g[j - 1] = h[i - 1]
            BY <1>1, <4>1, <5>1
          <6> QED
            BY <1>6, <4>3, <5>1, <6>1
        <5>2. CASE j # i
          <6>1. ~(j - 1 < i) /\ (j - 1) + 1 = j
            BY <1>1, <3>2, <5>2
          <6> QED
            BY <4>1, <6>1
        <5> QED
          BY <5>1, <5>2
      <4> QED
        BY <1>6, <4>2, <4>3, <4>4
    <3> QED
      BY <3>1, <3>2
  <2> HIDE DEF g
  <2> QED
    BY <1>2, <2>1, <2>2 DEF Charged
<1>8. g[Len(rest)] = bytes - w
  <2> HIDE DEF rest, w, n
  <2>1. CASE i = n
    <3>1. g[n - 1] = h[n - 1]
      BY <1>1, <2>1
    <3> QED
      BY <1>2, <1>3, <1>6, <2>1, <3>1
  <2>2. CASE i # n
    <3>1. n - 1 \in 0 .. n - 1 /\ ~(n - 1 < i) /\ (n - 1) + 1 = n
      BY <1>1, <2>2
    <3> QED
      BY <1>2, <1>3, <3>1
  <2> QED
    BY <2>1, <2>2
<1>9. bytes - w \in Nat /\ bytes - w <= bytes
  <2> HIDE DEF w, n
  <2>1. n \in i .. n /\ h[n] \in Nat
    BY <1>1, <1>4
  <2> QED
    BY <1>3, <1>6, <2>1
<1>10. \A j, k \in 1 .. n - 1 : rest[j].key = rest[k].key => j = k
  <2> DEFINE at(j) == IF j < i THEN j ELSE j + 1
  <2>1. \A j \in 1 .. n - 1 : at(j) \in 1 .. n /\ rest[j] = lru[at(j)]
    BY <1>1, <1>2
  <2>2. \A j, k \in 1 .. n - 1 : at(j) = at(k) => j = k
    BY <1>1
  <2> HIDE DEF at, rest
  <2> QED
    BY <2>1, <2>2 DEF Books
<1>11. index \ {lru[i].key} = {rest[j].key : j \in 1 .. n - 1}
  <2>1. index = {lru[j].key : j \in 1 .. n} /\ \A j, k \in 1 .. n : lru[j].key = lru[k].key => j = k
    BY DEF Books
  <2> HIDE DEF rest, n
  <2>2. ASSUME NEW x \in {rest[j].key : j \in 1 .. n - 1} PROVE x \in index \ {lru[i].key}
    <3>1. PICK j \in 1 .. n - 1 : x = rest[j].key
      OBVIOUS
    <3>2. PICK k \in 1 .. n : k # i /\ rest[j] = lru[k]
      <4>1. CASE j < i
        <5>1. j \in 1 .. n /\ j # i /\ rest[j] = lru[j]
          BY <1>1, <1>2, <4>1
        <5> QED
          BY <5>1
      <4>2. CASE ~(j < i)
        <5>1. j + 1 \in 1 .. n /\ j + 1 # i /\ rest[j] = lru[j + 1]
          BY <1>1, <1>2, <4>2
        <5> QED
          BY <5>1
      <4> QED
        BY <4>1, <4>2
    <3> QED
      BY <1>1, <2>1, <3>1, <3>2
  <2>3. ASSUME NEW x \in index \ {lru[i].key} PROVE x \in {rest[j].key : j \in 1 .. n - 1}
    <3>1. PICK k \in 1 .. n : x = lru[k].key
      BY <2>1
    <3>2. k # i
      BY <3>1
    <3>3. \E j \in 1 .. n - 1 : rest[j] = lru[k]
      <4>1. CASE k < i
        <5>1. k \in 1 .. n - 1 /\ rest[k] = lru[k]
          BY <1>1, <1>2, <4>1
        <5> QED
          BY <5>1
      <4>2. CASE ~(k < i)
        <5>1. k - 1 \in 1 .. n - 1 /\ ~(k - 1 < i) /\ (k - 1) + 1 = k
          BY <1>1, <3>2, <4>2
        <5>2. rest[k - 1] = lru[k]
          BY <1>2, <5>1
        <5> QED
          BY <5>1, <5>2
      <4> QED
        BY <4>1, <4>2
    <3> QED
      BY <3>1, <3>3
  <2> QED
    BY <2>2, <2>3
<1>12. Books(rest, index \ {lru[i].key}, bytes - w)
  <2> HIDE DEF rest, w, g, n
  <2>1. \E f : Charged(rest, f) /\ bytes - w = f[Len(rest)]
    BY <1>7, <1>8
  <2> QED
    BY <1>2, <1>10, <1>11, <2>1 DEF Books
<1> QED
  BY <1>9, <1>12


LEMMA PushedList ==
  ASSUME NEW lru \in Seq(Entry), NEW e \in Entry
  PROVE  /\ <<e>> \o lru \in Seq(Entry) /\ Len(<<e>> \o lru) = Len(lru) + 1
         /\ (<<e>> \o lru)[1] = e
         /\ \A j \in 1 .. Len(lru) : (<<e>> \o lru)[j + 1] = lru[j]
<1>1. <<e>> \in Seq(Entry) /\ Len(<<e>>) = 1 /\ <<e>>[1] = e /\ Len(lru) \in Nat
  BY ListFacts
<1> DEFINE f == <<e>>
<1> HIDE DEF f
<1>2. f \in Seq(Entry) /\ Len(f) = 1 /\ f[1] = e
  BY <1>1 DEF f
<1>3. /\ f \o lru \in Seq(Entry) /\ Len(f \o lru) = Len(f) + Len(lru)
      /\ \A k \in 1 .. Len(f) + Len(lru) : (f \o lru)[k] = IF k <= Len(f) THEN f[k] ELSE lru[k - Len(f)]
  BY <1>2, ConcatProperties
<1>4. (f \o lru)[1] = e
  BY <1>1, <1>2, <1>3
<1>5. ASSUME NEW j \in 1 .. Len(lru) PROVE (f \o lru)[j + 1] = lru[j]
  <2>1. j + 1 \in 1 .. 1 + Len(lru) /\ ~(j + 1 <= 1) /\ (j + 1) - 1 = j
    BY <1>1
  <2> QED
    BY <1>2, <1>3, <2>1
<1>6. Len(f \o lru) = Len(lru) + 1
  BY <1>1, <1>2, <1>3
<1> QED
  BY <1>3, <1>4, <1>5, <1>6 DEF f

LEMMA PushedBooks ==
  ASSUME NEW lru \in Seq(Entry), NEW index, NEW bytes, Books(lru, index, bytes), NEW e \in Entry, e.key \notin index
  PROVE  Books(<<e>> \o lru, index \cup {e.key}, bytes + e.charge)
<1> DEFINE n == Len(lru)
           more == <<e>> \o lru
<1>1. n \in Nat /\ e.charge \in Nat
  BY ListFacts DEF Entry
<1>2. /\ more \in Seq(Entry) /\ Len(more) = n + 1
      /\ more[1] = e /\ \A j \in 1 .. n : more[j + 1] = lru[j]
  BY PushedList
<1>3. PICK h : Charged(lru, h) /\ bytes = h[n]
  BY DEF Books
<1>4. /\ h[0] = 0 /\ \A k \in 0 .. n : h[k] \in Nat
      /\ \A k \in 1 .. n : h[k] = h[k - 1] + lru[k].charge /\ lru[k].charge \in Nat
  BY <1>3, ListFacts DEF Charged
<1>5. index = {lru[i].key : i \in 1 .. n} /\ \A i, j \in 1 .. n : lru[i].key = lru[j].key => i = j
  BY DEF Books
<1> DEFINE g == [j \in 0 .. n + 1 |-> IF j = 0 THEN 0 ELSE h[j - 1] + e.charge]
<1> HIDE DEF more, n
<1>6. Charged(more, g)
  <2>1. g[0] = 0
    BY <1>1
  <2>2. ASSUME NEW j \in 0 .. n + 1 PROVE g[j] \in Nat
    <3>1. CASE j = 0
      BY <3>1
    <3>2. CASE j # 0
      <4>1. j - 1 \in 0 .. n
        BY <1>1, <3>2
      <4> QED
        BY <1>1, <1>4, <3>2, <4>1
    <3> QED
      BY <3>1, <3>2
  <2>3. ASSUME NEW j \in 1 .. n + 1 PROVE g[j] = g[j - 1] + more[j].charge
    <3>1. CASE j = 1
      BY <1>1, <1>2, <1>4, <3>1
    <3>2. CASE j # 1
      <4>1. j - 1 \in 1 .. n /\ j - 1 \in 0 .. n + 1 /\ (j - 1) + 1 = j /\ j - 1 # 0 /\ (j - 1) - 1 \in 0 .. n
            /\ j # 0 /\ j \in 0 .. n + 1 /\ j - 1 \in 0 .. n
        BY <1>1, <3>2
      <4>2. more[j] = lru[j - 1]
        BY <1>2, <4>1
      <4>3. g[j] = h[j - 1] + e.charge /\ g[j - 1] = h[(j - 1) - 1] + e.charge
        BY <4>1
      <4>4. h[j - 1] = h[(j - 1) - 1] + lru[j - 1].charge /\ lru[j - 1].charge \in Nat /\ h[(j - 1) - 1] \in Nat
        BY <1>4, <4>1
      <4> QED
        BY <1>1, <4>2, <4>3, <4>4
    <3> QED
      BY <3>1, <3>2
  <2>4. g \in [0 .. n + 1 -> Nat]
    BY <2>2
  <2> HIDE DEF g
  <2> QED
    BY <1>2, <2>1, <2>3, <2>4 DEF Charged
<1>7. g[Len(more)] = bytes + e.charge
  <2>1. n + 1 \in 0 .. n + 1 /\ n + 1 # 0 /\ (n + 1) - 1 = n
    BY <1>1
  <2> QED
    BY <1>2, <1>3, <2>1
<1>8. \A k \in 1 .. n + 1 : k = 1 \/ (k - 1 \in 1 .. n /\ more[k] = lru[k - 1])
  <2>1. SUFFICES ASSUME NEW k \in 1 .. n + 1, k # 1 PROVE k - 1 \in 1 .. n /\ more[k] = lru[k - 1]
    OBVIOUS
  <2>2. k - 1 \in 1 .. n /\ (k - 1) + 1 = k
    BY <1>1, <2>1
  <2> QED
    BY <1>2, <2>2
<1>9. index \cup {e.key} = {more[k].key : k \in 1 .. n + 1}
  <2>1. ASSUME NEW x \in {more[k].key : k \in 1 .. n + 1} PROVE x \in index \cup {e.key}
    BY <1>2, <1>5, <1>8
  <2>2. ASSUME NEW x \in index \cup {e.key} PROVE x \in {more[k].key : k \in 1 .. n + 1}
    <3>1. CASE x = e.key
      <4>1. 1 \in 1 .. n + 1
        BY <1>1
      <4> QED
        BY <1>2, <3>1, <4>1
    <3>2. CASE x \in index
      <4>1. PICK i \in 1 .. n : x = lru[i].key
        BY <1>5, <3>2
      <4>2. i + 1 \in 1 .. n + 1 /\ more[i + 1] = lru[i]
        BY <1>1, <1>2
      <4> QED
        BY <4>1, <4>2
    <3> QED
      BY <3>1, <3>2
  <2> QED
    BY <2>1, <2>2
<1>10. ASSUME NEW j \in 1 .. n + 1, NEW k \in 1 .. n + 1, more[j].key = more[k].key PROVE j = k
  <2>1. ASSUME NEW m \in 1 .. n + 1, m # 1 PROVE more[m].key # e.key
    BY <1>5, <1>8, <2>1
  <2>2. CASE j = 1 \/ k = 1
    BY <1>2, <1>10, <2>1, <2>2
  <2>3. CASE j # 1 /\ k # 1
    <3>1. j - 1 = k - 1
      BY <1>5, <1>8, <1>10, <2>3
    <3> QED
      BY <1>1, <3>1
  <2> QED
    BY <2>2, <2>3
<1>11. \E f : Charged(more, f) /\ bytes + e.charge = f[Len(more)]
  BY <1>6, <1>7
<1>12. Books(more, index \cup {e.key}, bytes + e.charge)
  BY <1>2, <1>9, <1>10, <1>11 DEF Books
<1> QED
  BY <1>12 DEF more

LEMMA CutList ==
  ASSUME NEW lru \in Seq(Entry), NEW n \in 0 .. Len(lru)
  PROVE  /\ SubSeq(lru, 1, n) \in Seq(Entry) /\ Len(SubSeq(lru, 1, n)) = n
         /\ \A k \in 1 .. n : SubSeq(lru, 1, n)[k] = lru[k]
<1> DEFINE a == SubSeq(lru, 1, n)
<1>1. Len(lru) \in Nat /\ n \in Int /\ \A k \in 1 .. n : lru[k] \in Entry
  BY ListFacts
<1>2. /\ a \in Seq(Entry) /\ Len(a) = IF 1 <= n THEN n - 1 + 1 ELSE 0
      /\ \A k \in 1 .. n - 1 + 1 : a[k] = lru[1 + k - 1]
  BY <1>1, SubSeqProperties
<1> HIDE DEF a
<1>3. Len(a) = n /\ \A k \in 1 .. n : a[k] = lru[k]
  BY <1>1, <1>2
<1> QED
  BY <1>2, <1>3 DEF a

\* The keys of index that none of the entries behind the n-th has.
InFront(keys, index, lru, n) ==
    \A x : x \in keys <=> x \in index /\ \A i \in n + 1 .. Len(lru) : x # lru[i].key

LEMMA CutBooks ==
  ASSUME NEW lru \in Seq(Entry), NEW index, NEW bytes, Books(lru, index, bytes), NEW n \in 0 .. Len(lru),
         NEW keys, InFront(keys, index, lru, n)
  PROVE  /\ Books(SubSeq(lru, 1, n), keys, bytes - Bytes(lru, n + 1, Len(lru)))
         /\ bytes - Bytes(lru, n + 1, Len(lru)) \in Nat
         /\ n = 0 => bytes - Bytes(lru, n + 1, Len(lru)) = 0
<1> DEFINE l == Len(lru)
           gone == Bytes(lru, n + 1, l)
           a == SubSeq(lru, 1, n)
<1>1. l \in Nat /\ n \in 0 .. l
  BY ListFacts
<1>2. a \in Seq(Entry) /\ Len(a) = n /\ \A k \in 1 .. n : a[k] = lru[k]
  BY CutList
<1>3. PICK h : Charged(lru, h) /\ bytes = h[l]
  BY DEF Books
<1>4. gone = h[l] - h[n]
  BY <1>3, BytesOf
<1>5. h[0] = 0 /\ h[n] <= h[l] /\ h[n] \in Nat /\ h[l] \in Nat
  <2>1. l \in n .. l
    BY <1>1
  <2>2. h[n] <= h[l] /\ h[n] \in Nat /\ h[l] \in Nat
    BY <1>3, <2>1, ChargesGrow
  <2> QED
    BY <1>3, <2>2 DEF Charged
<1>6. index = {lru[i].key : i \in 1 .. l} /\ \A i, j \in 1 .. l : lru[i].key = lru[j].key => i = j
  BY DEF Books
<1>7. /\ h \in [0 .. l -> Nat]
      /\ \A i \in 1 .. l : h[i] = h[i - 1] + lru[i].charge
  BY <1>3 DEF Charged
<1> HIDE DEF gone, a, l
<1> DEFINE g == [k \in 0 .. n |-> h[k]]
<1>8. Charged(a, g) /\ g[Len(a)] = bytes - gone
  <2>1. \A k \in 0 .. n : k \in 0 .. l /\ g[k] = h[k] /\ h[k] \in Nat
    BY <1>1, <1>7
  <2>2. g \in [0 .. n -> Nat] /\ g[0] = 0 /\ g[n] = h[n]
    BY <1>1, <1>5, <2>1
  <2>3. ASSUME NEW k \in 1 .. n PROVE g[k] = g[k - 1] + a[k].charge
    <3>1. k \in 0 .. n /\ k - 1 \in 0 .. n /\ k \in 1 .. l
      BY <1>1
    <3> QED
      BY <1>2, <1>7, <2>1, <3>1
  <2> HIDE DEF g
  <2>4. h[n] = bytes - gone
    BY <1>3, <1>4, <1>5
  <2> QED
    BY <1>2, <2>2, <2>3, <2>4 DEF Charged
<1>9. keys = {a[k].key : k \in 1 .. n}
  <2>1. \A i \in 1 .. l : i \in 1 .. n \/ i \in n + 1 .. l
    BY <1>1
  <2>2. \A i \in 1 .. n, j \in n + 1 .. l : i \in 1 .. l /\ j \in 1 .. l /\ i # j
    BY <1>1
  <2>3. \A x : x \in keys <=> x \in index /\ \A i \in n + 1 .. l : x # lru[i].key
    BY DEF InFront, l
  <2>4. ASSUME NEW x \in keys PROVE x \in {a[k].key : k \in 1 .. n}
    <3>1. PICK i \in 1 .. l : x = lru[i].key
      BY <1>6, <2>3
    <3>2. i \in 1 .. n
      BY <2>1, <2>3, <3>1
    <3> QED
      BY <1>2, <3>1, <3>2
  <2>5. ASSUME NEW x \in {a[k].key : k \in 1 .. n} PROVE x \in keys
    <3>1. PICK k \in 1 .. n : x = lru[k].key
      BY <1>2
    <3>2. k \in 1 .. l
      BY <1>1
    <3> QED
      BY <1>6, <2>2, <2>3, <3>1, <3>2
  <2> QED
    BY <2>4, <2>5
<1>10. \A i, j \in 1 .. n : a[i].key = a[j].key => i = j
  <2>1. \A i \in 1 .. n : i \in 1 .. l
    BY <1>1
  <2> QED
    BY <1>2, <1>6, <2>1
<1>11. Books(a, keys, bytes - gone)
  BY <1>2, <1>8, <1>9, <1>10 DEF Books
<1>12. bytes - gone \in Nat /\ (n = 0 => bytes - gone = 0)
  BY <1>3, <1>4, <1>5
<1> QED
  BY <1>11, <1>12 DEF gone, a, l


ShardOK(s) ==
    /\ s \in [lru : Seq(Entry), index : SUBSET Keys, current_bytes : Nat]
    /\ s.current_bytes <= max_bytes
    /\ Books(s.lru, s.index, s.current_bytes)

LEMMA CacheLimits ==
  /\ ttl \in Nat /\ max_bytes \in Nat /\ max_entry_bytes \in Nat /\ overhead \in Nat
  BY ResponseCacheConfig

LEMMA PositionOf ==
  ASSUME NEW s, ShardOK(s), NEW k \in s.index
  PROVE  /\ Position(s, k) \in 1 .. Len(s.lru) /\ s.lru[Position(s, k)].key = k
         /\ s.lru[Position(s, k)] \in Entry
<1>1. s.lru \in Seq(Entry) /\ s.index = {s.lru[i].key : i \in 1 .. Len(s.lru)}
  BY DEF ShardOK, Books
<1>2. DOMAIN s.lru = 1 .. Len(s.lru) /\ \A i \in 1 .. Len(s.lru) : s.lru[i] \in Entry
  BY <1>1, ListFacts
<1>3. \E i \in DOMAIN s.lru : KeyAt(s, i) = k
  BY <1>1, <1>2 DEF KeyAt
<1>4. Position(s, k) \in DOMAIN s.lru /\ KeyAt(s, Position(s, k)) = k
  BY <1>3 DEF Position
<1> QED
  BY <1>2, <1>4 DEF KeyAt

LEMMA EraseOK ==
  ASSUME NEW s, ShardOK(s), NEW k \in s.index
  PROVE  /\ ShardOK(erase(s, Position(s, k))) /\ erase(s, Position(s, k)).index = s.index \ {k}
         /\ erase(s, Position(s, k)).lru = RemoveAt(s.lru, Position(s, k))
         /\ erase(s, Position(s, k)).current_bytes = s.current_bytes - s.lru[Position(s, k)].charge
<1> DEFINE i == Position(s, k)
<1>1. i \in 1 .. Len(s.lru) /\ s.lru[i].key = k
  BY PositionOf
<1>2. /\ s.lru \in Seq(Entry) /\ s.index \subseteq Keys /\ s.current_bytes \in Nat
      /\ s.current_bytes <= max_bytes /\ Books(s.lru, s.index, s.current_bytes)
  BY DEF ShardOK
<1>3. erase(s, i) = [lru |-> RemoveAt(s.lru, i), index |-> s.index \ {k},
                     current_bytes |-> s.current_bytes - s.lru[i].charge]
  BY <1>1 DEF erase, KeyAt
<1> HIDE DEF i
<1>4. RemoveAt(s.lru, i) \in Seq(Entry)
  BY <1>1, <1>2, RemovedList
<1>5. /\ Books(RemoveAt(s.lru, i), s.index \ {k}, s.current_bytes - s.lru[i].charge)
      /\ s.current_bytes - s.lru[i].charge \in Nat
      /\ s.current_bytes - s.lru[i].charge <= s.current_bytes
  BY <1>1, <1>2, RemovedBooks
<1> DEFINE left == RemoveAt(s.lru, i)
           bytes == s.current_bytes - s.lru[i].charge
<1>6. bytes <= max_bytes
  BY <1>2, <1>5, CacheLimits
<1> HIDE DEF left, bytes
<1>7. ShardOK(erase(s, i)) /\ erase(s, i).index = s.index \ {k} /\ erase(s, i).lru = left /\ erase(s, i).current_bytes = bytes
  BY <1>2, <1>3, <1>4, <1>5, <1>6 DEF ShardOK, left, bytes
<1> QED
  BY <1>7 DEF i, left, bytes

\* A hit moves its entry to the front.
LEMMA GetOK ==
  ASSUME NEW s, ShardOK(s), NEW k, NEW t
  PROVE  ShardOK(get(s, k, t))
<1>1. CASE k \notin s.index
  BY <1>1 DEF get
<1>2. CASE k \in s.index /\ ~Hit(s, k, t)
  <2>1. get(s, k, t) = erase(s, Position(s, k))
    BY <1>2 DEF get
  <2> QED
    BY <1>2, <2>1, EraseOK
<1>3. CASE k \in s.index /\ Hit(s, k, t)
  <2> DEFINE i == Position(s, k)
             e == s.lru[i]
             rest == erase(s, i)
  <2>1. get(s, k, t) = [s EXCEPT !.lru = <<e>> \o RemoveAt(s.lru, i)]
    BY <1>3 DEF get
  <2>2. e \in Entry /\ e.key = k /\ e.charge \in Nat
    BY <1>3, PositionOf DEF Entry
  <2>3. /\ ShardOK(rest) /\ rest.index = s.index \ {k} /\ rest.lru = RemoveAt(s.lru, i)
        /\ rest.current_bytes = s.current_bytes - e.charge
    BY <1>3, EraseOK
  <2> HIDE DEF i, e, rest
  <2>4. rest.lru \in Seq(Entry) /\ Books(rest.lru, rest.index, rest.current_bytes)
    BY <2>3 DEF ShardOK
  <2>5. /\ s \in [lru : Seq(Entry), index : SUBSET Keys, current_bytes : Nat]
        /\ s.current_bytes \in Nat /\ s.current_bytes <= max_bytes
    BY DEF ShardOK
  <2>6. Books(<<e>> \o rest.lru, rest.index \cup {k}, rest.current_bytes + e.charge)
    BY <2>2, <2>3, <2>4, PushedBooks
  <2>7. rest.index \cup {k} = s.index /\ rest.current_bytes + e.charge = s.current_bytes
    BY <1>3, <2>2, <2>3, <2>5
  <2>8. <<e>> \o rest.lru \in Seq(Entry)
    BY <2>2, <2>4, PushedList
  <2> DEFINE front == <<e>> \o rest.lru
  <2>9. get(s, k, t) = [s EXCEPT !.lru = front]
    BY <2>1, <2>3
  <2>10. front \in Seq(Entry) /\ Books(front, s.index, s.current_bytes)
    BY <2>6, <2>7, <2>8
  <2> HIDE DEF front
  <2> QED
    BY <2>5, <2>9, <2>10 DEF ShardOK
<1> QED
  BY <1>1, <1>2, <1>3

\* The eviction loop stops, at the latest when the list is empty.
LEMMA KeptExists ==
  ASSUME NEW s, ShardOK(s), NEW size
  PROVE  Kept(s, size) \in 0 .. Len(s.lru) /\ (Kept(s, size) = 0 \/ Room(s, Kept(s, size), size))
<1> DEFINE l == Len(s.lru)
           Stops(n) == n = 0 \/ Room(s, n, size)
           T == {m \in 0 .. l : Stops(l - m)}
<1>1. l \in Nat
  BY ListFacts DEF ShardOK
<1> HIDE DEF l
<1>2. l \in T /\ T \subseteq Nat
  BY <1>1
<1>3. PICK m \in T : \A n \in T : m <= n
  BY <1>2, LeastNat
<1>4. l - m \in 0 .. l /\ Stops(l - m)
  BY <1>1, <1>3
<1>5. ASSUME NEW n \in (l - m) + 1 .. l PROVE ~Room(s, n, size)
  <2>1. l - n \in 0 .. l /\ l - (l - n) = n /\ ~(m <= l - n)
    BY <1>1, <1>3
  <2> QED
    BY <1>3, <2>1
<1>6. \E n \in 0 .. l : /\ n = 0 \/ Room(s, n, size)
                        /\ \A k \in n + 1 .. l : ~Room(s, k, size)
  BY <1>4, <1>5
<1> QED
  BY <1>6 DEF Kept, l

\* The loop leaves room for size bytes.
LEMMA EvictedOK ==
  ASSUME NEW s, ShardOK(s), NEW size \in Nat, size <= max_bytes
  PROVE  /\ ShardOK(Evicted(s, size)) /\ Evicted(s, size).index \subseteq s.index
         /\ Evicted(s, size).current_bytes <= max_bytes - size
<1> DEFINE n == Kept(s, size)
           lru == s.lru
           index == s.index
           before == s.current_bytes
           gone == Bytes(lru, n + 1, Len(lru))
           keys == index \ {lru[i].key : i \in n + 1 .. Len(lru)}
           cut == SubSeq(lru, 1, n)
           bytes == before - gone
<1>1. Evicted(s, size) = [lru |-> cut, index |-> keys, current_bytes |-> bytes]
  BY DEF Evicted, KeyAt
<1>2. n \in 0 .. Len(lru) /\ (n = 0 \/ bytes <= max_bytes - size)
  BY KeptExists DEF Room
<1>3. lru \in Seq(Entry) /\ index \subseteq Keys /\ Books(lru, index, before)
  BY DEF ShardOK
<1>4. InFront(keys, index, lru, n) /\ keys \subseteq index
  BY DEF InFront
<1> HIDE DEF n, lru, index, before, keys
<1>5. cut \in Seq(Entry)
  BY <1>2, <1>3, CutList
<1>6. Books(cut, keys, bytes) /\ bytes \in Nat /\ (n = 0 => bytes = 0)
  <2>1. n \in 0 .. Len(lru)
    BY <1>2
  <2>2. lru \in Seq(Entry)
    BY <1>3
  <2>3. Books(lru, index, before)
    BY <1>3
  <2>4. InFront(keys, index, lru, n)
    BY <1>4
  <2> QED
    BY <2>1, <2>2, <2>3, <2>4, CutBooks, Zenon
<1> HIDE DEF gone, cut, bytes
<1>7. bytes <= max_bytes - size /\ bytes <= max_bytes
  BY <1>2, <1>6, CacheLimits
<1> DEFINE left == Evicted(s, size)
<1>8. left.lru = cut /\ left.index = keys /\ left.current_bytes = bytes
      /\ left \in [lru : Seq(Entry), index : SUBSET Keys, current_bytes : Nat]
  BY <1>1, <1>3, <1>4, <1>5, <1>6
<1> HIDE DEF left
<1>9. ShardOK(left) /\ left.index \subseteq index /\ left.current_bytes <= max_bytes - size
  BY <1>4, <1>6, <1>7, <1>8 DEF ShardOK
<1> QED
  BY <1>9 DEF left, index

LEMMA InsertOK ==
  ASSUME NEW s, ShardOK(s), NEW e \in Entry, e.key \notin s.index, s.current_bytes + e.charge <= max_bytes
  PROVE  ShardOK([lru |-> <<e>> \o s.lru, index |-> s.index \cup {e.key},
                  current_bytes |-> s.current_bytes + e.charge])
<1>1. /\ s.lru \in Seq(Entry) /\ s.index \subseteq Keys /\ s.current_bytes \in Nat
      /\ Books(s.lru, s.index, s.current_bytes)
  BY DEF ShardOK
<1>2. e.key \in Keys /\ e.charge \in Nat
  BY DEF Entry
<1> DEFINE list == <<e>> \o s.lru
           known == s.index \cup {e.key}
           total == s.current_bytes + e.charge
<1>3. list \in Seq(Entry)
  BY <1>1, PushedList
<1>4. Books(list, known, total)
  BY <1>1, PushedBooks
<1>5. known \subseteq Keys /\ total \in Nat /\ total <= max_bytes
  BY <1>1, <1>2
<1> HIDE DEF list, known, total
<1>6. ShardOK([lru |-> list, index |-> known, current_bytes |-> total])
  BY <1>3, <1>4, <1>5 DEF ShardOK
<1> QED
  BY <1>6 DEF list, known, total

\* put() evicts until its entry fits, and inserts it.
LEMMA PutOK ==
  ASSUME NEW s, ShardOK(s), NEW made \in Response, NEW k, NEW t \in Nat,
         made.made_for.key = k, made.made_for.kind = "get", made.status = 200, ~made.sensitive
  PROVE  ShardOK(put(s, k, made, t))
<1> DEFINE size == charge(made)
           others == IF k \in s.index THEN erase(s, Position(s, k)) ELSE s
           left == Evicted(others, size)
           e == [key |-> k, response |-> made, expires_at |-> t + ttl, charge |-> size]
<1>1. size \in Nat /\ k \in Keys /\ t + ttl \in Nat
  BY CacheLimits, RouterLimits DEF charge, Response, Request
<1>2. CASE ~Fits(made)
  BY <1>2 DEF put
<1>3. CASE Fits(made)
  <2>1. put(s, k, made, t) = [lru |-> <<e>> \o left.lru, index |-> left.index \cup {k},
                              current_bytes |-> left.current_bytes + size]
    BY <1>3 DEF put, Inserted
  <2>2. size <= max_bytes
    BY <1>3 DEF Fits
  <2>3. ShardOK(others) /\ k \notin others.index
    BY EraseOK
  <2> HIDE DEF others, size
  <2>4. ShardOK(left) /\ k \notin left.index /\ left.current_bytes <= max_bytes - size
    BY <1>1, <2>2, <2>3, EvictedOK
  <2> HIDE DEF left
  <2>5. left.current_bytes + size <= max_bytes
    <3>1. left.current_bytes \in Nat
      BY <2>4 DEF ShardOK
    <3> QED
      BY <1>1, <2>4, <3>1, CacheLimits
  <2>6. e \in Entry /\ e.key = k /\ e.charge = size
    BY <1>1 DEF Entry
  <2> HIDE DEF e
  <2>7. ShardOK([lru |-> <<e>> \o left.lru, index |-> left.index \cup {e.key},
                 current_bytes |-> left.current_bytes + e.charge])
    BY <2>4, <2>5, <2>6, InsertOK
  <2> QED
    BY <2>1, <2>6, <2>7
<1> QED
  BY <1>2, <1>3


-----------------------------------------------------------------------------
(* Requests and the cache *)

Outcomes == {"none", "limited", "no_route", "hit", "miss", "bypass"}

\* A request is answered from the cache once, and then done; the handler answers a
\* request that has been read.
CacheInv ==
    /\ ShardOK(cache)
    /\ request \in [Requests -> Request \cup {Nobody}]
    /\ response \in [Requests -> Response \cup {Nobody}]
    /\ outcome \in [Requests -> Outcomes]
    /\ \A r \in Requests : pc[r] = "handler" => request[r] \in Request
    /\ \A r \in Requests : outcome[r] = "hit" => pc[r] = "done"
    /\ OnlySharedAnswers

LEMMA CacheInit == Init => CacheInv
<1> SUFFICES ASSUME Init PROVE CacheInv
  OBVIOUS
<1>1. /\ cache = [lru |-> <<>>, index |-> {}, current_bytes |-> 0] /\ pc = [r \in Requests |-> "new"]
      /\ request = [r \in Requests |-> Nobody] /\ response = [r \in Requests |-> Nobody]
      /\ outcome = [r \in Requests |-> "none"]
  BY DEF Init, EmptyShard
<1>2. ShardOK(cache)
  <2> DEFINE list == <<>>
             h == [i \in 0 .. 0 |-> 0]
  <2>1. list \in Seq(Entry) /\ Len(list) = 0
    BY EmptySeq
  <2> HIDE DEF list
  <2>2. Charged(list, h) /\ h[Len(list)] = 0
    BY <2>1 DEF Charged
  <2> HIDE DEF h
  <2>3. Books(list, {}, 0)
    <3>1. \E f : Charged(list, f) /\ 0 = f[Len(list)]
      BY <2>2
    <3>2. 1 .. Len(list) = {}
      BY <2>1
    <3> QED
      BY <3>1, <3>2 DEF Books
  <2>4. cache = [lru |-> list, index |-> {}, current_bytes |-> 0]
    BY <1>1 DEF list
  <2> QED
    BY <2>1, <2>3, <2>4, CacheLimits DEF ShardOK
<1>3. request \in [Requests -> Request \cup {Nobody}] /\ response \in [Requests -> Response \cup {Nobody}]
  BY <1>1
<1> QED
  BY <1>1, <1>2, <1>3 DEF CacheInv, Outcomes, OnlySharedAnswers

\* A step in front of the cache.
LEMMA BeforeCache ==
  ASSUME LimiterInv, CacheInv, NEW r \in Requests, pc[r] \in {"new", "match", "reserve"},
         UNCHANGED <<cache, request, response>>,
         \/ \E label \in Labels \ {"handler"} : Goto(r, label) /\ outcome' = outcome
         \/ \E what \in {"limited", "no_route"} : Answer(r, what)
  PROVE  CacheInv'
<1>1. pc \in [Requests -> Labels] /\ outcome \in [Requests -> Outcomes] /\ outcome[r] # "hit"
  BY DEF LimiterInv, LimiterTyped, CacheInv
<1>2. /\ pc' \in [Requests -> Labels] /\ pc'[r] # "handler"
      /\ \A q \in Requests \ {r} : pc'[q] = pc[q]
      /\ outcome' \in [Requests -> Outcomes] /\ outcome'[r] # "hit"
      /\ \A q \in Requests \ {r} : outcome'[q] = outcome[q]
  BY <1>1 DEF Goto, Answer, Outcomes, Labels
<1>3. ShardOK(cache)'
  BY DEF CacheInv, ShardOK, Books, Charged
<1>4. \A q \in Requests : /\ pc'[q] = "handler" => request'[q] \in Request
                          /\ outcome'[q] = "hit" => pc'[q] = "done"
  BY <1>1, <1>2 DEF CacheInv
<1>5. OnlySharedAnswers'
  BY <1>1, <1>2 DEF CacheInv, OnlySharedAnswers
<1> QED
  BY <1>2, <1>3, <1>4, <1>5 DEF CacheInv

LEMMA LookupKeeps ==
  ASSUME LimiterInv, CacheInv, NEW r \in Requests, NEW q \in Request, Lookup(r, q)
  PROVE  CacheInv'
<1>1. pc[r] = "lookup" /\ request' = [request EXCEPT ![r] = q]
  BY DEF Lookup
<1>2. /\ pc \in [Requests -> Labels] /\ outcome \in [Requests -> Outcomes] /\ outcome[r] # "hit"
      /\ request \in [Requests -> Request \cup {Nobody}] /\ response \in [Requests -> Response \cup {Nobody}]
      /\ ShardOK(cache)
  BY <1>1 DEF LimiterInv, LimiterTyped, CacheInv
<1>3. request' \in [Requests -> Request \cup {Nobody}] /\ request'[r] = q
      /\ \A p \in Requests \ {r} : request'[p] = request[p]
  BY <1>1, <1>2
<1>4. ASSUME Goto(r, "handler"), outcome' = outcome, response' = response, ShardOK(cache')
      PROVE  CacheInv'
  <2>1. /\ pc'[r] = "handler" /\ \A p \in Requests \ {r} : pc'[p] = pc[p]
    BY <1>2, <1>4 DEF Goto
  <2>2. \A p \in Requests : /\ pc'[p] = "handler" => request'[p] \in Request
                            /\ outcome'[p] = "hit" => pc'[p] = "done"
    BY <1>2, <1>3, <1>4, <2>1 DEF CacheInv
  <2>3. OnlySharedAnswers'
    BY <1>2, <1>3, <1>4 DEF CacheInv, OnlySharedAnswers
  <2> QED
    BY <1>2, <1>3, <1>4, <2>2, <2>3 DEF CacheInv, ShardOK, Books, Charged
<1>5. CASE ~cacheableRequest(q)
  <2>1. Goto(r, "handler") /\ outcome' = outcome /\ response' = response /\ cache' = cache
    BY <1>5 DEF Lookup
  <2> QED
    BY <1>2, <1>4, <2>1
<1>6. CASE cacheableRequest(q)
  <2>1. PICK t \in Readings(r) :
           /\ cache' = get(cache, q.key, t)
           /\ IF Hit(cache, q.key, t)
              THEN Answer(r, "hit") /\ response' = [response EXCEPT ![r] = Found(cache, q.key)]
              ELSE Goto(r, "handler") /\ UNCHANGED <<response, outcome>>
    BY <1>6 DEF Lookup
  <2>2. ShardOK(cache')
    BY <1>2, <2>1, GetOK
  <2>3. CASE ~Hit(cache, q.key, t)
    BY <1>4, <2>1, <2>2, <2>3
  <2>4. CASE Hit(cache, q.key, t)
    <3> DEFINE e == cache.lru[Position(cache, q.key)]
    <3>1. e \in Entry /\ e.key = q.key /\ Found(cache, q.key) = e.response
      BY <1>2, <2>4, PositionOf DEF Hit, Found
    <3> HIDE DEF e
    <3>2. /\ e.response \in Response /\ e.response.made_for.key = q.key /\ e.response.made_for.kind = "get"
          /\ e.response.status = 200 /\ ~e.response.sensitive
      BY <3>1 DEF Entry
    <3>3. q.kind # "credentials"
      BY <1>6 DEF cacheableRequest
    <3>4. /\ pc' = [pc EXCEPT ![r] = "done"] /\ outcome' = [outcome EXCEPT ![r] = "hit"]
          /\ response' = [response EXCEPT ![r] = e.response]
      BY <2>1, <2>4, <3>1 DEF Answer, Goto
    <3>5. /\ response' \in [Requests -> Response \cup {Nobody}] /\ outcome' \in [Requests -> Outcomes]
          /\ response'[r] = e.response /\ pc'[r] = "done"
          /\ \A p \in Requests \ {r} : response'[p] = response[p] /\ pc'[p] = pc[p] /\ outcome'[p] = outcome[p]
      <4>1. response' \in [Requests -> Response \cup {Nobody}]
        BY <1>2, <3>2, <3>4
      <4> QED
        BY <1>2, <3>4, <4>1 DEF Outcomes
    <3>6. \A p \in Requests : /\ pc'[p] = "handler" => request'[p] \in Request
                              /\ outcome'[p] = "hit" => pc'[p] = "done"
      BY <1>3, <3>5 DEF CacheInv
    <3>7. OnlySharedAnswers'
      <4>1. SUFFICES ASSUME NEW p \in Requests, outcome'[p] = "hit"
                     PROVE  /\ request'[p].kind # "credentials"
                            /\ response'[p].made_for.key = request'[p].key
                            /\ response'[p].made_for.kind = "get"
                            /\ response'[p].status = 200 /\ ~response'[p].sensitive
        BY DEF OnlySharedAnswers
      <4>2. CASE p = r
        BY <1>3, <3>2, <3>3, <3>5, <4>2
      <4>3. CASE p # r
        BY <1>3, <3>5, <4>1, <4>3 DEF CacheInv, OnlySharedAnswers
      <4> QED
        BY <4>2, <4>3
    <3> QED
      BY <1>3, <2>2, <3>5, <3>6, <3>7 DEF CacheInv, ShardOK, Books, Charged
  <2> QED
    BY <2>3, <2>4
<1> QED
  BY <1>5, <1>6

LEMMA StoreKeeps ==
  ASSUME LimiterInv, CacheInv, NEW r \in Requests, Store(r)
  PROVE  CacheInv'
<1>1. pc[r] = "handler" /\ request' = [request EXCEPT ![r] = Nobody] /\ response' = response
  BY DEF Store
<1>2. PICK made \in Response :
         /\ made.made_for = request[r]
         /\ \/ /\ CanStore(r, made)
               /\ \E t \in Readings(r) : cache' = put(cache, request[r].key, made, t)
               /\ Answer(r, IF Fits(made) THEN "miss" ELSE "bypass")
            \/ /\ ~CanStore(r, made)
               /\ Answer(r, "bypass")
               /\ cache' = cache
  BY DEF Store
<1>3. /\ pc \in [Requests -> Labels] /\ outcome \in [Requests -> Outcomes]
      /\ request \in [Requests -> Request \cup {Nobody}] /\ response \in [Requests -> Response \cup {Nobody}]
      /\ ShardOK(cache)
  BY DEF LimiterInv, LimiterTyped, CacheInv
<1>4. PICK what \in {"miss", "bypass"} : Answer(r, what)
  BY <1>2
<1>5. ShardOK(cache')
  <2>1. CASE cache' = cache
    BY <1>3, <2>1
  <2>2. CASE CanStore(r, made) /\ \E t \in Readings(r) : cache' = put(cache, request[r].key, made, t)
    <3>1. PICK t \in Readings(r) : cache' = put(cache, request[r].key, made, t)
      BY <2>2
    <3>2. t \in Nat
      BY ReadingRecent DEF Recent
    <3>3. /\ made.made_for.key = request[r].key /\ made.made_for.kind = "get"
          /\ made.status = 200 /\ ~made.sensitive
      BY <1>2, <2>2 DEF CanStore, cacheableResponse
    <3> QED
      BY <1>3, <3>1, <3>2, <3>3, PutOK
  <2> QED
    BY <1>2, <2>1, <2>2
<1>6. /\ pc'[r] = "done" /\ outcome'[r] # "hit" /\ outcome' \in [Requests -> Outcomes]
      /\ \A p \in Requests \ {r} : pc'[p] = pc[p] /\ outcome'[p] = outcome[p]
  BY <1>3, <1>4 DEF Answer, Goto, Outcomes
<1>7. /\ request' \in [Requests -> Request \cup {Nobody}]
      /\ \A p \in Requests \ {r} : request'[p] = request[p]
  BY <1>1, <1>3
<1>8. \A p \in Requests : /\ pc'[p] = "handler" => request'[p] \in Request
                          /\ outcome'[p] = "hit" => pc'[p] = "done"
  BY <1>6, <1>7 DEF CacheInv
<1>9. OnlySharedAnswers'
  BY <1>1, <1>6, <1>7 DEF CacheInv, OnlySharedAnswers
<1> QED
  BY <1>1, <1>3, <1>5, <1>6, <1>7, <1>8, <1>9 DEF CacheInv, ShardOK, Books, Charged

LEMMA CacheStep == LimiterInv /\ CacheInv /\ [Next]_vars => CacheInv'
<1> SUFFICES ASSUME LimiterInv, CacheInv, [Next]_vars PROVE CacheInv'
  OBVIOUS
<1>1. ASSUME UNCHANGED <<cache, request, response, outcome, pc>> PROVE CacheInv'
  <2>1. cache' = cache /\ ShardOK(cache)
    BY <1>1 DEF CacheInv
  <2>2. ShardOK(cache)'
    BY <2>1 DEF ShardOK, Books, Charged
  <2> QED
    BY <1>1, <2>2 DEF CacheInv, OnlySharedAnswers
<1>2. CASE Tick
  BY <1>1, <1>2 DEF Tick
<1>3. ASSUME NEW r \in Requests, CheckGlobal(r) PROVE CacheInv'
  <2>1. pc[r] = "new" /\ UNCHANGED <<cache, request, response>>
    BY <1>3 DEF CheckGlobal
  <2>2. (Goto(r, "match") /\ outcome' = outcome) \/ Answer(r, "limited")
    BY <1>3 DEF CheckGlobal
  <2> QED
    BY <2>1, <2>2, BeforeCache DEF Labels
<1>4. ASSUME NEW r \in Requests, NoRoute(r) PROVE CacheInv'
  BY <1>4, BeforeCache DEF NoRoute
<1>5. ASSUME NEW r \in Requests, NEW c \in Clients, CheckClient(r, c) PROVE CacheInv'
  <2>1. pc[r] = "match" /\ UNCHANGED <<cache, request, response>>
    BY <1>5 DEF CheckClient
  <2>2. \/ Goto(r, "lookup") /\ outcome' = outcome
        \/ Goto(r, "reserve") /\ outcome' = outcome
        \/ Answer(r, "limited")
    BY <1>5 DEF CheckClient, Decide
  <2> QED
    BY <2>1, <2>2, BeforeCache DEF Labels
<1>6. ASSUME NEW r \in Requests, ReserveKey(r) PROVE CacheInv'
  <2>1. pc[r] = "reserve" /\ UNCHANGED <<cache, request, response>>
    BY <1>6 DEF ReserveKey
  <2>2. (Goto(r, "lookup") /\ outcome' = outcome) \/ Answer(r, "limited")
    BY <1>6 DEF ReserveKey, Decide
  <2> QED
    BY <2>1, <2>2, BeforeCache DEF Labels
<1>7. ASSUME NEW r \in Requests, RetryReserve(r) PROVE CacheInv'
  BY <1>1, <1>7 DEF RetryReserve
<1>8. ASSUME NEW r \in Requests, KeysExhausted(r) PROVE CacheInv'
  <2>1. pc[r] = "reserve" /\ UNCHANGED <<cache, request, response>> /\ Answer(r, "limited")
    BY <1>8 DEF KeysExhausted
  <2> QED
    BY <2>1, BeforeCache
<1>9. ASSUME NEW r \in Requests, NEW q \in Request, Lookup(r, q) PROVE CacheInv'
  BY <1>9, LookupKeeps
<1>10. ASSUME NEW r \in Requests, Store(r) PROVE CacheInv'
  BY <1>10, StoreKeeps
<1>11. CASE UNCHANGED vars
  BY <1>1, <1>11 DEF vars
<1> QED
  BY <1>2, <1>3, <1>4, <1>5, <1>6, <1>7, <1>8, <1>9, <1>10, <1>11 DEF Next

LEMMA CacheInvMeans == CacheInv => CacheBounded
<1> SUFFICES ASSUME CacheInv PROVE CacheBounded
  OBVIOUS
<1>1. /\ cache.lru \in Seq(Entry) /\ cache.current_bytes \in Nat /\ cache.current_bytes <= max_bytes
      /\ Books(cache.lru, cache.index, cache.current_bytes)
  BY DEF CacheInv, ShardOK
<1> DEFINE lru == cache.lru
           l == Len(lru)
<1>2. DOMAIN lru = 1 .. l /\ l \in Nat
  BY <1>1, ListFacts
<1>3. PICK h : Charged(lru, h) /\ cache.current_bytes = h[l]
  BY <1>1 DEF Books
<1>4. 0 \in 0 .. l /\ h[0] = 0 /\ h[l] \in Nat
  BY <1>2, <1>3 DEF Charged
<1>5. Bytes(lru, 0 + 1, l) = h[l] - h[0]
  BY <1>1, <1>3, <1>4, BytesOf
<1>6. cache.current_bytes = Bytes(lru, 1, l)
  BY <1>3, <1>4, <1>5
<1>7. /\ cache.index = {lru[i].key : i \in 1 .. l}
      /\ \A i, j \in 1 .. l : lru[i].key = lru[j].key => i = j
  BY <1>1 DEF Books
<1> QED
  BY <1>1, <1>2, <1>6, <1>7 DEF CacheBounded, KeyAt


-----------------------------------------------------------------------------
(* Theorems *)

LEMMA InvTyped == LimiterInv /\ CacheInv => TypeOK
<1> SUFFICES ASSUME LimiterInv, CacheInv PROVE TypeOK
  OBVIOUS
<1>1. global_bucket \in TokenBucket /\ key_count \in Nat
  BY FS_CardinalityType DEF LimiterInv, GlobalPaid, Paid, KeyTable
<1>2. DOMAIN buckets \subseteq Clients /\ \A c \in DOMAIN buckets : buckets[c] \in ClientBucket
  BY DEF LimiterInv, TableOK, ClientOK, Seen
<1>3. /\ cache.current_bytes \in Nat /\ cache.index \subseteq Keys
      /\ \A i \in DOMAIN cache.lru : cache.lru[i].response \in Response
  <2>1. cache.lru \in Seq(Entry) /\ cache.current_bytes \in Nat /\ cache.index \subseteq Keys
    BY DEF CacheInv, ShardOK
  <2>2. \A i \in DOMAIN cache.lru : cache.lru[i] \in Entry
    BY <2>1, ListFacts
  <2> QED
    BY <2>1, <2>2 DEF Entry
<1>4. /\ clock \in 0 .. MaxTime /\ owner \in [Shards -> Requests \cup {Nobody}] /\ pc \in [Requests -> Labels]
      /\ since \in [Requests -> 0 .. MaxTime] /\ now \in [Requests -> 0 .. MaxTime]
      /\ current_count \in [Requests -> Nat] /\ client \in [Requests -> Clients \cup {Nobody}]
  BY DEF LimiterInv, LimiterTyped
<1>5. /\ request \in [Requests -> Request \cup {Nobody}] /\ response \in [Requests -> Response \cup {Nobody}]
      /\ outcome \in [Requests -> Outcomes]
  BY DEF CacheInv
<1> QED
  BY <1>1, <1>2, <1>3, <1>4, <1>5 DEF TypeOK, Labels, Outcomes

\* Who holds a shard of the client limiter and how old its reading is, what every
\* bucket has paid for, and the books of the cache: the inductive invariant of
\* Router::handle for any number of concurrent requests.
THEOREM Inductive == Spec => [](LimiterInv /\ CacheInv)
<1>1. Init => LimiterInv /\ CacheInv
  BY LimiterInit, CacheInit
<1>2. LimiterInv /\ CacheInv /\ [Next]_vars => LimiterInv' /\ CacheInv'
  BY LimiterStep, CacheStep
<1> QED
  BY <1>1, <1>2, PTL DEF Spec

\* Every variable keeps its type; key_count_ and current_bytes never wrap below zero.
THEOREM Typed == Spec => []TypeOK
  BY Inductive, InvTyped, PTL

\* The count that the shards of the client limiter share is exact, and max_keys is
\* never exceeded, however the compare-and-exchange loops interleave.
THEOREM CountedKeys == Spec => []KeysCounted
  BY Inductive, LimiterInvMeans, PTL

\* Neither limiter lets through more than its burst and the time so far allow, with
\* clock readings used out of order and buckets dropped and made anew.
THEOREM Bounded == Spec => []RateBounded
  BY Inductive, LimiterInvMeans, PTL

\* The byte count of the cache is exact and within its budget, and index and list
\* agree, after any sequence of lookups, replacements and evictions.
THEOREM CacheExact == Spec => []CacheBounded
  BY Inductive, CacheInvMeans, PTL

\* An answer from the cache was made for everybody, under the key of the request.
THEOREM SharedOnly == Spec => []OnlySharedAnswers
<1>1. CacheInv => OnlySharedAnswers
  BY DEF CacheInv
<1> QED
  BY <1>1, Inductive, PTL

=============================================================================
