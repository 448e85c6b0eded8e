--------------------------- MODULE ResponseCache ---------------------------
(***************************************************************************)
(* One shard of the response cache (src/http/response_cache.cpp): an LRU   *)
(* list, newest first, its index and its byte count.  A shard's operations *)
(* run under its mutex; shards share nothing but their statistics.         *)
(***************************************************************************)
EXTENDS Integers, SequencesExt

CONSTANTS
    ttl, max_bytes, max_entry_bytes,
    overhead            \* bytes of key, reason and headers

ASSUME ResponseCacheConfig ==
    /\ {ttl, max_bytes, max_entry_bytes, overhead} \subseteq Nat \ {0}
    /\ max_entry_bytes <= max_bytes

EmptyShard == [lru |-> <<>>, index |-> {}, current_bytes |-> 0]

KeyAt(s, i) == s.lru[i].key
Position(s, k) == CHOOSE i \in DOMAIN s.lru : KeyAt(s, i) = k
\* The charges of the entries lru[i .. j].
Bytes(lru, i, j) ==
    LET sum[n \in 0 .. j] == IF n < i THEN 0 ELSE sum[n - 1] + lru[n].charge IN sum[j]

charge(response) == response.body + overhead

erase(s, i) ==
    [lru |-> RemoveAt(s.lru, i), index |-> s.index \ {KeyAt(s, i)},
     current_bytes |-> s.current_bytes - s.lru[i].charge]

\* get(): what the lookup finds, and the shard after it.
Hit(s, k, now) == k \in s.index /\ s.lru[Position(s, k)].expires_at > now
Found(s, k) == s.lru[Position(s, k)].response
get(s, k, now) ==
    IF k \notin s.index THEN s
    ELSE IF Hit(s, k, now)
    THEN [s EXCEPT !.lru = <<s.lru[Position(s, k)]>> \o RemoveAt(s.lru, Position(s, k))]
    ELSE erase(s, Position(s, k))

\* The entries in front of lru[n + 1] stay: the loop evicts from the back while
\* the rest does not leave room.
Room(s, n, size) == s.current_bytes - Bytes(s.lru, n + 1, Len(s.lru)) <= max_bytes - size
Kept(s, size) == CHOOSE n \in 0 .. Len(s.lru) :
                    /\ n = 0 \/ Room(s, n, size)
                    /\ \A m \in n + 1 .. Len(s.lru) : ~Room(s, m, size)

Fits(response) == charge(response) <= max_bytes
Evicted(s, size) ==
    LET n == Kept(s, size)
    IN  [lru |-> SubSeq(s.lru, 1, n),
         index |-> s.index \ {KeyAt(s, i) : i \in n + 1 .. Len(s.lru)},
         current_bytes |-> s.current_bytes - Bytes(s.lru, n + 1, Len(s.lru))]
Inserted(s, k, response, now) ==
    [lru |-> <<[key |-> k, response |-> response, expires_at |-> now + ttl,
                charge |-> charge(response)]>> \o s.lru,
     index |-> s.index \cup {k},
     current_bytes |-> s.current_bytes + charge(response)]
\* Faulty variant: an entry under the same key is not erased first.
put_NotReplaced(s, k, response, now) ==
    IF ~Fits(response) THEN s
    ELSE Inserted(Evicted(s, charge(response)), k, response, now)
put(s, k, response, now) ==
    IF ~Fits(response) THEN s
    ELSE LET others == IF k \in s.index THEN erase(s, Position(s, k)) ELSE s
         IN  Inserted(Evicted(others, charge(response)), k, response, now)

\* Complete, successful, small enough, and with no header that forbids sharing.
cacheableResponse(response) ==
    /\ response.status = 200
    /\ response.body < max_entry_bytes
    /\ ~response.sensitive
=============================================================================
