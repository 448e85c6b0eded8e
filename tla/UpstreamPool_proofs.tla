------------------------ MODULE UpstreamPool_proofs ------------------------
(***************************************************************************)
(* Proofs about UpstreamPool.  PolicyInv relates a policy to the set of    *)
(* connections that are out on lease; every operation of the policy        *)
(* preserves it (the lemmas), and every handler is a composition of them.  *)
(***************************************************************************)
EXTENDS UpstreamPool, FiniteSetTheorems, SequenceTheorems, TLAPS

\* The bookkeeping of policy p is right when exactly the connections in L are
\* out on lease.
InUse(p, L) == L \cup p.idle
PolicyInv(p, L) ==
    /\ p \in Policy
    /\ L \subseteq Id
    /\ p.busy = Cardinality(L)
    /\ L \cap p.idle = {}
    /\ p.busy + Cardinality(p.idle) <= max_connections
    /\ Cardinality(p.idle) <= max_idle_connections
    /\ p.next_id >= 1
    /\ \A c \in InUse(p, L) : /\ c < p.next_id
                              /\ p.rec[c].open
                              /\ p.rec[c].reuse_count < max_reuses

-----------------------------------------------------------------------------
(* Facts about identifiers and finite sets of them *)

\* Identifiers are positive: none of them is NoLease.
LEMMA IdFacts == NoLease \notin Id /\ Id \subseteq Nat /\ IsFiniteSet(Id)
<1>1. MaxId \in Nat
  BY PoolLimits
<1>2. IsFiniteSet(Id)
  BY <1>1, FS_Interval DEF Id
<1> QED
  BY <1>1, <1>2 DEF Id, NoLease

\* Cardinalities of sets of identifiers under the steps the pool makes.
LEMMA IdSets ==
  ASSUME NEW S \in SUBSET Id, NEW c \in Id
  PROVE  /\ IsFiniteSet(S) /\ Cardinality(S) \in Nat
         /\ c \notin S => Cardinality(S \cup {c}) = Cardinality(S) + 1
         /\ c \in S => Cardinality(S \ {c}) = Cardinality(S) - 1 /\ Cardinality(S) >= 1
         /\ \A T \in SUBSET S : Cardinality(T) <= Cardinality(S)
<1>1. IsFiniteSet(S)
  BY IdFacts, FS_Subset
<1>2. Cardinality(S) \in Nat
  BY <1>1, FS_CardinalityType
<1>3. c \notin S => Cardinality(S \cup {c}) = Cardinality(S) + 1
  BY <1>1, FS_AddElement
<1>4. c \in S => Cardinality(S \ {c}) = Cardinality(S) - 1 /\ Cardinality(S) >= 1
  <2>1. HAVE c \in S
  <2>2. Cardinality(S \ {c}) = Cardinality(S) - 1
    BY <1>1, <2>1, FS_RemoveElement
  <2>3. S # {}
    BY <2>1
  <2>4. Cardinality(S) # 0
    BY <1>1, <2>3, FS_EmptySet
  <2> QED
    BY <1>2, <2>2, <2>4
<1>5. \A T \in SUBSET S : Cardinality(T) <= Cardinality(S)
  BY <1>1, FS_Subset
<1> QED
  BY <1>1, <1>2, <1>3, <1>4, <1>5

LEMMA EmptyIdle == Cardinality({}) = 0
  BY FS_EmptySet

-----------------------------------------------------------------------------
(* The operations of UpstreamPoolPolicy *)

\* acquire takes the newest reusable idle connection: it was idle, it is no
\* longer, and the capacity is kept.
LEMMA TakeIdleKeeps ==
  ASSUME NEW p, NEW L, PolicyInv(p, L), NEW c \in Id, IsNewestReusable(p, c)
  PROVE  /\ PolicyInv(TakeIdle(p, c), L \cup {c})
         /\ c \notin L /\ c \in p.idle /\ TakeIdle(p, c).idle \subseteq p.idle \ {c}
<1> DEFINE q == TakeIdle(p, c)
<1>1. c \in p.idle /\ c \notin L
  BY DEF IsNewestReusable, PolicyInv
<1>2. OlderIdle(p, c) \subseteq p.idle \ {c}
  BY <1>1 DEF OlderIdle, PolicyInv, Policy, Record
<1>3. /\ q.idle = OlderIdle(p, c) /\ q.busy = p.busy + 1
      /\ q.next_id = p.next_id /\ q.rec = p.rec
      /\ q \in Policy
  BY <1>2 DEF TakeIdle, PolicyInv, Policy
<1>4. /\ Cardinality(L \cup {c}) = Cardinality(L) + 1
      /\ Cardinality(q.idle) <= Cardinality(p.idle) - 1
      /\ Cardinality(q.idle) \in Nat /\ Cardinality(p.idle) \in Nat
  <2>1. p.idle \in SUBSET Id /\ L \in SUBSET Id
    BY DEF PolicyInv, Policy
  <2>2. p.idle \ {c} \in SUBSET Id /\ q.idle \in SUBSET (p.idle \ {c}) /\ q.idle \in SUBSET Id
    BY <1>2, <1>3, <2>1
  <2>3. Cardinality(p.idle \ {c}) = Cardinality(p.idle) - 1 /\ Cardinality(p.idle) \in Nat
    BY <1>1, <2>1, IdSets
  <2>4. Cardinality(q.idle) <= Cardinality(p.idle \ {c}) /\ Cardinality(q.idle) \in Nat
    BY <2>2, IdSets
  <2>5. Cardinality(L \cup {c}) = Cardinality(L) + 1
    BY <1>1, <2>1, IdSets
  <2> QED
    BY <2>3, <2>4, <2>5
<1>5. /\ q.busy = Cardinality(L \cup {c})
      /\ q.busy + Cardinality(q.idle) <= max_connections
      /\ Cardinality(q.idle) <= max_idle_connections
  BY <1>3, <1>4, PoolLimits DEF PolicyInv, Policy
<1>6. \A d \in InUse(q, L \cup {c}) : /\ d < q.next_id
                                      /\ q.rec[d].open
                                      /\ q.rec[d].reuse_count < max_reuses
  BY <1>1, <1>2, <1>3 DEF PolicyInv, InUse
<1>7. (L \cup {c}) \cap q.idle = {} /\ L \cup {c} \subseteq Id /\ q.next_id >= 1
  BY <1>1, <1>2, <1>3 DEF PolicyInv
<1> QED
  BY <1>1, <1>2, <1>3, <1>5, <1>6, <1>7 DEF PolicyInv

\* acquire makes a new connection: its identifier was never used before.
LEMMA CreateKeeps ==
  ASSUME NEW p, NEW L, PolicyInv(p, L), CanCreate(p)
  PROVE  /\ PolicyInv(CreateConnection(p), L \cup {p.next_id})
         /\ p.next_id \notin L /\ p.next_id \in Id /\ CreateConnection(p).idle = {}
<1> DEFINE c == p.next_id
           q == CreateConnection(p)
<1>1. c \in Id /\ c \notin L /\ L \in SUBSET Id /\ c \in Nat /\ p.busy < max_connections
  BY IdFacts DEF CanCreate, PolicyInv, Policy, InUse
<1>2. NewRecord(p.clock) \in Record
  BY DEF NewRecord, Record, PolicyInv, Policy
<1>3. /\ q.idle = {} /\ q.busy = p.busy + 1 /\ q.next_id = c + 1
      /\ q.rec = [p.rec EXCEPT ![c] = NewRecord(p.clock)]
      /\ q \in Policy
  BY <1>1, <1>2 DEF CreateConnection, PolicyInv, Policy
<1>4. q.rec[c].open /\ q.rec[c].reuse_count < max_reuses
  BY <1>1, <1>3, PoolLimits DEF NewRecord, PolicyInv, Policy
<1>5. \A d \in L : q.rec[d] = p.rec[d]
  BY <1>1, <1>3 DEF PolicyInv, Policy
<1>6. Cardinality(L \cup {c}) = Cardinality(L) + 1 /\ Cardinality(L) \in Nat
  BY <1>1, IdSets
<1>7. /\ q.busy = Cardinality(L \cup {c})
      /\ q.busy + Cardinality(q.idle) <= max_connections
      /\ Cardinality(q.idle) <= max_idle_connections
  BY <1>1, <1>3, <1>6, EmptyIdle, PoolLimits DEF PolicyInv
<1>8. \A d \in InUse(q, L \cup {c}) : /\ d < q.next_id
                                      /\ q.rec[d].open
                                      /\ q.rec[d].reuse_count < max_reuses
  <2>1. \A d \in L : d < c /\ p.rec[d].open /\ p.rec[d].reuse_count < max_reuses /\ d \in Nat
    BY IdFacts DEF PolicyInv, InUse
  <2> QED
    BY <1>1, <1>3, <1>4, <1>5, <2>1 DEF InUse
<1>9. (L \cup {c}) \cap q.idle = {} /\ L \cup {c} \subseteq Id /\ q.next_id >= 1
  BY <1>1, <1>3
<1> QED
  BY <1>1, <1>3, <1>7, <1>8, <1>9 DEF PolicyInv

\* acquire: a lease is on a connection nobody has; without one, nothing is idle.
\* What was idle alone is not idle any more.
LEMMA AcquireKeeps ==
  ASSUME NEW p, NEW q, NEW L, NEW c, PolicyInv(p, L), acquire(p, q, c)
  PROVE  /\ c # NoLease => PolicyInv(q, L \cup {c}) /\ c \in Id /\ c \notin L
         /\ c = NoLease => PolicyInv(q, L) /\ q.idle = {}
         /\ q.idle \subseteq p.idle
         /\ \A d : p.idle \subseteq {d} => q.idle = {}
<1>1. CASE IsNewestReusable(p, c) /\ q = TakeIdle(p, c)
  <2>1. c \in Id
    BY <1>1 DEF IsNewestReusable, PolicyInv, Policy
  <2> QED
    BY <1>1, <2>1, IdFacts, TakeIdleKeeps
<1>2. CASE ~CanReuse(p) /\ CanCreate(p) /\ c = p.next_id /\ q = CreateConnection(p)
  BY <1>2, IdFacts, CreateKeeps
<1>3. CASE ~CanReuse(p) /\ ~CanCreate(p) /\ c = NoLease /\ q = AcquireNothing(p)
  <2>1. /\ q.idle = {} /\ q.busy = p.busy /\ q.next_id = p.next_id /\ q.rec = p.rec
        /\ q \in Policy
    BY <1>3 DEF AcquireNothing, PolicyInv, Policy
  <2>2. Cardinality(p.idle) \in Nat
    BY IdFacts, FS_Subset, FS_CardinalityType DEF PolicyInv, Policy
  <2>3. PolicyInv(q, L)
    BY <2>1, <2>2, EmptyIdle, PoolLimits DEF PolicyInv, InUse, Policy
  <2> QED
    BY <1>3, <2>1, <2>3
<1> QED
  BY <1>1, <1>2, <1>3 DEF acquire

\* releaseReusable: the connection leaves the lease and is idle only if it may
\* be used once more and there is room.
LEMMA ReleaseKeeps ==
  ASSUME NEW p, NEW L, PolicyInv(p, L), NEW c \in L
  PROVE  PolicyInv(releaseReusable(p, c), L \ {c})
<1> DEFINE q == releaseReusable(p, c)
           K == Keeps(p, c)
<1>1. /\ p \in Policy /\ c \in Id /\ c \notin p.idle /\ L \in SUBSET Id /\ p.idle \in SUBSET Id
      /\ p.busy = Cardinality(L) /\ c < p.next_id /\ p.rec[c] \in Record
  BY DEF PolicyInv, Policy, InUse
<1>2. /\ Cardinality(L \ {c}) = Cardinality(L) - 1 /\ Cardinality(L) >= 1 /\ Cardinality(L) \in Nat
      /\ Cardinality(p.idle \cup {c}) = Cardinality(p.idle) + 1 /\ Cardinality(p.idle) \in Nat
  BY <1>1, IdSets
<1>3. Used(p, c) \in Record
  BY <1>1 DEF Used, Record, Policy
<1>4. /\ q.idle = (IF K THEN p.idle \cup {c} ELSE p.idle)
      /\ q.busy = p.busy - 1 /\ q.next_id = p.next_id
      /\ q.rec = [p.rec EXCEPT ![c] = Used(p, c)]
  BY DEF releaseReusable
<1>5. q \in Policy
  <2>1. (IF K THEN p.idle \cup {c} ELSE p.idle) \in SUBSET Id
    BY <1>1
  <2>2. p.busy - 1 \in Nat /\ p.clock + 1 \in Nat
    BY <1>1, <1>2 DEF Policy
  <2>3. [p.rec EXCEPT ![c] = Used(p, c)] \in [Id -> Record]
    BY <1>1, <1>3 DEF Policy
  <2>4. p.next_id \in Nat
    BY <1>1 DEF Policy
  <2> QED
    BY <2>1, <2>2, <2>3, <2>4 DEF releaseReusable, Policy
<1>6. /\ q.busy = Cardinality(L \ {c})
      /\ q.busy + Cardinality(q.idle) <= max_connections
      /\ Cardinality(q.idle) <= max_idle_connections
  <2>1. CASE K
    <3>1. Cardinality(p.idle) < max_idle_connections
      BY <2>1 DEF Keeps
    <3> QED
      BY <1>1, <1>2, <1>4, <2>1, <3>1, PoolLimits DEF PolicyInv
  <2>2. CASE ~K
    BY <1>1, <1>2, <1>4, <2>2, PoolLimits DEF PolicyInv
  <2> QED
    BY <2>1, <2>2
<1>7. \A d \in InUse(q, L \ {c}) : /\ d < q.next_id
                                   /\ q.rec[d].open
                                   /\ q.rec[d].reuse_count < max_reuses
  <2>1. \A d \in (L \ {c}) \cup p.idle : /\ d \in Id /\ d # c /\ d < p.next_id
                                         /\ p.rec[d].open /\ p.rec[d].reuse_count < max_reuses
    BY <1>1 DEF PolicyInv, InUse
  <2>2. \A d \in (L \ {c}) \cup p.idle : q.rec[d] = p.rec[d]
    BY <1>1, <1>4, <2>1 DEF Policy
  <2>3. K => q.rec[c].open /\ q.rec[c].reuse_count < max_reuses
    BY <1>1, <1>4 DEF Policy, Keeps, reusable
  <2> QED
    BY <1>1, <1>4, <2>1, <2>2, <2>3 DEF InUse
<1>8. /\ (L \ {c}) \cap q.idle = {} /\ L \ {c} \subseteq Id /\ q.next_id >= 1
  BY <1>1, <1>4 DEF PolicyInv
<1> QED
  BY <1>5, <1>6, <1>7, <1>8 DEF PolicyInv

\* discard: the connection leaves the lease and is closed.
LEMMA DiscardKeeps ==
  ASSUME NEW p, NEW L, PolicyInv(p, L), NEW c \in L
  PROVE  PolicyInv(discard(p, c), L \ {c})
<1> DEFINE q == discard(p, c)
<1>1. /\ p \in Policy /\ c \in Id /\ c \notin p.idle /\ L \in SUBSET Id /\ p.idle \in SUBSET Id
      /\ p.busy = Cardinality(L) /\ p.rec[c] \in Record
  BY DEF PolicyInv, Policy
<1>2. Cardinality(L \ {c}) = Cardinality(L) - 1 /\ Cardinality(L) >= 1 /\ Cardinality(L) \in Nat
  BY <1>1, IdSets
<1>3. Cardinality(p.idle) \in Nat
  BY <1>1, IdSets
<1>4. /\ q.idle = p.idle /\ q.busy = p.busy - 1 /\ q.next_id = p.next_id
      /\ q.rec = [p.rec EXCEPT ![c] = [@ EXCEPT !.open = FALSE]]
  BY DEF discard
<1>5. q \in Policy
  <2>1. [p.rec[c] EXCEPT !.open = FALSE] \in Record
    BY <1>1 DEF Record
  <2>2. [p.rec EXCEPT ![c] = [@ EXCEPT !.open = FALSE]] \in [Id -> Record]
    BY <1>1, <2>1 DEF Policy
  <2>3. p.busy - 1 \in Nat /\ p.next_id \in Nat /\ p.clock \in Nat
    BY <1>1, <1>2 DEF Policy
  <2> QED
    BY <1>1, <2>2, <2>3 DEF discard, Policy
<1>6. /\ q.busy = Cardinality(L \ {c})
      /\ q.busy + Cardinality(q.idle) <= max_connections
      /\ Cardinality(q.idle) <= max_idle_connections
  BY <1>1, <1>2, <1>3, <1>4, PoolLimits DEF PolicyInv
<1>7. \A d \in InUse(q, L \ {c}) : /\ d < q.next_id
                                   /\ q.rec[d].open
                                   /\ q.rec[d].reuse_count < max_reuses
  <2>1. \A d \in (L \ {c}) \cup p.idle : /\ d \in Id /\ d # c /\ d < p.next_id
                                         /\ p.rec[d].open /\ p.rec[d].reuse_count < max_reuses
    BY <1>1 DEF PolicyInv, InUse
  <2>2. \A d \in (L \ {c}) \cup p.idle : q.rec[d] = p.rec[d]
    BY <1>1, <1>4, <2>1 DEF Policy
  <2> QED
    BY <1>4, <2>1, <2>2 DEF InUse
<1>8. /\ (L \ {c}) \cap q.idle = {} /\ L \ {c} \subseteq Id /\ q.next_id >= 1
  BY <1>1, <1>4 DEF PolicyInv
<1> QED
  BY <1>5, <1>6, <1>7, <1>8 DEF PolicyInv

\* pruneIdle and the clock only take idle connections away or age a record.
LEMMA ShrinkKeeps ==
  ASSUME NEW p, NEW q, NEW L, PolicyInv(p, L), q \in Policy, q.idle \subseteq p.idle,
         q.busy = p.busy, q.next_id = p.next_id,
         \A d \in Id : q.rec[d].open = p.rec[d].open /\ q.rec[d].reuse_count = p.rec[d].reuse_count
  PROVE  PolicyInv(q, L)
<1>1. p.idle \in SUBSET Id /\ q.idle \in SUBSET p.idle /\ q.idle \in SUBSET Id
  BY DEF PolicyInv, Policy
<1>2. IsFiniteSet(p.idle)
  BY <1>1, IdFacts, FS_Subset
<1>3. Cardinality(q.idle) <= Cardinality(p.idle)
  BY <1>1, <1>2, FS_Subset
<1>4. Cardinality(q.idle) \in Nat /\ Cardinality(p.idle) \in Nat
  BY <1>1, IdFacts, FS_Subset, FS_CardinalityType
<1>5. /\ q.busy + Cardinality(q.idle) <= max_connections
      /\ Cardinality(q.idle) <= max_idle_connections
  BY <1>3, <1>4, PoolLimits DEF PolicyInv, Policy
<1>6. \A d \in InUse(q, L) : d \in InUse(p, L) /\ d \in Id
  BY <1>1 DEF InUse, PolicyInv
<1> QED
  BY <1>1, <1>5, <1>6 DEF PolicyInv
LEMMA PruneKeeps ==
  ASSUME NEW p, NEW L, PolicyInv(p, L)
  PROVE  PolicyInv(pruneIdle(p), L) /\ pruneIdle(p).idle \subseteq p.idle
<1>1. ReusableIdle(p) \subseteq p.idle
  BY DEF ReusableIdle
<1>2. /\ pruneIdle(p) \in Policy /\ pruneIdle(p).idle = ReusableIdle(p)
      /\ pruneIdle(p).busy = p.busy /\ pruneIdle(p).next_id = p.next_id
      /\ pruneIdle(p).rec = p.rec
  BY <1>1 DEF pruneIdle, PolicyInv, Policy
<1> QED
  BY <1>1, <1>2, ShrinkKeeps
LEMMA AgeKeeps ==
  ASSUME NEW p, NEW L, PolicyInv(p, L), NEW c \in Id
  PROVE  /\ PolicyInv([p EXCEPT !.rec[c] = [@ EXCEPT !.lifetime_over = TRUE]], L)
         /\ PolicyInv([p EXCEPT !.rec[c] = [@ EXCEPT !.idle_over = TRUE]], L)
<1> DEFINE a == [p EXCEPT !.rec[c] = [@ EXCEPT !.lifetime_over = TRUE]]
           b == [p EXCEPT !.rec[c] = [@ EXCEPT !.idle_over = TRUE]]
<1>1. p \in Policy /\ p.rec \in [Id -> Record]
  BY DEF PolicyInv, Policy
<1>2. /\ [p.rec[c] EXCEPT !.lifetime_over = TRUE] \in Record
      /\ [p.rec[c] EXCEPT !.idle_over = TRUE] \in Record
  BY <1>1 DEF Record
<1>3. /\ a.idle = p.idle /\ a.busy = p.busy /\ a.next_id = p.next_id
      /\ a.rec = [p.rec EXCEPT ![c] = [@ EXCEPT !.lifetime_over = TRUE]]
      /\ a \in Policy
  BY <1>1, <1>2 DEF Policy
<1>4. /\ b.idle = p.idle /\ b.busy = p.busy /\ b.next_id = p.next_id
      /\ b.rec = [p.rec EXCEPT ![c] = [@ EXCEPT !.idle_over = TRUE]]
      /\ b \in Policy
  BY <1>1, <1>2 DEF Policy
<1>5. \A d \in Id : a.rec[d].open = p.rec[d].open /\ a.rec[d].reuse_count = p.rec[d].reuse_count
  <2>1. LET r == [p.rec[c] EXCEPT !.lifetime_over = TRUE]
        IN  r.open = p.rec[c].open /\ r.reuse_count = p.rec[c].reuse_count
    BY <1>1 DEF Record
  <2>2. a.rec[c] = [p.rec[c] EXCEPT !.lifetime_over = TRUE] /\ \A d \in Id \ {c} : a.rec[d] = p.rec[d]
    BY <1>1, <1>3
  <2> QED
    BY <2>1, <2>2
<1>6. \A d \in Id : b.rec[d].open = p.rec[d].open /\ b.rec[d].reuse_count = p.rec[d].reuse_count
  <2>1. LET r == [p.rec[c] EXCEPT !.idle_over = TRUE]
        IN  r.open = p.rec[c].open /\ r.reuse_count = p.rec[c].reuse_count
    BY <1>1 DEF Record
  <2>2. b.rec[c] = [p.rec[c] EXCEPT !.idle_over = TRUE] /\ \A d \in Id \ {c} : b.rec[d] = p.rec[d]
    BY <1>1, <1>4
  <2> QED
    BY <2>1, <2>2
<1> HIDE DEF a, b
<1>7. PolicyInv(a, L)
  <2>1. /\ a \in Policy /\ a.idle \subseteq p.idle
        /\ a.busy = p.busy /\ a.next_id = p.next_id
    BY <1>3
  <2> QED
    BY <1>5, <2>1, ShrinkKeeps
<1>8. PolicyInv(b, L)
  <2>1. /\ b \in Policy /\ b.idle \subseteq p.idle
        /\ b.busy = p.busy /\ b.next_id = p.next_id
    BY <1>4
  <2> QED
    BY <1>6, <2>1, ShrinkKeeps
<1> QED
  BY <1>7, <1>8 DEF a, b

-----------------------------------------------------------------------------
(* The queue of waiters *)

In(x, s) == \E i \in DOMAIN s : s[i] = x
Distinct(s) == \A i, j \in DOMAIN s : s[i] = s[j] => i = j

\* std::erase on a queue without duplicates takes exactly r away.
LEMMA EraseFacts ==
  ASSUME NEW S, NEW s \in Seq(S), NEW r, Distinct(s), In(r, s)
  PROVE  /\ Erase(s, r) \in Seq(S)
         /\ Len(Erase(s, r)) = Len(s) - 1
         /\ Distinct(Erase(s, r))
         /\ \A x : In(x, Erase(s, r)) <=> In(x, s) /\ x # r
<1> DEFINE at == CHOOSE i \in DOMAIN s : s[i] = r
           e == [i \in 1 .. Len(s) - 1 |-> IF i < at THEN s[i] ELSE s[i + 1]]
<1>1. at \in DOMAIN s /\ s[at] = r
  BY DEF In
<1>2. Erase(s, r) = e
  BY DEF Erase, In
<1>3. Len(s) \in Nat /\ DOMAIN s = 1 .. Len(s) /\ \A i \in 1 .. Len(s) : s[i] \in S
  OBVIOUS
<1> HIDE DEF at
<1>4. \A i \in 1 .. Len(s) - 1 : e[i] \in S
  BY <1>1, <1>3
<1>5. e \in Seq(S) /\ Len(e) = Len(s) - 1 /\ DOMAIN e = 1 .. Len(s) - 1
  <2>1. Len(s) - 1 \in Nat
    BY <1>1, <1>3
  <2> QED
    BY <2>1, <1>4
<1>6. Distinct(e)
  BY <1>1, <1>3, <1>5 DEF Distinct
<1>7. ASSUME NEW x PROVE In(x, e) <=> In(x, s) /\ x # r
  <2>1. ASSUME In(x, e) PROVE In(x, s) /\ x # r
    BY <1>1, <1>3, <1>5, <2>1 DEF In, Distinct
  <2>2. ASSUME In(x, s), x # r PROVE In(x, e)
    <3>1. PICK i \in DOMAIN s : s[i] = x
      BY <2>2 DEF In
    <3>2. i # at
      BY <1>1, <2>2, <3>1
    <3>3. CASE i < at
      <4>1. i \in 1 .. Len(s) - 1 /\ e[i] = x
        BY <1>1, <1>3, <3>1, <3>3
      <4> QED
        BY <4>1, <1>5 DEF In
    <3>4. CASE i > at
      <4>1. i - 1 \in 1 .. Len(s) - 1 /\ e[i - 1] = x
        BY <1>1, <1>3, <3>1, <3>4
      <4> QED
        BY <4>1, <1>5 DEF In
    <3> QED
      BY <1>1, <1>3, <3>1, <3>2, <3>3, <3>4
  <2> QED
    BY <2>1, <2>2
<1> QED
  BY <1>2, <1>5, <1>6, <1>7

\* Appending a request that is not in the queue.
LEMMA AppendFacts ==
  ASSUME NEW S, NEW s \in Seq(S), NEW r \in S, Distinct(s), ~In(r, s)
  PROVE  /\ Append(s, r) \in Seq(S)
         /\ Len(Append(s, r)) = Len(s) + 1
         /\ Distinct(Append(s, r))
         /\ \A x : In(x, Append(s, r)) <=> In(x, s) \/ x = r
<1> DEFINE e == Append(s, r)
<1>1. /\ e \in Seq(S) /\ Len(e) = Len(s) + 1 /\ Len(s) \in Nat
      /\ DOMAIN s = 1 .. Len(s) /\ DOMAIN e = 1 .. Len(s) + 1
      /\ \A i \in 1 .. Len(s) : e[i] = s[i]
      /\ e[Len(s) + 1] = r
  OBVIOUS
<1> HIDE DEF e
<1>2. Distinct(e)
  BY <1>1 DEF Distinct, In
<1>3. \A x : In(x, e) <=> In(x, s) \/ x = r
  <2>1. ASSUME NEW x, In(x, s) PROVE In(x, e)
    BY <1>1, <2>1 DEF In
  <2>2. In(r, e)
    BY <1>1 DEF In
  <2>3. ASSUME NEW x, In(x, e) PROVE In(x, s) \/ x = r
    BY <1>1, <2>3 DEF In
  <2> QED
    BY <2>1, <2>2, <2>3
<1> QED
  BY <1>1, <1>2, <1>3 DEF e

-----------------------------------------------------------------------------
(* The inductive invariant *)

\* A request that owns a lease has been answered; a request whose waiter is done
\* or has a timer is where it should be; the queue and the replies agree with pc.
RequestInv ==
    /\ \A r \in Requests : lease[r] # NoLease => pc[r] \in {"replied", "holding"}
    /\ \A r \in Requests : pc[r] = "holding" => lease[r] # NoLease
    /\ \A r \in Requests : done[r] => pc[r] \notin {"new", "posted", "waiting"}
    /\ \A r \in Requests : timer[r] # "off" => pc[r] = "waiting" \/ done[r]
    /\ Len(waiters) <= max_waiters
    /\ CompletedOnce

IInv == /\ TypeOK
        /\ PolicyInv(policy, Leased)
        /\ LeaseExclusive
        /\ RequestInv
        /\ NoWaiterBesideIdle

(* How the set of leased connections moves *)

\* A request without a lease obtains one on c.
LEMMA GrantMoves ==
  ASSUME TypeOK, NEW r \in Requests, NEW c \in Id, lease[r] = NoLease,
         lease' = [lease EXCEPT ![r] = c]
  PROVE  Held' = Held \cup {c}
<1>1. \A s \in Requests : lease'[s] = IF s = r THEN c ELSE lease[s]
  BY DEF TypeOK
<1>2. \A d \in Id : (\E s \in Requests : lease'[s] = d) <=> d = c \/ \E s \in Requests : lease[s] = d
  BY <1>1, IdFacts
<1> QED
  BY <1>2 DEF Held

\* The handler that returns connection m.conn has run.
LEMMA PostedMoves ==
  ASSUME TypeOK, LeaseExclusive, NEW m \in posted, posted' = posted \ {m}
  PROVE  /\ InReturn' = InReturn \ {m.conn}
         /\ m.conn \in InReturn /\ m.conn \in Id
         /\ posted' \subseteq Message
<1>1. \A n \in posted : n.conn = m.conn => n = m
  BY DEF LeaseExclusive
<1>2. m.conn \in Id
  BY DEF TypeOK, Message
<1> QED
  BY <1>1, <1>2 DEF InReturn, TypeOK

\* A request's lease moves into a posted handler.
LEMMA ReturnMoves ==
  ASSUME TypeOK, LeaseExclusive, NEW r \in Requests, NEW op, lease[r] # NoLease,
         posted' = posted \cup {[op |-> op, conn |-> lease[r]]},
         lease' = [lease EXCEPT ![r] = NoLease]
  PROVE  /\ Held' = Held \ {lease[r]}
         /\ InReturn' = InReturn \cup {lease[r]}
         /\ lease[r] \in Id /\ lease[r] \in Held
<1>1. lease[r] \in Id /\ lease[r] \in Held
  BY DEF TypeOK, Held
<1>2. \A s \in Requests : lease'[s] = IF s = r THEN NoLease ELSE lease[s]
  BY DEF TypeOK
<1>3. \A s \in Requests : lease[s] = lease[r] => s = r
  BY DEF LeaseExclusive
<1>4. \A d \in Id : (\E s \in Requests : lease'[s] = d) <=> d # lease[r] /\ \E s \in Requests : lease[s] = d
  BY <1>1, <1>2, <1>3, IdFacts
<1>5. Held' = Held \ {lease[r]}
  BY <1>1, <1>4 DEF Held
<1>6. InReturn' = InReturn \cup {lease[r]}
  <2> DEFINE m == [op |-> op, conn |-> lease[r]]
  <2>1. m.conn = lease[r] /\ posted' = posted \cup {m}
    OBVIOUS
  <2> HIDE DEF m
  <2> QED
    BY <2>1 DEF InReturn
<1> QED
  BY <1>1, <1>5, <1>6

\* Nothing moves when leases and posted handlers stay.
LEMMA NothingMoves ==
  ASSUME UNCHANGED <<lease, posted>>
  PROVE  Held' = Held /\ InReturn' = InReturn /\ Leased' = Leased
  BY DEF Held, InReturn, Leased

\* Exclusivity after a grant: the new connection was nobody's.
LEMMA GrantExclusive ==
  ASSUME TypeOK, LeaseExclusive, NEW r \in Requests, NEW c \in Id, lease[r] = NoLease,
         lease' = [lease EXCEPT ![r] = c], posted' \subseteq posted,
         c \notin Held, c \notin InReturn', Leased' \cap policy'.idle = {}
  PROVE  LeaseExclusive'
<1>1. \A s \in Requests : lease'[s] = IF s = r THEN c ELSE lease[s]
  BY DEF TypeOK
<1>2. \A s \in Requests : lease[s] # c
  BY DEF Held
<1>3. \A s, t \in Requests : lease'[s] = lease'[t] /\ lease'[s] # NoLease => s = t
  BY <1>1, <1>2 DEF LeaseExclusive
<1>4. \A m, n \in posted' : m.conn = n.conn => m = n
  BY DEF LeaseExclusive
<1>5. Held' = Held \cup {c}
  BY GrantMoves
<1>6. InReturn' \subseteq InReturn
  BY DEF InReturn
<1>7. Held' \cap InReturn' = {}
  BY <1>5, <1>6 DEF LeaseExclusive
<1> QED
  BY <1>3, <1>4, <1>7 DEF LeaseExclusive

-----------------------------------------------------------------------------
(* How a request moves *)

RequestTypes ==
    /\ waiters \in Seq(Requests)
    /\ done \in [Requests -> BOOLEAN]
    /\ timer \in [Requests -> {"off", "armed", "fired"}]
    /\ pc \in [Requests -> {"new", "posted", "waiting", "replied", "holding", "done"}]
    /\ lease \in [Requests -> Id \cup {NoLease}]
    /\ error \in [Requests -> {"none", "operation_aborted", "no_buffer_space", "timed_out"}]
    /\ replies \in [Requests -> Nat]
Errors == {"none", "operation_aborted", "no_buffer_space", "timed_out"}

\* The queue in the words of the lemmas on sequences.
LEMMA QueueFacts ==
  ASSUME RequestInv
  PROVE  /\ Distinct(waiters)
         /\ \A r \in Requests : pc[r] = "waiting" <=> In(r, waiters)
  BY DEF RequestInv, CompletedOnce, Distinct, In

\* A request that was posted is answered at once.
LEMMA ReplyKeeps ==
  ASSUME RequestTypes, RequestInv, NEW r \in Requests, pc[r] = "posted",
         NEW e \in Errors, NEW c \in Id \cup {NoLease}, Reply(r, e, c),
         UNCHANGED <<waiters, done, timer>>
  PROVE  RequestTypes' /\ RequestInv' /\ lease[r] = NoLease
<1>1. /\ \A s \in Requests : pc'[s] = IF s = r THEN "replied" ELSE pc[s]
      /\ \A s \in Requests : lease'[s] = IF s = r THEN c ELSE lease[s]
      /\ \A s \in Requests : replies'[s] = IF s = r THEN replies[r] + 1 ELSE replies[s]
  BY DEF Reply, RequestTypes
<1>2. RequestTypes'
  BY DEF RequestTypes, Reply, Errors
<1>3. lease[r] = NoLease /\ replies[r] = 0
  BY DEF RequestInv, CompletedOnce
<1>4. CompletedOnce'
  BY <1>1, <1>3 DEF CompletedOnce, RequestInv, RequestTypes
<1> QED
  BY <1>1, <1>2, <1>3, <1>4 DEF RequestInv, RequestTypes

\* completeWaiter answers a queued request and takes it out of the queue; for a
\* request that is done already it does nothing.
LEMMA CompleteKeeps ==
  ASSUME RequestTypes, RequestInv, NEW w \in Requests, NEW e \in Errors,
         NEW c \in Id \cup {NoLease}, NEW tm \in [Requests -> {"off", "armed", "fired"}],
         \A s \in Requests : tm[s] # "off" => timer[s] # "off",
         pc[w] = "waiting" \/ done[w],
         completeWaiter(w, e, c, tm)
  PROVE  /\ RequestTypes' /\ RequestInv'
         /\ done[w] => UNCHANGED <<waiters, lease>>
         /\ ~done[w] => /\ lease[w] = NoLease /\ lease' = [lease EXCEPT ![w] = c]
                        /\ waiters # <<>>
<1>1. CASE done[w]
  <2>1. timer' = tm /\ UNCHANGED <<waiters, done, pc, lease, error, replies>>
    BY <1>1 DEF completeWaiter
  <2>2. RequestTypes'
    BY <2>1 DEF RequestTypes
  <2>3. CompletedOnce'
    BY <2>1 DEF RequestInv, CompletedOnce
  <2>4. RequestInv'
    BY <2>1, <2>3 DEF RequestInv
  <2> QED
    BY <1>1, <2>1, <2>2, <2>4
<1>2. CASE ~done[w]
  <2>1. /\ done' = [done EXCEPT ![w] = TRUE]
        /\ timer' = [tm EXCEPT ![w] = Cancelled(@)]
        /\ waiters' = Erase(waiters, w)
        /\ Reply(w, e, c)
    BY <1>2 DEF completeWaiter
  <2>2. pc[w] = "waiting" /\ lease[w] = NoLease /\ replies[w] = 0
    BY <1>2 DEF RequestInv, CompletedOnce
  <2>3. Distinct(waiters) /\ In(w, waiters) /\ \A r \in Requests : pc[r] = "waiting" <=> In(r, waiters)
    BY <2>2, QueueFacts
  <2>4. /\ waiters' \in Seq(Requests) /\ Len(waiters') = Len(waiters) - 1 /\ Distinct(waiters')
        /\ \A x : In(x, waiters') <=> In(x, waiters) /\ x # w
    BY <2>1, <2>3, EraseFacts DEF RequestTypes
  <2>5. /\ \A s \in Requests : pc'[s] = IF s = w THEN "replied" ELSE pc[s]
        /\ \A s \in Requests : lease'[s] = IF s = w THEN c ELSE lease[s]
        /\ \A s \in Requests : replies'[s] = IF s = w THEN replies[w] + 1 ELSE replies[s]
        /\ \A s \in Requests : done'[s] = IF s = w THEN TRUE ELSE done[s]
        /\ lease' = [lease EXCEPT ![w] = c]
    BY <2>1 DEF Reply, RequestTypes
  <2>6. timer' \in [Requests -> {"off", "armed", "fired"}]
        /\ \A s \in Requests : s # w => timer'[s] = tm[s]
    BY <2>1 DEF Cancelled
  <2>7. RequestTypes'
    BY <2>1, <2>4, <2>6 DEF RequestTypes, Reply, Errors
  <2>8. CompletedOnce'
    <3>1. \A s \in Requests : replies'[s] = IF pc'[s] \in {"new", "posted", "waiting"} THEN 0 ELSE 1
      BY <2>2, <2>5 DEF RequestInv, CompletedOnce
    <3>2. \A s \in Requests : pc'[s] = "waiting" <=> In(s, waiters')
      BY <2>3, <2>4, <2>5
    <3> QED
      BY <2>4, <3>1, <3>2 DEF CompletedOnce, In, Distinct
  <2>9. /\ \A s \in Requests : lease'[s] # NoLease => pc'[s] \in {"replied", "holding"}
        /\ \A s \in Requests : pc'[s] = "holding" => lease'[s] # NoLease
        /\ \A s \in Requests : done'[s] => pc'[s] \notin {"new", "posted", "waiting"}
        /\ \A s \in Requests : timer'[s] # "off" => pc'[s] = "waiting" \/ done'[s]
    <3>1. \A s \in Requests : /\ lease[s] # NoLease => pc[s] \in {"replied", "holding"}
                              /\ pc[s] = "holding" => lease[s] # NoLease
                              /\ done[s] => pc[s] \notin {"new", "posted", "waiting"}
                              /\ tm[s] # "off" => pc[s] = "waiting" \/ done[s]
      BY DEF RequestInv
    <3>2. ASSUME NEW s \in Requests
          PROVE  /\ lease'[s] # NoLease => pc'[s] \in {"replied", "holding"}
                 /\ pc'[s] = "holding" => lease'[s] # NoLease
                 /\ done'[s] => pc'[s] \notin {"new", "posted", "waiting"}
                 /\ timer'[s] # "off" => pc'[s] = "waiting" \/ done'[s]
      <4>1. CASE s = w
        BY <2>5, <4>1
      <4>2. CASE s # w
        <5>1. /\ pc'[s] = pc[s] /\ lease'[s] = lease[s] /\ done'[s] = done[s] /\ timer'[s] = tm[s]
          BY <2>5, <2>6, <4>2
        <5> QED
          BY <3>1, <5>1
      <4> QED
        BY <4>1, <4>2
    <3> QED
      BY <3>2
  <2>10. Len(waiters') <= max_waiters
    BY <2>4, PoolLimits DEF RequestInv, RequestTypes
  <2>11. waiters # <<>>
    BY <2>3 DEF In
  <2> QED
    BY <1>2, <2>2, <2>5, <2>7, <2>8, <2>9, <2>10, <2>11 DEF RequestInv
<1> QED
  BY <1>1, <1>2

\* The front of the queue is a request that waits.
LEMMA HeadWaits ==
  ASSUME RequestTypes, RequestInv, waiters # <<>>
  PROVE  /\ Head(waiters) \in Requests
         /\ pc[Head(waiters)] = "waiting" /\ ~done[Head(waiters)]
         /\ lease[Head(waiters)] = NoLease
<1>1. 1 \in DOMAIN waiters /\ Head(waiters) = waiters[1] /\ waiters[1] \in Requests
  BY DEF RequestTypes
<1>2. In(Head(waiters), waiters)
  BY <1>1 DEF In
<1>3. pc[Head(waiters)] = "waiting"
  BY <1>1, <1>2, QueueFacts
<1> QED
  BY <1>1, <1>3 DEF RequestInv

-----------------------------------------------------------------------------
(* Every handler preserves the invariant *)

LEMMA IInvFacts ==
  ASSUME IInv
  PROVE  /\ TypeOK /\ RequestTypes /\ RequestInv /\ LeaseExclusive /\ NoWaiterBesideIdle
         /\ PolicyInv(policy, Leased)
  BY DEF IInv, TypeOK, RequestTypes

\* The parts of IInv' put together; PolicyInv types the policy.
LEMMA Assemble ==
  ASSUME RequestTypes', RequestInv', LeaseExclusive', NoWaiterBesideIdle',
         PolicyInv(policy, Leased)',
         stopping' \in BOOLEAN, cleanup_scheduled' \in BOOLEAN,
         cleanup_timer' \in {"off", "armed", "fired"}, posted' \subseteq Message,
         stop_call' \in {"none", "posted", "handled"}
  PROVE  IInv'
  BY DEF IInv, TypeOK, RequestTypes, PolicyInv

\* With the same leases, posts and policy, exclusivity and bookkeeping stay.
LEMMA SamePolicy ==
  ASSUME IInv, UNCHANGED <<policy, lease, posted>>
  PROVE  LeaseExclusive' /\ PolicyInv(policy, Leased)'
<1>1. Held' = Held /\ InReturn' = InReturn /\ Leased' = Leased
  BY NothingMoves
<1> QED
  BY <1>1 DEF IInv, LeaseExclusive, PolicyInv, InUse

\* With the same leases and posts, a policy with fewer idle connections.
LEMMA ShrunkPolicy ==
  ASSUME IInv, UNCHANGED <<lease, posted>>, PolicyInv(policy', Leased), policy'.idle \subseteq policy.idle
  PROVE  LeaseExclusive' /\ PolicyInv(policy, Leased)'
<1>1. Held' = Held /\ InReturn' = InReturn /\ Leased' = Leased
  BY NothingMoves
<1>2. PolicyInv(policy, Leased)'
  BY <1>1 DEF PolicyInv, InUse
<1>3. LeaseExclusive'
  BY <1>1 DEF IInv, LeaseExclusive
<1> QED
  BY <1>2, <1>3

LEMMA AsyncAcquireKeeps ==
  ASSUME IInv, NEW r \in Requests, AsyncAcquire(r)
  PROVE  IInv'
<1>1. /\ pc[r] = "new" /\ pc' = [pc EXCEPT ![r] = "posted"]
      /\ UNCHANGED <<policy, waiters, done, timer, stopping, cleanup_scheduled, cleanup_timer,
                     posted, lease, error, replies, stop_call>>
  BY DEF AsyncAcquire, cleanupVars
<1>2. RequestTypes'
  BY <1>1, IInvFacts DEF RequestTypes
<1>3. \A s \in Requests : pc'[s] = IF s = r THEN "posted" ELSE pc[s]
  BY <1>1, IInvFacts DEF RequestTypes
<1>4. CompletedOnce'
  BY <1>1, <1>3, IInvFacts DEF RequestInv, CompletedOnce
<1>5. RequestInv'
  BY <1>1, <1>3, <1>4, IInvFacts DEF RequestInv
<1>6. NoWaiterBesideIdle'
  BY <1>1, IInvFacts DEF NoWaiterBesideIdle
<1> QED
  BY <1>1, <1>2, <1>5, <1>6, SamePolicy, Assemble, IInvFacts DEF TypeOK

LEMMA ResumeKeeps ==
  ASSUME IInv, NEW r \in Requests, Resume(r)
  PROVE  IInv'
<1>1. /\ pc[r] = "replied"
      /\ pc' = [pc EXCEPT ![r] = IF lease[r] = NoLease THEN "done" ELSE "holding"]
      /\ UNCHANGED <<policy, waiters, done, timer, stopping, cleanup_scheduled, cleanup_timer,
                     posted, lease, error, replies, stop_call>>
  BY DEF Resume, cleanupVars
<1>2. RequestTypes'
  BY <1>1, IInvFacts DEF RequestTypes
<1>3. \A s \in Requests :
         pc'[s] = IF s = r THEN IF lease[r] = NoLease THEN "done" ELSE "holding" ELSE pc[s]
  BY <1>1, IInvFacts DEF RequestTypes
<1>4. CompletedOnce'
  BY <1>1, <1>3, IInvFacts DEF RequestInv, CompletedOnce
<1>5. RequestInv'
  BY <1>1, <1>3, <1>4, IInvFacts DEF RequestInv
<1>6. NoWaiterBesideIdle'
  BY <1>1, IInvFacts DEF NoWaiterBesideIdle
<1> QED
  BY <1>1, <1>2, <1>5, <1>6, SamePolicy, Assemble, IInvFacts DEF TypeOK

\* scheduleCleanup keeps the types of what it sets.
LEMMA CleanupTypes ==
  ASSUME NEW s \in BOOLEAN, NEW t \in {"off", "armed", "fired"}, scheduleCleanup(s, t)
  PROVE  cleanup_scheduled' \in BOOLEAN /\ cleanup_timer' \in {"off", "armed", "fired"}
  BY DEF scheduleCleanup

\* A granted acquire: the policy leases a connection that nobody has.
LEMMA GrantKeeps ==
  ASSUME IInv, NEW r \in Requests, NEW c \in Id, lease[r] = NoLease,
         acquire(policy, policy', c), lease' = [lease EXCEPT ![r] = c], posted' = posted
  PROVE  /\ LeaseExclusive' /\ PolicyInv(policy, Leased)' /\ policy'.idle \subseteq policy.idle
<1>1. /\ PolicyInv(policy', Leased \cup {c}) /\ c \notin Leased /\ policy'.idle \subseteq policy.idle
  BY IInvFacts, IdFacts, AcquireKeeps
<1>2. Held' = Held \cup {c} /\ InReturn' = InReturn /\ Leased' = Leased \cup {c}
  BY IInvFacts, GrantMoves DEF InReturn, Leased
<1>3. PolicyInv(policy, Leased)'
  BY <1>1, <1>2 DEF PolicyInv, InUse
<1>4. LeaseExclusive'
  BY <1>1, <1>2, <1>3, IInvFacts, GrantExclusive DEF PolicyInv, Leased
<1> QED
  BY <1>1, <1>3, <1>4

LEMMA AcquireHandlerKeeps ==
  ASSUME IInv, NEW r \in Requests, AcquireHandler(r)
  PROVE  IInv'
<1>1. /\ pc[r] = "posted" /\ UNCHANGED <<stopping, posted, stop_call>>
      /\ cleanup_scheduled' \in BOOLEAN /\ cleanup_timer' \in {"off", "armed", "fired"}
  BY IInvFacts, CleanupTypes DEF AcquireHandler, TypeOK
<1>2. CASE AcquireAborted(r)
  <2>1. Reply(r, "operation_aborted", NoLease) /\ UNCHANGED <<policy, waiters, done, timer>>
    BY <1>2 DEF AcquireAborted
  <2>2. RequestTypes' /\ RequestInv' /\ lease[r] = NoLease
    BY <1>1, <2>1, IInvFacts, ReplyKeeps DEF Errors
  <2>3. lease' = lease
    BY <2>1, <2>2, IInvFacts DEF Reply, RequestTypes
  <2>4. NoWaiterBesideIdle'
    BY <1>1, <2>1, IInvFacts DEF NoWaiterBesideIdle
  <2> QED
    BY <1>1, <2>1, <2>2, <2>3, <2>4, SamePolicy, Assemble, IInvFacts DEF TypeOK
<1>3. ASSUME NEW c \in Id, AcquireGranted(r, c) PROVE IInv'
  <2>1. /\ acquire(policy, policy', c) /\ Reply(r, "none", c) /\ UNCHANGED <<waiters, done, timer>>
    BY <1>3 DEF AcquireGranted
  <2>2. RequestTypes' /\ RequestInv' /\ lease[r] = NoLease
    BY <1>1, <2>1, IInvFacts, ReplyKeeps DEF Errors
  <2>3. LeaseExclusive' /\ PolicyInv(policy, Leased)' /\ policy'.idle \subseteq policy.idle
    BY <1>1, <2>1, <2>2, GrantKeeps DEF Reply
  <2>4. NoWaiterBesideIdle'
    BY <1>1, <2>1, <2>3, IInvFacts DEF NoWaiterBesideIdle
  <2> QED
    BY <1>1, <2>2, <2>3, <2>4, Assemble, IInvFacts DEF TypeOK
<1>4. CASE AcquireRejected(r)
  <2>1. /\ acquire(policy, policy', NoLease) /\ Reply(r, "no_buffer_space", NoLease)
        /\ UNCHANGED <<waiters, done, timer>>
    BY <1>4 DEF AcquireRejected
  <2>2. RequestTypes' /\ RequestInv' /\ lease[r] = NoLease
    BY <1>1, <2>1, IInvFacts, ReplyKeeps DEF Errors
  <2>3. lease' = lease
    BY <2>1, <2>2, IInvFacts DEF Reply, RequestTypes
  <2>4. PolicyInv(policy', Leased) /\ policy'.idle = {} /\ policy'.idle \subseteq policy.idle
    BY <2>1, IInvFacts, AcquireKeeps
  <2>5. NoWaiterBesideIdle'
    BY <1>1, <2>1, <2>4, IInvFacts DEF NoWaiterBesideIdle
  <2> QED
    BY <1>1, <2>2, <2>3, <2>4, <2>5, ShrunkPolicy, Assemble, IInvFacts DEF TypeOK
<1>5. CASE AcquireQueued(r)
  <2>1. /\ ~stopping /\ acquire(policy, policy', NoLease) /\ Len(waiters) < max_waiters
        /\ pc' = [pc EXCEPT ![r] = "waiting"] /\ waiters' = Append(waiters, r)
        /\ timer' = [timer EXCEPT ![r] = "armed"] /\ UNCHANGED <<done, lease, error, replies>>
    BY <1>5 DEF AcquireQueued
  <2>2. Distinct(waiters) /\ ~In(r, waiters) /\ \A s \in Requests : pc[s] = "waiting" <=> In(s, waiters)
    BY <1>1, IInvFacts, QueueFacts
  <2>3. /\ waiters' \in Seq(Requests) /\ Len(waiters') = Len(waiters) + 1 /\ Distinct(waiters')
        /\ \A x : In(x, waiters') <=> In(x, waiters) \/ x = r
    BY <2>1, <2>2, IInvFacts, AppendFacts DEF RequestTypes
  <2>4. RequestTypes'
    BY <2>1, <2>3, IInvFacts DEF RequestTypes
  <2>5. /\ \A s \in Requests : pc'[s] = IF s = r THEN "waiting" ELSE pc[s]
        /\ \A s \in Requests : timer'[s] = IF s = r THEN "armed" ELSE timer[s]
    BY <2>1, IInvFacts DEF RequestTypes
  <2>6. CompletedOnce'
    <3>1. \A s \in Requests : replies'[s] = IF pc'[s] \in {"new", "posted", "waiting"} THEN 0 ELSE 1
      BY <1>1, <2>1, <2>5, IInvFacts DEF RequestInv, CompletedOnce
    <3>2. \A s \in Requests : pc'[s] = "waiting" <=> In(s, waiters')
      BY <2>2, <2>3, <2>5
    <3> QED
      BY <2>3, <3>1, <3>2 DEF CompletedOnce, In, Distinct
  <2>7. /\ \A s \in Requests : lease'[s] # NoLease => pc'[s] \in {"replied", "holding"}
        /\ \A s \in Requests : pc'[s] = "holding" => lease'[s] # NoLease
        /\ \A s \in Requests : done'[s] => pc'[s] \notin {"new", "posted", "waiting"}
        /\ \A s \in Requests : timer'[s] # "off" => pc'[s] = "waiting" \/ done'[s]
    BY <1>1, <2>1, <2>5, IInvFacts DEF RequestInv
  <2>8. Len(waiters') <= max_waiters
    BY <2>1, <2>3, PoolLimits, IInvFacts DEF RequestTypes
  <2>9. PolicyInv(policy', Leased) /\ policy'.idle = {} /\ policy'.idle \subseteq policy.idle
    BY <2>1, IInvFacts, AcquireKeeps
  <2>10. NoWaiterBesideIdle'
    BY <1>1, <2>1, <2>9 DEF NoWaiterBesideIdle
  <2>11. RequestInv'
    BY <2>6, <2>7, <2>8 DEF RequestInv
  <2> QED
    BY <1>1, <2>1, <2>4, <2>9, <2>10, <2>11, ShrunkPolicy, Assemble, IInvFacts DEF TypeOK
<1> QED
  BY <1>2, <1>3, <1>4, <1>5 DEF AcquireHandler

LEMMA ReturnLeaseKeeps ==
  ASSUME IInv, NEW r \in Requests, NEW op \in {"release", "discard", "abandon"}, ReturnLease(r, op)
  PROVE  IInv'
<1> DEFINE c == lease[r]
           m == [op |-> op, conn |-> c]
<1>1. /\ pc[r] = "holding"
      /\ posted' = posted \cup {m}
      /\ lease' = [lease EXCEPT ![r] = NoLease]
      /\ pc' = [pc EXCEPT ![r] = "done"]
      /\ UNCHANGED <<policy, waiters, done, timer, stopping, cleanup_scheduled, cleanup_timer,
                     error, replies, stop_call>>
  BY DEF ReturnLease, cleanupVars
<1>2. c # NoLease
  BY <1>1, IInvFacts DEF RequestInv
<1>3. /\ Held' = Held \ {c} /\ InReturn' = InReturn \cup {c} /\ c \in Id /\ c \in Held
  BY <1>1, <1>2, IInvFacts, ReturnMoves
<1>4. m.conn = c /\ m \in Message
  BY <1>3 DEF Message
<1> HIDE DEF m
<1>5. Leased' = Leased
  BY <1>3 DEF Leased
<1>6. PolicyInv(policy, Leased)'
  BY <1>1, <1>5, IInvFacts DEF PolicyInv, InUse
<1>7. \A s \in Requests : /\ lease'[s] = IF s = r THEN NoLease ELSE lease[s]
                          /\ pc'[s] = IF s = r THEN "done" ELSE pc[s]
  BY <1>1, IInvFacts DEF RequestTypes
<1>8. LeaseExclusive'
  <2>1. \A s, t \in Requests : lease'[s] = lease'[t] /\ lease'[s] # NoLease => s = t
    BY <1>7, IInvFacts DEF LeaseExclusive
  <2>2. \A n \in posted : n.conn # c
    BY <1>3, IInvFacts DEF LeaseExclusive, InReturn
  <2>3. \A n, k \in posted' : n.conn = k.conn => n = k
    BY <1>1, <1>4, <2>2, IInvFacts DEF LeaseExclusive
  <2>4. Held' \cap InReturn' = {}
    BY <1>3, IInvFacts DEF LeaseExclusive
  <2>5. Leased' \cap policy'.idle = {}
    BY <1>1, <1>5, IInvFacts DEF LeaseExclusive
  <2> QED
    BY <2>1, <2>3, <2>4, <2>5 DEF LeaseExclusive
<1>9. RequestTypes'
  BY <1>1, IInvFacts DEF RequestTypes
<1>10. CompletedOnce'
  BY <1>1, <1>7, IInvFacts DEF RequestInv, CompletedOnce
<1>11. RequestInv'
  BY <1>1, <1>7, <1>10, IInvFacts DEF RequestInv
<1>12. NoWaiterBesideIdle'
  BY <1>1, IInvFacts DEF NoWaiterBesideIdle
<1>13. posted' \subseteq Message
  BY <1>1, <1>4, IInvFacts DEF TypeOK
<1> QED
  BY <1>1, <1>6, <1>8, <1>9, <1>11, <1>12, <1>13, Assemble, IInvFacts DEF TypeOK

\* A returned connection leaves the lease in both handlers.
LEMMA ReturnedLeaves ==
  ASSUME IInv, NEW m \in posted, posted' = posted \ {m}
  PROVE  /\ m.conn \in Leased /\ m.conn \in Id
         /\ InReturn' = InReturn \ {m.conn} /\ m.conn \notin Held
         /\ posted' \subseteq Message
<1>1. /\ InReturn' = InReturn \ {m.conn} /\ m.conn \in InReturn /\ m.conn \in Id
      /\ posted' \subseteq Message
  BY IInvFacts, PostedMoves
<1>2. m.conn \notin Held
  BY <1>1, IInvFacts DEF LeaseExclusive
<1> QED
  BY <1>1, <1>2 DEF Leased

LEMMA ReturnedExclusive ==
  ASSUME IInv, NEW m \in posted, posted' = posted \ {m}, lease' = lease,
         PolicyInv(policy', Leased \ {m.conn})
  PROVE  LeaseExclusive' /\ PolicyInv(policy, Leased)'
<1>1. InReturn' = InReturn \ {m.conn} /\ m.conn \notin Held
  BY ReturnedLeaves
<1>2. Held' = Held
  BY DEF Held
<1>3. Leased' = Leased \ {m.conn}
  BY <1>1, <1>2 DEF Leased
<1>4. PolicyInv(policy, Leased)'
  BY <1>3 DEF PolicyInv, InUse
<1>5. \A n, k \in posted' : n.conn = k.conn => n = k
  BY IInvFacts DEF LeaseExclusive
<1>6. \A s, t \in Requests : lease'[s] = lease'[t] /\ lease'[s] # NoLease => s = t
  BY IInvFacts DEF LeaseExclusive
<1>7. Held' \cap InReturn' = {}
  BY <1>1, <1>2, IInvFacts DEF LeaseExclusive
<1>8. Leased' \cap policy'.idle = {}
  BY <1>4 DEF PolicyInv
<1> QED
  BY <1>4, <1>5, <1>6, <1>7, <1>8 DEF LeaseExclusive

LEMMA DiscardHandlerKeeps ==
  ASSUME IInv, NEW m \in posted, DiscardHandler(m)
  PROVE  IInv'
<1>1. /\ posted' = posted \ {m} /\ policy' = discard(policy, m.conn)
      /\ UNCHANGED <<waiters, done, timer, pc, lease, error, replies, stopping,
                     cleanup_scheduled, cleanup_timer, stop_call>>
  BY DEF DiscardHandler, waiterVars, cleanupVars
<1>2. m.conn \in Leased /\ posted' \subseteq Message
  BY <1>1, ReturnedLeaves
<1>3. PolicyInv(policy', Leased \ {m.conn})
  BY <1>1, <1>2, IInvFacts, DiscardKeeps
<1>4. LeaseExclusive' /\ PolicyInv(policy, Leased)'
  BY <1>1, <1>3, ReturnedExclusive
<1>5. policy'.idle = policy.idle
  BY <1>1 DEF discard
<1>6. RequestTypes'
  BY <1>1, IInvFacts DEF RequestTypes
<1>7. RequestInv'
  BY <1>1, IInvFacts DEF RequestInv, CompletedOnce
<1>8. NoWaiterBesideIdle'
  BY <1>1, <1>5, IInvFacts DEF NoWaiterBesideIdle
<1> QED
  BY <1>1, <1>2, <1>4, <1>6, <1>7, <1>8, Assemble, IInvFacts DEF TypeOK

\* A release that finds a waiter hands over in the same step.
LEMMA ReleaseHandlerKeeps ==
  ASSUME IInv, NEW m \in posted, ReleaseHandler(m)
  PROVE  IInv'
<1> DEFINE p == releaseReusable(policy, m.conn)
           L == Leased \ {m.conn}
<1>1. /\ posted' = posted \ {m} /\ satisfyOneWaiter(p)
      /\ UNCHANGED <<stopping, cleanup_scheduled, cleanup_timer, stop_call>>
  BY DEF ReleaseHandler, cleanupVars
<1>2. /\ m.conn \in Leased /\ posted' \subseteq Message /\ m.conn \in Id
      /\ InReturn' = InReturn \ {m.conn} /\ m.conn \notin Held
  BY <1>1, ReturnedLeaves
<1>3. PolicyInv(p, L)
  BY <1>2, IInvFacts, ReleaseKeeps
<1>4. p.idle \subseteq policy.idle \cup {m.conn}
  BY DEF releaseReusable
<1> HIDE DEF p
<1>5. CASE waiters = <<>>
  <2>1. policy' = p /\ UNCHANGED <<waiters, done, timer, pc, lease, error, replies>>
    BY <1>1, <1>5 DEF satisfyOneWaiter, waiterVars
  <2>2. LeaseExclusive' /\ PolicyInv(policy, Leased)'
    BY <1>1, <1>3, <2>1, ReturnedExclusive
  <2>3. RequestTypes'
    BY <2>1, IInvFacts DEF RequestTypes
  <2>4. RequestInv'
    BY <2>1, IInvFacts DEF RequestInv, CompletedOnce
  <2>5. NoWaiterBesideIdle'
    BY <1>5, <2>1 DEF NoWaiterBesideIdle
  <2> QED
    BY <1>1, <1>2, <2>2, <2>3, <2>4, <2>5, Assemble, IInvFacts DEF TypeOK
<1>6. CASE waiters # <<>>
  <2>1. PICK c \in Id \cup {NoLease} :
           /\ acquire(p, policy', c)
           /\ IF c = NoLease THEN UNCHANGED waiterVars
              ELSE completeWaiter(Head(waiters), "none", c, timer)
    BY <1>1, <1>6 DEF satisfyOneWaiter
  <2>2. /\ c # NoLease => PolicyInv(policy', L \cup {c}) /\ c \in Id /\ c \notin L
        /\ c = NoLease => PolicyInv(policy', L)
        /\ \A d : p.idle \subseteq {d} => policy'.idle = {}
    <3> HIDE DEF L
    <3>1. acquire(p, policy', c)
      BY <2>1
    <3> QED
      BY <1>3, <3>1, AcquireKeeps
  <2>3. policy'.idle = {} /\ ~stopping'
    <3>1. policy.idle = {} /\ ~stopping
      BY <1>6, IInvFacts DEF NoWaiterBesideIdle
    <3>2. p.idle \subseteq {m.conn}
      BY <1>4, <3>1
    <3>3. policy'.idle = {}
      BY <2>2, <3>2
    <3> QED
      BY <1>1, <3>1, <3>3
  <2>4. NoWaiterBesideIdle'
    BY <2>3 DEF NoWaiterBesideIdle
  <2>5. CASE c = NoLease
    <3>1. UNCHANGED <<waiters, done, timer, pc, lease, error, replies>>
      BY <2>1, <2>5 DEF waiterVars
    <3>2. LeaseExclusive' /\ PolicyInv(policy, Leased)'
      BY <1>1, <2>2, <2>5, <3>1, ReturnedExclusive
    <3>3. RequestTypes'
      BY <3>1, IInvFacts DEF RequestTypes
    <3>4. RequestInv'
      BY <3>1, IInvFacts DEF RequestInv, CompletedOnce
    <3> QED
      BY <1>1, <1>2, <2>4, <3>2, <3>3, <3>4, Assemble, IInvFacts DEF TypeOK
  <2>6. CASE c # NoLease
    <3> DEFINE w == Head(waiters)
    <3>1. w \in Requests /\ pc[w] = "waiting" /\ ~done[w] /\ lease[w] = NoLease
      BY <1>6, IInvFacts, HeadWaits
    <3>2. completeWaiter(w, "none", c, timer) /\ timer \in [Requests -> {"off", "armed", "fired"}]
      BY <2>1, <2>6, IInvFacts DEF RequestTypes
    <3> HIDE DEF w
    <3>3. RequestTypes' /\ RequestInv' /\ lease' = [lease EXCEPT ![w] = c]
      BY <3>1, <3>2, IInvFacts, CompleteKeeps DEF Errors
    <3>4. Held' = Held \cup {c}
      BY <2>2, <2>6, <3>1, <3>3, IInvFacts, GrantMoves
    <3>5. Leased' = L \cup {c}
      BY <1>2, <3>4 DEF Leased
    <3>6. PolicyInv(policy, Leased)'
      BY <2>2, <2>6, <3>5 DEF PolicyInv, InUse
    <3>7. c \notin Held /\ c \notin InReturn'
      BY <1>2, <2>2, <2>6 DEF Leased
    <3>8. LeaseExclusive'
      BY <1>1, <2>2, <2>6, <3>1, <3>3, <3>6, <3>7, IInvFacts, GrantExclusive DEF PolicyInv
    <3> QED
      BY <1>1, <1>2, <2>4, <3>3, <3>6, <3>8, Assemble, IInvFacts DEF TypeOK
  <2> QED
    BY <2>5, <2>6
<1> QED
  BY <1>5, <1>6

LEMMA WaiterTimerExpiresKeeps ==
  ASSUME IInv, NEW r \in Requests, WaiterTimerExpires(r)
  PROVE  IInv'
<1>1. /\ timer[r] = "armed" /\ timer' = [timer EXCEPT ![r] = "fired"]
      /\ UNCHANGED <<policy, waiters, done, stopping, cleanup_scheduled, cleanup_timer, posted,
                     pc, lease, error, replies, stop_call>>
  BY DEF WaiterTimerExpires, cleanupVars
<1>2. RequestTypes'
  BY <1>1, IInvFacts DEF RequestTypes
<1>3. \A s \in Requests : timer'[s] # "off" => timer[s] # "off"
  BY <1>1, IInvFacts DEF RequestTypes
<1>4. CompletedOnce'
  BY <1>1, IInvFacts DEF RequestInv, CompletedOnce
<1>5. RequestInv'
  BY <1>1, <1>3, <1>4, IInvFacts DEF RequestInv
<1>6. NoWaiterBesideIdle'
  BY <1>1, IInvFacts DEF NoWaiterBesideIdle
<1> QED
  BY <1>1, <1>2, <1>5, <1>6, SamePolicy, Assemble, IInvFacts DEF TypeOK

\* The timeout answers a request that still waits, and nobody else.
LEMMA WaiterTimerHandlerKeeps ==
  ASSUME IInv, NEW r \in Requests, WaiterTimerHandler(r)
  PROVE  IInv'
<1> DEFINE tm == [timer EXCEPT ![r] = "off"]
<1>1. /\ timer[r] = "fired" /\ completeWaiter(r, "timed_out", NoLease, tm)
      /\ UNCHANGED <<policy, stopping, cleanup_scheduled, cleanup_timer, posted, stop_call>>
  BY DEF WaiterTimerHandler, cleanupVars
<1>2. /\ tm \in [Requests -> {"off", "armed", "fired"}]
      /\ \A s \in Requests : tm[s] # "off" => timer[s] # "off"
  BY IInvFacts DEF RequestTypes
<1>3. pc[r] = "waiting" \/ done[r]
  BY <1>1, IInvFacts DEF RequestInv
<1> HIDE DEF tm
<1>4. /\ RequestTypes' /\ RequestInv'
      /\ done[r] => UNCHANGED <<waiters, lease>>
      /\ ~done[r] => /\ lease[r] = NoLease /\ lease' = [lease EXCEPT ![r] = NoLease]
                     /\ waiters # <<>>
  BY <1>1, <1>2, <1>3, IInvFacts, CompleteKeeps DEF Errors
<1>5. lease' = lease
  BY <1>4, IInvFacts DEF RequestTypes
<1>6. NoWaiterBesideIdle'
  BY <1>1, <1>4, IInvFacts DEF NoWaiterBesideIdle
<1> QED
  BY <1>1, <1>4, <1>5, <1>6, SamePolicy, Assemble, IInvFacts DEF TypeOK

\* A step that leaves the requests alone.
LEMMA RequestsStay ==
  ASSUME IInv, UNCHANGED <<waiters, done, timer, pc, lease, error, replies>>
  PROVE  RequestTypes' /\ RequestInv'
  BY IInvFacts DEF RequestTypes, RequestInv, CompletedOnce

LEMMA CleanupTimerExpiresKeeps ==
  ASSUME IInv, CleanupTimerExpires
  PROVE  IInv'
<1>1. /\ cleanup_timer' = "fired"
      /\ UNCHANGED <<policy, waiters, done, timer, pc, lease, error, replies, stopping,
                     cleanup_scheduled, posted, stop_call>>
  BY DEF CleanupTimerExpires, waiterVars
<1>2. NoWaiterBesideIdle'
  BY <1>1, IInvFacts DEF NoWaiterBesideIdle
<1> QED
  BY <1>1, <1>2, RequestsStay, SamePolicy, Assemble, IInvFacts DEF TypeOK

LEMMA CleanupHandlerKeeps ==
  ASSUME IInv, CleanupHandler
  PROVE  IInv'
<1>1. /\ policy' = pruneIdle(policy) /\ scheduleCleanup(FALSE, "off")
      /\ UNCHANGED <<waiters, done, timer, pc, lease, error, replies, stopping, posted, stop_call>>
  BY DEF CleanupHandler, waiterVars
<1>2. cleanup_scheduled' \in BOOLEAN /\ cleanup_timer' \in {"off", "armed", "fired"}
  BY <1>1, CleanupTypes
<1>3. PolicyInv(policy', Leased) /\ policy'.idle \subseteq policy.idle
  BY <1>1, IInvFacts, PruneKeeps
<1>4. NoWaiterBesideIdle'
  BY <1>1, <1>3, IInvFacts DEF NoWaiterBesideIdle
<1> QED
  BY <1>1, <1>2, <1>3, <1>4, RequestsStay, ShrunkPolicy, Assemble, IInvFacts DEF TypeOK

LEMMA StopKeeps ==
  ASSUME IInv, Stop
  PROVE  IInv'
<1>1. /\ stop_call' = "posted"
      /\ UNCHANGED <<policy, waiters, done, timer, pc, lease, error, replies, stopping,
                     cleanup_scheduled, cleanup_timer, posted>>
  BY DEF Stop, waiterVars, cleanupVars
<1>2. NoWaiterBesideIdle'
  BY <1>1, IInvFacts DEF NoWaiterBesideIdle
<1> QED
  BY <1>1, <1>2, RequestsStay, SamePolicy, Assemble, IInvFacts DEF TypeOK

\* stop() answers exactly the requests in the queue and empties it.
LEMMA StopHandlerKeeps ==
  ASSUME IInv, StopHandler
  PROVE  IInv'
<1> DEFINE aborted == {r \in Requests : \E i \in DOMAIN waiters : waiters[i] = r}
<1>1. /\ stop_call' = "handled" /\ stopping' = TRUE /\ cleanup_timer' = Cancelled(cleanup_timer)
      /\ waiters' = <<>>
      /\ done' = [r \in Requests |-> r \in aborted \/ done[r]]
      /\ timer' = [r \in Requests |-> IF r \in aborted THEN Cancelled(timer[r]) ELSE timer[r]]
      /\ pc' = [r \in Requests |-> IF r \in aborted THEN "replied" ELSE pc[r]]
      /\ error' = [r \in Requests |-> IF r \in aborted THEN "operation_aborted" ELSE error[r]]
      /\ replies' = [r \in Requests |-> IF r \in aborted THEN replies[r] + 1 ELSE replies[r]]
      /\ UNCHANGED <<policy, lease, cleanup_scheduled, posted>>
  BY DEF StopHandler
<1>2. \A r \in Requests : r \in aborted <=> pc[r] = "waiting"
  BY IInvFacts DEF RequestInv, CompletedOnce
<1>3. aborted \subseteq Requests
  OBVIOUS
<1> HIDE DEF aborted
<1>4. RequestTypes'
  <2>1. done' \in [Requests -> BOOLEAN]
    BY <1>1, IInvFacts DEF RequestTypes
  <2>2. timer' \in [Requests -> {"off", "armed", "fired"}]
    BY <1>1, IInvFacts DEF RequestTypes, Cancelled
  <2>3. replies' \in [Requests -> Nat]
    BY <1>1, IInvFacts DEF RequestTypes
  <2>4. /\ pc' \in [Requests -> {"new", "posted", "waiting", "replied", "holding", "done"}]
        /\ error' \in [Requests -> {"none", "operation_aborted", "no_buffer_space", "timed_out"}]
    BY <1>1, IInvFacts DEF RequestTypes
  <2>5. waiters' \in Seq(Requests) /\ lease' \in [Requests -> Id \cup {NoLease}]
    BY <1>1, IInvFacts DEF RequestTypes
  <2> QED
    BY <2>1, <2>2, <2>3, <2>4, <2>5 DEF RequestTypes
<1>5. ASSUME NEW s \in Requests
      PROVE  /\ lease'[s] # NoLease => pc'[s] \in {"replied", "holding"}
             /\ pc'[s] = "holding" => lease'[s] # NoLease
             /\ done'[s] => pc'[s] \notin {"new", "posted", "waiting"}
             /\ timer'[s] # "off" => pc'[s] = "waiting" \/ done'[s]
             /\ replies'[s] = IF pc'[s] \in {"new", "posted", "waiting"} THEN 0 ELSE 1
             /\ pc'[s] # "waiting"
  <2>1. CASE s \in aborted
    <3>1. pc'[s] = "replied" /\ replies'[s] = replies[s] + 1 /\ lease'[s] = lease[s]
      BY <1>1, <2>1
    <3>2. done'[s]
      BY <1>1, <2>1
    <3>3. replies[s] = 0
      BY <1>2, <2>1, IInvFacts DEF RequestInv, CompletedOnce
    <3> QED
      BY <3>1, <3>2, <3>3
  <2>2. CASE s \notin aborted
    <3>1. /\ pc'[s] = pc[s] /\ replies'[s] = replies[s] /\ lease'[s] = lease[s]
          /\ timer'[s] = timer[s]
      BY <1>1, <2>2
    <3>2. done'[s] <=> done[s]
      BY <1>1, <2>2
    <3>3. pc[s] # "waiting"
      BY <1>2, <2>2
    <3> QED
      BY <3>1, <3>2, <3>3, IInvFacts DEF RequestInv, CompletedOnce
  <2> QED
    BY <2>1, <2>2
<1>6. DOMAIN waiters' = {} /\ Len(waiters') = 0
  BY <1>1
<1>7. CompletedOnce'
  BY <1>5, <1>6 DEF CompletedOnce
<1>8. RequestInv'
  BY <1>5, <1>6, <1>7, PoolLimits DEF RequestInv
<1>9. NoWaiterBesideIdle'
  BY <1>1 DEF NoWaiterBesideIdle
<1>10. cleanup_timer' \in {"off", "armed", "fired"}
  BY <1>1, IInvFacts DEF TypeOK, Cancelled
<1> QED
  BY <1>1, <1>4, <1>8, <1>9, <1>10, SamePolicy, Assemble, IInvFacts DEF TypeOK

\* Time passes: the records age, nothing else moves.
LEMMA ClockKeeps ==
  ASSUME IInv, NEW c \in Id, LifetimeElapses(c) \/ IdleTimeoutElapses(c)
  PROVE  IInv'
<1>1. UNCHANGED <<waiters, done, timer, pc, lease, error, replies, stopping, cleanup_scheduled,
                  cleanup_timer, posted, stop_call>>
  BY DEF LifetimeElapses, IdleTimeoutElapses, waiterVars, cleanupVars
<1>2. \/ policy' = [policy EXCEPT !.rec[c] = [@ EXCEPT !.lifetime_over = TRUE]]
      \/ policy' = [policy EXCEPT !.rec[c] = [@ EXCEPT !.idle_over = TRUE]]
  BY DEF LifetimeElapses, IdleTimeoutElapses
<1>3. PolicyInv(policy', Leased)
  <2> DEFINE a == [policy EXCEPT !.rec[c] = [@ EXCEPT !.lifetime_over = TRUE]]
             b == [policy EXCEPT !.rec[c] = [@ EXCEPT !.idle_over = TRUE]]
  <2>1. PolicyInv(policy, Leased)
    BY IInvFacts
  <2>2. PolicyInv(a, Leased) /\ PolicyInv(b, Leased)
    BY <2>1, AgeKeeps, Zenon
  <2>3. policy' = a \/ policy' = b
    BY <1>2
  <2> HIDE DEF a, b
  <2> QED
    BY <2>2, <2>3
<1>4. policy'.idle = policy.idle
  BY <1>2, IInvFacts DEF TypeOK, Policy
<1>5. NoWaiterBesideIdle'
  BY <1>1, <1>4, IInvFacts DEF NoWaiterBesideIdle
<1> QED
  <2>1. RequestTypes' /\ RequestInv'
    BY <1>1, RequestsStay
  <2>2. LeaseExclusive' /\ PolicyInv(policy, Leased)'
    BY <1>1, <1>3, <1>4, ShrunkPolicy
  <2> QED
    BY <1>1, <1>5, <2>1, <2>2, Assemble, IInvFacts DEF TypeOK

-----------------------------------------------------------------------------
(* The theorems *)

LEMMA InitKeeps == Init => IInv
<1> SUFFICES ASSUME Init PROVE IInv
  OBVIOUS
<1>1. NewRecord(0) \in Record
  BY DEF NewRecord, Record
<1>2. policy \in Policy /\ policy.idle = {} /\ policy.busy = 0 /\ policy.next_id = 1
  BY <1>1 DEF Init, Policy
<1>3. Held = {} /\ InReturn = {} /\ Leased = {}
  BY IdFacts DEF Init, Held, InReturn, Leased
<1>4. PolicyInv(policy, Leased)
  BY <1>2, <1>3, EmptyIdle, PoolLimits DEF PolicyInv, InUse
<1>5. LeaseExclusive
  BY <1>2, <1>3 DEF Init, LeaseExclusive
<1>6. DOMAIN waiters = {} /\ Len(waiters) = 0 /\ waiters \in Seq(Requests)
  BY DEF Init
<1>7. RequestInv
  BY <1>6, PoolLimits DEF Init, RequestInv, CompletedOnce
<1>8. NoWaiterBesideIdle
  BY DEF Init, NoWaiterBesideIdle
<1>9. TypeOK
  BY <1>2, <1>6 DEF Init, TypeOK, Message
<1> QED
  BY <1>4, <1>5, <1>7, <1>8, <1>9 DEF IInv

LEMMA StutterKeeps ==
  ASSUME IInv, UNCHANGED vars
  PROVE  IInv'
<1>1. UNCHANGED <<policy, waiters, done, timer, pc, lease, error, replies, stopping,
                  cleanup_scheduled, cleanup_timer, posted, stop_call>>
  BY DEF vars
<1>2. NoWaiterBesideIdle'
  BY <1>1, IInvFacts DEF NoWaiterBesideIdle
<1> QED
  BY <1>1, <1>2, RequestsStay, SamePolicy, Assemble, IInvFacts DEF TypeOK

LEMMA NextKeeps == IInv /\ [Next]_vars => IInv'
<1> SUFFICES ASSUME IInv, [Next]_vars PROVE IInv'
  OBVIOUS
<1>1. CASE PoolStep
  <2>1. ASSUME NEW r \in Requests, AcquireHandler(r) PROVE IInv'
    BY <2>1, AcquireHandlerKeeps
  <2>2. ASSUME NEW r \in Requests, WaiterTimerExpires(r) PROVE IInv'
    BY <2>2, WaiterTimerExpiresKeeps
  <2>3. ASSUME NEW r \in Requests, WaiterTimerHandler(r) PROVE IInv'
    BY <2>3, WaiterTimerHandlerKeeps
  <2>4. ASSUME NEW m \in posted, ReleaseHandler(m) PROVE IInv'
    BY <2>4, ReleaseHandlerKeeps
  <2>5. ASSUME NEW m \in posted, DiscardHandler(m) PROVE IInv'
    BY <2>5, DiscardHandlerKeeps
  <2>6. CASE CleanupTimerExpires
    BY <2>6, CleanupTimerExpiresKeeps
  <2>7. CASE CleanupHandler
    BY <2>7, CleanupHandlerKeeps
  <2>8. CASE StopHandler
    BY <2>8, StopHandlerKeeps
  <2> QED
    BY <1>1, <2>1, <2>2, <2>3, <2>4, <2>5, <2>6, <2>7, <2>8 DEF PoolStep
<1>2. CASE CallerStep
  <2>1. ASSUME NEW r \in Requests, AsyncAcquire(r) PROVE IInv'
    BY <2>1, AsyncAcquireKeeps
  <2>2. ASSUME NEW r \in Requests, Resume(r) PROVE IInv'
    BY <2>2, ResumeKeeps
  <2>3. ASSUME NEW r \in Requests, NEW op \in {"release", "discard", "abandon"},
               ReturnLease(r, op)
        PROVE  IInv'
    BY <2>3, ReturnLeaseKeeps
  <2>4. CASE Stop
    BY <2>4, StopKeeps
  <2> QED
    BY <1>2, <2>1, <2>2, <2>3, <2>4 DEF CallerStep
<1>3. CASE ClockStep
  BY <1>3, ClockKeeps DEF ClockStep
<1>4. CASE UNCHANGED vars
  BY <1>4, StutterKeeps
<1> QED
  BY <1>1, <1>2, <1>3, <1>4 DEF Next

\* The inductive invariant holds in every reachable state of the pool.
THEOREM Inductive == Spec => []IInv
  BY InitKeeps, NextKeeps, PTL DEF Spec

\* Every variable keeps its type; busy_ never wraps below zero although release
\* and discard decrement it without a check.
THEOREM TypeCorrect == Spec => []TypeOK
<1>1. IInv => TypeOK
  BY DEF IInv
<1> QED
  BY <1>1, Inductive, PTL

\* busy_ counts exactly the connections out on lease, and neither capacity of
\* the pool nor the limit of its queue is ever exceeded.
THEOREM Capacity == Spec => []CapacityRespected
<1>1. IInv => CapacityRespected
  BY DEF IInv, PolicyInv, RequestInv, CapacityRespected
<1> QED
  BY <1>1, Inductive, PTL

\* A connection never belongs to two transactions, nor to one while it is idle.
THEOREM Exclusive == Spec => []LeaseExclusive
<1>1. IInv => LeaseExclusive
  BY DEF IInv
<1> QED
  BY <1>1, Inductive, PTL

\* What is leased or idle was never discarded and is below the reuse limit.
THEOREM OnlyReusable == Spec => []OnlyReusableInUse
<1>1. IInv => OnlyReusableInUse
  BY DEF IInv, PolicyInv, InUse, OnlyReusableInUse
<1> QED
  BY <1>1, Inductive, PTL

\* Release, timeout and stop never answer the same acquire twice, and a request
\* is in the queue exactly while it waits.
THEOREM AnsweredOnce == Spec => []CompletedOnce
<1>1. IInv => CompletedOnce
  BY DEF IInv, RequestInv
<1> QED
  BY <1>1, Inductive, PTL

\* No request waits beside an idle connection or after stop().
THEOREM NobodyWaitsInVain == Spec => []NoWaiterBesideIdle
<1>1. IInv => NoWaiterBesideIdle
  BY DEF IInv
<1> QED
  BY <1>1, Inductive, PTL

-----------------------------------------------------------------------------
(* The cleanup timer *)

\* While the pool runs, the flag says that a timer is pending, and the flag is set
\* from the first acquire the strand has handled.
CleanupInv ==
    ~stopping =>
       /\ cleanup_scheduled => cleanup_timer # "off"
       /\ (\/ posted # {} \/ policy.idle # {}
           \/ \E r \in Requests : pc[r] \notin {"new", "posted"}) => cleanup_scheduled

LEMMA CleanupStep == IInv /\ CleanupInv /\ [Next]_vars => CleanupInv'
<1> SUFFICES ASSUME IInv, CleanupInv, [Next]_vars PROVE CleanupInv'
  OBVIOUS
<1>1. ASSUME UNCHANGED <<stopping, cleanup_scheduled, cleanup_timer>>,
             posted' # {} => posted # {} \/ \E r \in Requests : pc[r] \notin {"new", "posted"},
             policy'.idle # {} => policy.idle # {} \/ posted # {},
             \A r \in Requests : pc'[r] \in {"new", "posted"} \/ pc[r] \notin {"new", "posted"}
                                 \/ posted # {}
      PROVE  CleanupInv'
  BY <1>1 DEF CleanupInv
<1>2. ASSUME NEW s \in BOOLEAN, NEW t, s => t # "off", scheduleCleanup(s, t), stopping' = stopping
      PROVE  CleanupInv'
  BY <1>2 DEF CleanupInv, scheduleCleanup
<1>3. ASSUME NEW r \in Requests, AcquireHandler(r) PROVE CleanupInv'
  <2>1. stopping' = stopping /\ scheduleCleanup(cleanup_scheduled, cleanup_timer) /\ cleanup_scheduled \in BOOLEAN
    BY <1>3, IInvFacts DEF AcquireHandler, TypeOK
  <2>2. CASE stopping
    BY <2>1, <2>2 DEF CleanupInv
  <2>3. CASE ~stopping
    BY <1>2, <2>1, <2>3 DEF CleanupInv
  <2> QED
    BY <2>2, <2>3
<1>4. ASSUME NEW r \in Requests, WaiterTimerExpires(r) PROVE CleanupInv'
  <2>1. UNCHANGED <<stopping, cleanup_scheduled, cleanup_timer, posted, policy, pc>>
    BY <1>4 DEF WaiterTimerExpires, cleanupVars
  <2> QED
    BY <1>1, <2>1
<1>5. ASSUME NEW r \in Requests, WaiterTimerHandler(r) PROVE CleanupInv'
  <2>1. UNCHANGED <<stopping, cleanup_scheduled, cleanup_timer, posted, policy>>
    BY <1>5 DEF WaiterTimerHandler, cleanupVars
  <2>2. pc[r] \notin {"new", "posted"}
    BY <1>5, IInvFacts DEF WaiterTimerHandler, RequestInv
  <2>3. pc' = pc \/ pc' = [pc EXCEPT ![r] = "replied"]
    BY <1>5 DEF WaiterTimerHandler, completeWaiter, Reply
  <2>4. \A s \in Requests : pc'[s] \in {"new", "posted"} \/ pc[s] \notin {"new", "posted"}
    BY <2>2, <2>3, IInvFacts DEF RequestTypes
  <2> QED
    BY <1>1, <2>1, <2>4
<1>6. ASSUME NEW m \in posted, ReleaseHandler(m) PROVE CleanupInv'
  <2>1. UNCHANGED <<stopping, cleanup_scheduled, cleanup_timer>> /\ posted # {}
    BY <1>6 DEF ReleaseHandler, cleanupVars
  <2> QED
    BY <1>1, <2>1
<1>7. ASSUME NEW m \in posted, DiscardHandler(m) PROVE CleanupInv'
  <2>1. UNCHANGED <<stopping, cleanup_scheduled, cleanup_timer>> /\ posted # {}
    BY <1>7 DEF DiscardHandler, cleanupVars
  <2> QED
    BY <1>1, <2>1
<1>8. CASE CleanupTimerExpires
  BY <1>8 DEF CleanupTimerExpires, waiterVars, CleanupInv
<1>9. CASE CleanupHandler
  <2>1. stopping' = stopping /\ scheduleCleanup(FALSE, "off")
    BY <1>9 DEF CleanupHandler
  <2> QED
    BY <1>2, <2>1
<1>10. CASE StopHandler
  BY <1>10 DEF StopHandler, CleanupInv
<1>11. ASSUME NEW r \in Requests, AsyncAcquire(r) PROVE CleanupInv'
  <2>1. /\ UNCHANGED <<stopping, cleanup_scheduled, cleanup_timer, posted, policy>>
        /\ pc' = [pc EXCEPT ![r] = "posted"]
    BY <1>11 DEF AsyncAcquire, cleanupVars
  <2>2. \A s \in Requests : pc'[s] \in {"new", "posted"} \/ pc[s] \notin {"new", "posted"}
    BY <2>1, IInvFacts DEF RequestTypes
  <2> QED
    BY <1>1, <2>1, <2>2
<1>12. ASSUME NEW r \in Requests, Resume(r) PROVE CleanupInv'
  <2>1. /\ UNCHANGED <<stopping, cleanup_scheduled, cleanup_timer, posted, policy>>
        /\ pc[r] = "replied"
        /\ pc' = [pc EXCEPT ![r] = IF lease[r] = NoLease THEN "done" ELSE "holding"]
    BY <1>12 DEF Resume, cleanupVars
  <2>2. \A s \in Requests : pc'[s] \in {"new", "posted"} \/ pc[s] \notin {"new", "posted"}
    BY <2>1, IInvFacts DEF RequestTypes
  <2> QED
    BY <1>1, <2>1, <2>2
<1>13. ASSUME NEW r \in Requests, NEW op \in {"release", "discard", "abandon"}, ReturnLease(r, op)
       PROVE  CleanupInv'
  <2>1. /\ UNCHANGED <<stopping, cleanup_scheduled, cleanup_timer, policy>>
        /\ pc[r] = "holding" /\ pc' = [pc EXCEPT ![r] = "done"]
    BY <1>13 DEF ReturnLease, cleanupVars
  <2>2. \A s \in Requests : pc'[s] \in {"new", "posted"} \/ pc[s] \notin {"new", "posted"}
    BY <2>1, IInvFacts DEF RequestTypes
  <2> QED
    BY <1>1, <2>1, <2>2
<1>14. CASE Stop
  <2>1. UNCHANGED <<stopping, cleanup_scheduled, cleanup_timer, posted, policy, pc>>
    BY <1>14 DEF Stop, cleanupVars, waiterVars
  <2> QED
    BY <1>1, <2>1
<1>15. CASE ClockStep
  <2>1. UNCHANGED <<stopping, cleanup_scheduled, cleanup_timer, posted, pc>> /\ policy'.idle = policy.idle
    BY <1>15, IInvFacts DEF ClockStep, LifetimeElapses, IdleTimeoutElapses, cleanupVars, waiterVars, TypeOK, Policy
  <2> QED
    BY <1>1, <2>1
<1>16. CASE UNCHANGED vars
  <2>1. UNCHANGED <<stopping, cleanup_scheduled, cleanup_timer, posted, policy, pc>>
    BY <1>16 DEF vars
  <2> QED
    BY <1>1, <2>1
<1> QED
  BY <1>3, <1>4, <1>5, <1>6, <1>7, <1>8, <1>9, <1>10, <1>11, <1>12, <1>13, <1>14, <1>15, <1>16
     DEF Next, PoolStep, CallerStep

\* While the pool runs, a connection that lies idle has a cleanup timer pending: the
\* flag and the timer never disagree in a way that loses the cleanup.
THEOREM CleanupNeverLost == Spec => []CleanupPending
<1>1. Init => CleanupInv
  BY DEF Init, CleanupInv
<1>2. CleanupInv => CleanupPending
  BY DEF CleanupInv, CleanupPending
<1> QED
  BY <1>1, <1>2, CleanupStep, Inductive, PTL DEF Spec

-----------------------------------------------------------------------------
(* The pool implements LeaseBroker *)

\* stop() has its effect once.
StopOnce == stopping => stop_call = "handled"

LEMMA StopOnceStep == StopOnce /\ [Next]_vars => StopOnce'
<1> SUFFICES ASSUME StopOnce, [Next]_vars PROVE StopOnce'
  OBVIOUS
<1>1. \/ UNCHANGED <<stopping, stop_call>>
      \/ Stop
      \/ StopHandler
  BY DEF Next, PoolStep, CallerStep, ClockStep, AcquireHandler, WaiterTimerExpires, WaiterTimerHandler,
         ReleaseHandler, DiscardHandler, CleanupTimerExpires, CleanupHandler, AsyncAcquire, Resume,
         ReturnLease, LifetimeElapses, IdleTimeoutElapses, vars
<1> QED
  BY <1>1 DEF Stop, StopHandler, StopOnce

\* One request changes its status, the others keep theirs.
LEMMA StatusMoves ==
  ASSUME NEW r \in Requests, NEW x,
         \A s \in Requests \ {r} : pc'[s] = pc[s] /\ error'[s] = error[s],
         Status(r)' = x
  PROVE  [s \in Requests |-> Status(s)]' = [[s \in Requests |-> Status(s)] EXCEPT ![r] = x]
<1>1. \A s \in Requests : Status(s)' = IF s = r THEN x ELSE Status(s)
  BY DEF Status
<1> QED
  BY <1>1

LEMMA StatusStays ==
  ASSUME \A s \in Requests : Status(s)' = Status(s)
  PROVE  [s \in Requests |-> Status(s)]' = [s \in Requests |-> Status(s)]
  OBVIOUS

LEMMA Stutters ==
  ASSUME \A s \in Requests : Status(s)' = Status(s), Leased' = Leased, stopping' = stopping
  PROVE  [Broker!Next]_(Broker!brokerVars)
  BY StatusStays DEF Broker!brokerVars

LEMMA AskRefines ==
  ASSUME IInv, NEW r \in Requests, AsyncAcquire(r)
  PROVE  [Broker!Next]_(Broker!brokerVars)
<1>1. /\ pc[r] = "new" /\ pc' = [pc EXCEPT ![r] = "posted"] /\ UNCHANGED <<error, stopping, lease, posted>>
      /\ pc'[r] = "posted" /\ \A s \in Requests \ {r} : pc'[s] = pc[s]
  BY IInvFacts DEF AsyncAcquire, RequestTypes
<1>2. Leased' = Leased
  BY <1>1, NothingMoves
<1>3. Status(r) = "idle" /\ Status(r)' = "pending"
  BY <1>1 DEF Status
<1>4. [s \in Requests |-> Status(s)]' = [[s \in Requests |-> Status(s)] EXCEPT ![r] = "pending"]
  BY <1>1, <1>3, StatusMoves
<1>5. Broker!Ask(r)
  BY <1>1, <1>2, <1>3, <1>4 DEF Broker!Ask
<1> QED
  BY <1>5 DEF Broker!Next

\* An answer without a lease.
LEMMA RefuseRefines ==
  ASSUME IInv, NEW r \in Requests, pc[r] \in {"posted", "waiting"}, NEW e \in Errors \ {"none"},
         Reply(r, e, NoLease), UNCHANGED <<posted, stopping>>
  PROVE  [Broker!Next]_(Broker!brokerVars)
<1>1. /\ pc'[r] = "replied" /\ error'[r] = e
      /\ \A s \in Requests \ {r} : pc'[s] = pc[s] /\ error'[s] = error[s]
      /\ lease' = [lease EXCEPT ![r] = NoLease] /\ lease[r] = NoLease
  BY IInvFacts DEF Reply, RequestTypes, RequestInv
<1>2. lease' = lease
  BY <1>1, IInvFacts DEF RequestTypes
<1>3. Leased' = Leased
  BY <1>2, NothingMoves
<1>4. Status(r) = "pending" /\ Status(r)' = "refused"
  BY <1>1 DEF Status, Errors
<1>5. [s \in Requests |-> Status(s)]' = [[s \in Requests |-> Status(s)] EXCEPT ![r] = "refused"]
  BY <1>1, <1>4, StatusMoves
<1>6. Broker!Refuse(r)
  BY <1>3, <1>4, <1>5 DEF Broker!Refuse
<1> QED
  BY <1>6 DEF Broker!Next

\* An answer with a lease, when the connections in L are out.
LEMMA GrantRefines ==
  ASSUME IInv, NEW r \in Requests, pc[r] \in {"posted", "waiting"}, NEW c \in Id, NEW L,
         Reply(r, "none", c), ~stopping, stopping' = stopping,
         PolicyInv(policy', L \cup {c}), L \subseteq Id, c \notin L, Leased' = L \cup {c}
  PROVE  Broker!Grant(r, c, L)
<1>1. /\ pc'[r] = "replied" /\ error'[r] = "none"
      /\ \A s \in Requests \ {r} : pc'[s] = pc[s] /\ error'[s] = error[s]
  BY IInvFacts DEF Reply, RequestTypes
<1>2. Status(r) = "pending" /\ Status(r)' = "granted"
  BY <1>1 DEF Status
<1>3. [s \in Requests |-> Status(s)]' = [[s \in Requests |-> Status(s)] EXCEPT ![r] = "granted"]
  BY <1>1, <1>2, StatusMoves
<1>4. Cardinality(L) < max_connections
  <2>1. policy'.busy = Cardinality(L \cup {c}) /\ policy'.busy + Cardinality(policy'.idle) <= max_connections
        /\ policy'.idle \in SUBSET Id
    BY DEF PolicyInv, Policy
  <2>2. Cardinality(L \cup {c}) = Cardinality(L) + 1 /\ Cardinality(L) \in Nat
    BY IdSets
  <2>3. Cardinality(policy'.idle) \in Nat
    BY <2>1, IdSets
  <2> QED
    BY <2>1, <2>2, <2>3, PoolLimits
<1>5. [s \in Requests |-> Status(s)][r] = "pending"
  BY <1>2
<1>6. UNCHANGED stopping /\ ~stopping /\ c \notin L /\ Leased' = L \cup {c}
  OBVIOUS
<1>7. Broker!Cardinality(L) = Cardinality(L)
  BY DEF Broker!Cardinality, Cardinality
<1> QED
  BY <1>3, <1>4, <1>5, <1>6, <1>7 DEF Broker!Grant

LEMMA AcquireRefines ==
  ASSUME IInv, NEW r \in Requests, AcquireHandler(r)
  PROVE  [Broker!Next]_(Broker!brokerVars)
<1>1. pc[r] = "posted" /\ UNCHANGED <<stopping, posted>>
  BY DEF AcquireHandler
<1>2. CASE AcquireAborted(r)
  BY <1>1, <1>2, RefuseRefines DEF AcquireAborted, Errors
<1>3. ASSUME NEW c \in Id, AcquireGranted(r, c) PROVE [Broker!Next]_(Broker!brokerVars)
  <2>1. ~stopping /\ c # NoLease /\ acquire(policy, policy', c) /\ Reply(r, "none", c)
    BY <1>3 DEF AcquireGranted
  <2>2. PolicyInv(policy', Leased \cup {c}) /\ c \notin Leased /\ Leased \subseteq Id
    <3>1. PolicyInv(policy, Leased)
      BY IInvFacts
    <3>2. PolicyInv(policy', Leased \cup {c}) /\ c \notin Leased
      BY <2>1, <3>1, AcquireKeeps
    <3>3. Leased \subseteq Id
      BY <3>1 DEF PolicyInv
    <3> QED
      BY <3>2, <3>3
  <2>3. Leased' = Leased \cup {c}
    <3>1. lease[r] = NoLease /\ lease' = [lease EXCEPT ![r] = c]
      BY <1>1, <2>1, IInvFacts DEF RequestInv, Reply
    <3> QED
      BY <1>1, <3>1, IInvFacts, GrantMoves DEF InReturn, Leased
  <2>4. Broker!Grant(r, c, Leased)
    BY <1>1, <2>1, <2>2, <2>3, GrantRefines
  <2> QED
    BY <2>4 DEF Broker!Next
<1>4. CASE AcquireRejected(r)
  BY <1>1, <1>4, RefuseRefines DEF AcquireRejected, Errors
<1>5. CASE AcquireQueued(r)
  <2>1. pc' = [pc EXCEPT ![r] = "waiting"] /\ UNCHANGED <<lease, error>>
    BY <1>5 DEF AcquireQueued
  <2>2. \A s \in Requests : pc'[s] = IF s = r THEN "waiting" ELSE pc[s]
    BY <2>1, IInvFacts DEF RequestTypes
  <2>3. \A s \in Requests : Status(s)' = Status(s)
    BY <1>1, <2>1, <2>2 DEF Status
  <2>4. Leased' = Leased
    BY <1>1, <2>1, NothingMoves
  <2> QED
    BY <1>1, <2>3, <2>4, Stutters
<1> QED
  BY <1>2, <1>3, <1>4, <1>5 DEF AcquireHandler

LEMMA ReturnRefines ==
  ASSUME IInv, NEW m \in posted, posted' = posted \ {m}, UNCHANGED <<pc, error, lease, stopping>>
  PROVE  [Broker!Next]_(Broker!brokerVars)
<1>1. m.conn \in Leased /\ m.conn \in Id /\ InReturn' = InReturn \ {m.conn} /\ m.conn \notin Held
  BY ReturnedLeaves
<1>2. Held' = Held
  BY DEF Held
<1>3. Leased' = Leased \ {m.conn}
  BY <1>1, <1>2 DEF Leased
<1>4. [s \in Requests |-> Status(s)]' = [s \in Requests |-> Status(s)]
  BY DEF Status
<1>5. Broker!Return(m.conn)
  BY <1>1, <1>3, <1>4 DEF Broker!Return
<1> QED
  BY <1>1, <1>5 DEF Broker!Next

LEMMA ReleaseRefines ==
  ASSUME IInv, NEW m \in posted, ReleaseHandler(m)
  PROVE  [Broker!Next]_(Broker!brokerVars)
<1> DEFINE p == releaseReusable(policy, m.conn)
           L == Leased \ {m.conn}
<1>1. posted' = posted \ {m} /\ satisfyOneWaiter(p) /\ stopping' = stopping
  BY DEF ReleaseHandler
<1>2. /\ m.conn \in Leased /\ m.conn \in Id
      /\ InReturn' = InReturn \ {m.conn} /\ m.conn \notin Held
  BY <1>1, ReturnedLeaves
<1>3. PolicyInv(p, L)
  BY <1>2, IInvFacts, ReleaseKeeps
<1> HIDE DEF p
<1>4. CASE waiters = <<>>
  BY <1>1, <1>4, ReturnRefines DEF satisfyOneWaiter, waiterVars
<1>5. CASE waiters # <<>>
  <2>1. PICK c \in Id \cup {NoLease} :
           /\ acquire(p, policy', c)
           /\ IF c = NoLease THEN UNCHANGED waiterVars
              ELSE completeWaiter(Head(waiters), "none", c, timer)
    BY <1>1, <1>5 DEF satisfyOneWaiter
  <2>2. CASE c = NoLease
    BY <1>1, <2>1, <2>2, ReturnRefines DEF waiterVars
  <2>3. CASE c # NoLease
    <3> DEFINE w == Head(waiters)
    <3>1. w \in Requests /\ pc[w] = "waiting" /\ ~done[w] /\ lease[w] = NoLease
      BY <1>5, IInvFacts, HeadWaits
    <3>2. Reply(w, "none", c)
      BY <2>1, <2>3, <3>1 DEF completeWaiter
    <3> HIDE DEF w
    <3>3. PolicyInv(policy', L \cup {c}) /\ c \in Id /\ c \notin L
      <4> HIDE DEF L
      <4>1. acquire(p, policy', c)
        BY <2>1
      <4> QED
        BY <1>3, <2>3, <4>1, AcquireKeeps
    <3>4. lease' = [lease EXCEPT ![w] = c]
      BY <3>2 DEF Reply
    <3>5. Held' = Held \cup {c}
      BY <3>1, <3>3, <3>4, IInvFacts, GrantMoves
    <3>6. Leased' = L \cup {c} /\ L \subseteq Id
      BY <1>2, <1>3, <3>5 DEF Leased, PolicyInv
    <3>7. ~stopping
      BY <1>5, IInvFacts DEF NoWaiterBesideIdle
    <3>8. Broker!Grant(w, c, L)
      BY <1>1, <3>1, <3>2, <3>3, <3>6, <3>7, GrantRefines
    <3>9. Broker!HandOver(m.conn, w, c)
      BY <1>2, <3>8 DEF Broker!HandOver
    <3> QED
      BY <1>2, <3>1, <3>3, <3>9 DEF Broker!Next
  <2> QED
    BY <2>2, <2>3
<1> QED
  BY <1>4, <1>5

LEMMA StopRefines ==
  ASSUME IInv, StopOnce, StopHandler
  PROVE  [Broker!Next]_(Broker!brokerVars)
<1> DEFINE aborted == {r \in Requests : \E i \in DOMAIN waiters : waiters[i] = r}
<1>1. /\ stop_call = "posted" /\ stopping' = TRUE
      /\ pc' = [r \in Requests |-> IF r \in aborted THEN "replied" ELSE pc[r]]
      /\ error' = [r \in Requests |-> IF r \in aborted THEN "operation_aborted" ELSE error[r]]
      /\ UNCHANGED <<lease, posted>>
  BY DEF StopHandler
<1>2. \A r \in Requests : r \in aborted <=> pc[r] = "waiting"
  BY IInvFacts DEF RequestInv, CompletedOnce
<1>3. aborted \in SUBSET Requests
  OBVIOUS
<1> HIDE DEF aborted
<1>4. ~stopping /\ Leased' = Leased
  BY <1>1, NothingMoves DEF StopOnce
<1>5. \A r \in aborted : Status(r) = "pending"
  BY <1>2, <1>3 DEF Status
<1>6. \A r \in Requests : Status(r)' = IF r \in aborted THEN "refused" ELSE Status(r)
  BY <1>1 DEF Status
<1>7. Broker!Close(aborted)
  BY <1>1, <1>3, <1>4, <1>5, <1>6 DEF Broker!Close
<1> QED
  BY <1>3, <1>7 DEF Broker!Next

LEMMA StepRefines == IInv /\ StopOnce /\ [Next]_vars => [Broker!Next]_(Broker!brokerVars)
<1> SUFFICES ASSUME IInv, StopOnce, [Next]_vars PROVE [Broker!Next]_(Broker!brokerVars)
  OBVIOUS
<1>1. ASSUME UNCHANGED <<pc, error, lease, posted, stopping>> PROVE [Broker!Next]_(Broker!brokerVars)
  <2>1. Leased' = Leased
    BY <1>1, NothingMoves
  <2>2. \A s \in Requests : Status(s)' = Status(s)
    BY <1>1 DEF Status
  <2> QED
    BY <1>1, <2>1, <2>2, Stutters
<1>2. ASSUME NEW r \in Requests, AcquireHandler(r) PROVE [Broker!Next]_(Broker!brokerVars)
  BY <1>2, AcquireRefines
<1>3. ASSUME NEW r \in Requests, WaiterTimerExpires(r) PROVE [Broker!Next]_(Broker!brokerVars)
  BY <1>1, <1>3 DEF WaiterTimerExpires
<1>4. ASSUME NEW r \in Requests, WaiterTimerHandler(r) PROVE [Broker!Next]_(Broker!brokerVars)
  <2>1. /\ UNCHANGED <<posted, stopping>> /\ timer[r] = "fired"
        /\ \/ done[r] /\ UNCHANGED <<pc, error, lease>>
           \/ ~done[r] /\ Reply(r, "timed_out", NoLease)
    BY <1>4 DEF WaiterTimerHandler, completeWaiter
  <2>2. ~done[r] => pc[r] = "waiting"
    BY <2>1, IInvFacts DEF RequestInv
  <2> QED
    BY <1>1, <2>1, <2>2, RefuseRefines DEF Errors
<1>5. ASSUME NEW m \in posted, ReleaseHandler(m) PROVE [Broker!Next]_(Broker!brokerVars)
  BY <1>5, ReleaseRefines
<1>6. ASSUME NEW m \in posted, DiscardHandler(m) PROVE [Broker!Next]_(Broker!brokerVars)
  BY <1>6, ReturnRefines DEF DiscardHandler, waiterVars
<1>7. CASE CleanupTimerExpires \/ CleanupHandler \/ Stop \/ ClockStep \/ UNCHANGED vars
  BY <1>1, <1>7 DEF CleanupTimerExpires, CleanupHandler, Stop, ClockStep, LifetimeElapses,
                    IdleTimeoutElapses, vars, waiterVars
<1>8. CASE StopHandler
  BY <1>8, StopRefines
<1>9. ASSUME NEW r \in Requests, AsyncAcquire(r) PROVE [Broker!Next]_(Broker!brokerVars)
  BY <1>9, AskRefines
<1>10. ASSUME NEW r \in Requests, Resume(r) PROVE [Broker!Next]_(Broker!brokerVars)
  <2>1. /\ pc[r] = "replied" /\ UNCHANGED <<error, lease, posted, stopping>>
        /\ pc' = [pc EXCEPT ![r] = IF lease[r] = NoLease THEN "done" ELSE "holding"]
    BY <1>10 DEF Resume
  <2>2. \A s \in Requests : Status(s)' = Status(s)
    BY <2>1, IInvFacts DEF Status, RequestTypes
  <2>3. Leased' = Leased
    BY <2>1, NothingMoves
  <2> QED
    BY <2>1, <2>2, <2>3, Stutters
<1>11. ASSUME NEW r \in Requests, NEW op \in {"release", "discard", "abandon"}, ReturnLease(r, op)
       PROVE  [Broker!Next]_(Broker!brokerVars)
  <2>1. /\ pc[r] = "holding" /\ UNCHANGED <<error, stopping>> /\ pc' = [pc EXCEPT ![r] = "done"]
        /\ posted' = posted \cup {[op |-> op, conn |-> lease[r]]}
        /\ lease' = [lease EXCEPT ![r] = NoLease]
    BY <1>11 DEF ReturnLease
  <2>2. \A s \in Requests : Status(s)' = Status(s)
    BY <2>1, IInvFacts DEF Status, RequestTypes
  <2>3. lease[r] # NoLease
    BY <2>1, IInvFacts DEF RequestInv
  <2>4. Held' = Held \ {lease[r]} /\ InReturn' = InReturn \cup {lease[r]} /\ lease[r] \in Held
    BY <2>1, <2>3, IInvFacts, ReturnMoves
  <2>5. Leased' = Leased
    BY <2>4 DEF Leased
  <2> QED
    BY <2>1, <2>2, <2>5, Stutters
<1> QED
  BY <1>2, <1>3, <1>4, <1>5, <1>6, <1>7, <1>8, <1>9, <1>10, <1>11 DEF Next, PoolStep, CallerStep

\* The pool implements the broker its callers rely on: a step of a handler is a grant,
\* a refusal, a return, a handover or a close of the broker, or none of its business.
THEOREM Implements == Spec => ImplementsBroker
<1>1. Init => Broker!Init
  BY InitKeeps, IdFacts DEF Init, Broker!Init, Status, Leased, Held, InReturn
<1>2. Init => StopOnce
  BY DEF Init, StopOnce
<1> QED
  BY <1>1, <1>2, StopOnceStep, StepRefines, Inductive, PTL DEF Spec, ImplementsBroker, Broker!Spec

-----------------------------------------------------------------------------
(* Releases serve the oldest waiter *)

\* No more connections have been created than requests have been granted one, so
\* that identifiers do not run out while a request still waits.
Granted == {r \in Requests : Status(r) = "granted"}
IdsLeft == policy.next_id <= Cardinality(Granted) + 1

LEMMA GrantedCount ==
  /\ IsFiniteSet(Granted) /\ Cardinality(Granted) \in Nat
  /\ \A r \in Requests \ Granted : Cardinality(Granted) < Cardinality(Requests)
<1>1. IsFiniteSet(Requests) /\ Granted \subseteq Requests
  BY IdsSuffice DEF Granted
<1>2. IsFiniteSet(Granted) /\ Cardinality(Granted) \in Nat
  BY <1>1, FS_Subset, FS_CardinalityType
<1>3. ASSUME NEW r \in Requests \ Granted PROVE Cardinality(Granted) < Cardinality(Requests)
  <2>1. Granted # Requests
    BY <1>3
  <2> QED
    BY <1>1, <1>2, <2>1, FS_Subset, FS_CardinalityType
<1> QED
  BY <1>2, <1>3

LEMMA GrantedGrows ==
  ASSUME IInv, NEW r \in Requests, pc[r] \in {"posted", "waiting"}, NEW c, Reply(r, "none", c)
  PROVE  /\ r \notin Granted /\ Granted' = Granted \cup {r}
         /\ Cardinality(Granted') = Cardinality(Granted) + 1
<1>1. \A s \in Requests : /\ pc'[s] = IF s = r THEN "replied" ELSE pc[s]
                          /\ error'[s] = IF s = r THEN "none" ELSE error[s]
  BY IInvFacts DEF Reply, RequestTypes
<1>2. r \notin Granted /\ Granted' = Granted \cup {r}
  BY <1>1 DEF Granted, Status
<1> QED
  BY <1>2, GrantedCount, FS_AddElement

LEMMA GrantedStays ==
  ASSUME \A s \in Requests : (Status(s) = "granted") <=> (Status(s)' = "granted")
  PROVE  Granted' = Granted
  BY DEF Granted

\* acquire creates at most one connection, and none without granting it.
LEMMA AcquireCounts ==
  ASSUME NEW p \in Policy, NEW q, NEW c, acquire(p, q, c)
  PROVE  /\ q.next_id = p.next_id \/ (c # NoLease /\ q.next_id = p.next_id + 1)
<1>1. CASE IsNewestReusable(p, c) /\ q = TakeIdle(p, c)
  BY <1>1 DEF TakeIdle
<1>2. CASE ~CanReuse(p) /\ CanCreate(p) /\ c = p.next_id /\ q = CreateConnection(p)
  BY <1>2, IdFacts DEF CreateConnection, CanCreate
<1>3. CASE ~CanReuse(p) /\ ~CanCreate(p) /\ c = NoLease /\ q = AcquireNothing(p)
  BY <1>3 DEF AcquireNothing, Policy
<1> QED
  BY <1>1, <1>2, <1>3 DEF acquire

LEMMA GrantCounts ==
  ASSUME IInv, IdsLeft, NEW r \in Requests, pc[r] \in {"posted", "waiting"}, NEW c, Reply(r, "none", c),
         NEW p \in Policy, p.next_id = policy.next_id, acquire(p, policy', c)
  PROVE  IdsLeft'
<1>1. policy'.next_id = policy.next_id \/ policy'.next_id = policy.next_id + 1
  BY AcquireCounts
<1>2. policy.next_id \in Nat /\ Cardinality(Granted) \in Nat
  BY IInvFacts, GrantedCount DEF TypeOK, Policy
<1>3. Cardinality(Granted') = Cardinality(Granted) + 1
  BY GrantedGrows
<1>4. IdsLeft' <=> policy'.next_id <= Cardinality(Granted') + 1
  BY DEF IdsLeft
<1> QED
  BY <1>1, <1>2, <1>3, <1>4 DEF IdsLeft

LEMMA SameCounts ==
  ASSUME IdsLeft, policy'.next_id = policy.next_id,
         \A s \in Requests : (Status(s) = "granted") <=> (Status(s)' = "granted")
  PROVE  IdsLeft'
<1>1. Granted' = Granted
  BY GrantedStays
<1> QED
  BY <1>1 DEF IdsLeft

LEMMA RefusedStays ==
  ASSUME IInv, NEW r \in Requests, pc[r] \in {"posted", "waiting"}, NEW e \in Errors \ {"none"}, NEW c,
         Reply(r, e, c)
  PROVE  \A s \in Requests : (Status(s) = "granted") <=> (Status(s)' = "granted")
<1>1. \A s \in Requests : /\ pc'[s] = IF s = r THEN "replied" ELSE pc[s]
                          /\ error'[s] = IF s = r THEN e ELSE error[s]
  BY IInvFacts DEF Reply, RequestTypes
<1> QED
  BY <1>1 DEF Status, Errors

\* The policy after a release is one that acquire can serve a waiter from.
LEMMA ReleaseMakesRoom ==
  ASSUME IInv, IdsLeft, NEW m \in posted, waiters # <<>>, NEW q, NEW c,
         acquire(releaseReusable(policy, m.conn), q, c)
  PROVE  /\ c # NoLease
         /\ releaseReusable(policy, m.conn) \in Policy
         /\ releaseReusable(policy, m.conn).next_id = policy.next_id
<1> DEFINE p == releaseReusable(policy, m.conn)
           w == Head(waiters)
<1>1. m.conn \in InReturn /\ InReturn \subseteq Id
  BY IInvFacts DEF InReturn, TypeOK, Message
<1>2. PolicyInv(p, Leased \ {m.conn})
  BY <1>1, IInvFacts, ReleaseKeeps DEF Leased
<1>3. p \in Policy
  BY <1>2 DEF PolicyInv
<1>4. p.next_id = policy.next_id /\ p.busy = policy.busy - 1
  BY DEF releaseReusable
<1>5. policy.busy <= max_connections /\ policy.busy \in Nat /\ policy.next_id \in Nat /\ policy.next_id >= 1
  <2>1. /\ policy.busy + Cardinality(policy.idle) <= max_connections /\ policy.idle \in SUBSET Id
        /\ policy.busy \in Nat /\ policy.next_id \in Nat /\ policy.next_id >= 1
    BY IInvFacts DEF PolicyInv, Policy
  <2>2. Cardinality(policy.idle) \in Nat
    BY <1>1, <2>1, IdSets
  <2> QED
    BY <2>1, <2>2, PoolLimits
<1>6. policy.next_id \in Id
  <2>1. w \in Requests /\ pc[w] = "waiting"
    BY IInvFacts, HeadWaits
  <2>2. w \in Requests \ Granted
    BY <2>1 DEF Granted, Status
  <2>3. Cardinality(Granted) < Cardinality(Requests) /\ Cardinality(Granted) \in Nat
    BY <2>2, GrantedCount
  <2>4. Cardinality(Requests) \in Nat /\ Cardinality(Requests) <= MaxId /\ MaxId \in Nat
    BY IdsSuffice, PoolLimits, FS_CardinalityType
  <2> QED
    BY <1>5, <2>3, <2>4 DEF IdsLeft, Id
<1>7. CanCreate(p)
  BY <1>4, <1>5, <1>6, PoolLimits DEF CanCreate
<1>8. c # NoLease
  <2>1. CASE IsNewestReusable(p, c)
    BY <1>3, <2>1, IdFacts DEF IsNewestReusable, Policy
  <2>2. CASE c = p.next_id
    BY <1>4, <1>6, <2>2, IdFacts
  <2> QED
    BY <1>7, <2>1, <2>2 DEF acquire
<1> QED
  BY <1>3, <1>4, <1>8

\* A release with somebody in the queue answers the front with a lease.
LEMMA ReleaseServes ==
  ASSUME IInv, IdsLeft, NEW m \in posted, ReleaseHandler(m), waiters # <<>>
  PROVE  \E c \in Id : /\ acquire(releaseReusable(policy, m.conn), policy', c)
                       /\ Reply(Head(waiters), "none", c)
                       /\ waiters' = Erase(waiters, Head(waiters))
<1> DEFINE p == releaseReusable(policy, m.conn)
<1>1. PICK c \in Id \cup {NoLease} :
         /\ acquire(p, policy', c)
         /\ IF c = NoLease THEN UNCHANGED waiterVars
            ELSE completeWaiter(Head(waiters), "none", c, timer)
  BY DEF ReleaseHandler, satisfyOneWaiter
<1>2. c # NoLease
  BY <1>1, ReleaseMakesRoom
<1>3. ~done[Head(waiters)]
  BY IInvFacts, HeadWaits
<1>4. Reply(Head(waiters), "none", c) /\ waiters' = Erase(waiters, Head(waiters))
  BY <1>1, <1>2, <1>3 DEF completeWaiter
<1>5. c \in Id
  BY <1>2
<1>6. acquire(p, policy', c)
  BY <1>1
<1> QED
  BY <1>4, <1>5, <1>6

LEMMA IdsLeftStep == IInv /\ IdsLeft /\ [Next]_vars => IdsLeft'
<1> SUFFICES ASSUME IInv, IdsLeft, [Next]_vars PROVE IdsLeft'
  OBVIOUS
<1>1. policy \in Policy
  BY IInvFacts DEF TypeOK
<1>2. ASSUME NEW r \in Requests, AcquireHandler(r) PROVE IdsLeft'
  <2>1. pc[r] = "posted"
    BY <1>2 DEF AcquireHandler
  <2>2. CASE AcquireAborted(r)
    BY <2>1, <2>2, RefusedStays, SameCounts DEF AcquireAborted, Errors
  <2>3. ASSUME NEW c \in Id, AcquireGranted(r, c) PROVE IdsLeft'
    BY <1>1, <2>1, <2>3, GrantCounts DEF AcquireGranted
  <2>4. CASE AcquireRejected(r)
    BY <1>1, <2>1, <2>4, RefusedStays, AcquireCounts, SameCounts DEF AcquireRejected, Errors
  <2>5. CASE AcquireQueued(r)
    <3>1. pc' = [pc EXCEPT ![r] = "waiting"] /\ error' = error /\ policy'.next_id = policy.next_id
      BY <1>1, <2>5, AcquireCounts DEF AcquireQueued
    <3>2. \A s \in Requests : Status(s)' = Status(s)
      BY <2>1, <3>1, IInvFacts DEF Status, RequestTypes
    <3> QED
      BY <3>1, <3>2, SameCounts
  <2> QED
    BY <1>2, <2>2, <2>3, <2>4, <2>5 DEF AcquireHandler
<1>3. ASSUME NEW r \in Requests, WaiterTimerHandler(r) PROVE IdsLeft'
  <2>1. /\ policy' = policy /\ timer[r] = "fired"
        /\ \/ done[r] /\ UNCHANGED <<pc, error>>
           \/ ~done[r] /\ Reply(r, "timed_out", NoLease)
    BY <1>3 DEF WaiterTimerHandler, completeWaiter
  <2>2. ~done[r] => pc[r] = "waiting"
    BY <2>1, IInvFacts DEF RequestInv
  <2>3. CASE UNCHANGED <<pc, error>>
    BY <2>1, <2>3, SameCounts DEF Status
  <2>4. CASE ~done[r] /\ Reply(r, "timed_out", NoLease)
    BY <2>1, <2>2, <2>4, RefusedStays, SameCounts DEF Errors
  <2> QED
    BY <2>1, <2>3, <2>4
<1>4. ASSUME NEW m \in posted, ReleaseHandler(m) PROVE IdsLeft'
  <2>1. CASE waiters = <<>>
    <3>1. policy'.next_id = policy.next_id /\ UNCHANGED <<pc, error>>
      BY <1>4, <2>1 DEF ReleaseHandler, satisfyOneWaiter, releaseReusable, waiterVars
    <3> QED
      BY <3>1, SameCounts DEF Status
  <2>2. CASE waiters # <<>>
    <3> DEFINE p == releaseReusable(policy, m.conn)
               w == Head(waiters)
    <3>1. PICK c \in Id : acquire(p, policy', c) /\ Reply(w, "none", c)
      BY <1>4, <2>2, ReleaseServes
    <3>2. p \in Policy /\ p.next_id = policy.next_id
      BY <2>2, <3>1, ReleaseMakesRoom
    <3>3. w \in Requests /\ pc[w] \in {"posted", "waiting"}
      BY <2>2, IInvFacts, HeadWaits
    <3> HIDE DEF p, w
    <3> QED
      BY <3>1, <3>2, <3>3, GrantCounts
  <2> QED
    BY <2>1, <2>2
<1>5. ASSUME NEW m \in posted, DiscardHandler(m) PROVE IdsLeft'
  <2>1. policy'.next_id = policy.next_id /\ UNCHANGED <<pc, error>>
    BY <1>5 DEF DiscardHandler, discard, waiterVars
  <2> QED
    BY <2>1, SameCounts DEF Status
<1>6. CASE CleanupHandler
  <2>1. policy'.next_id = policy.next_id /\ UNCHANGED <<pc, error>>
    BY <1>1, <1>6 DEF CleanupHandler, pruneIdle, waiterVars, Policy
  <2> QED
    BY <2>1, SameCounts DEF Status
<1>7. CASE StopHandler
  <2> DEFINE aborted == {r \in Requests : \E i \in DOMAIN waiters : waiters[i] = r}
  <2>1. /\ policy' = policy
        /\ pc' = [r \in Requests |-> IF r \in aborted THEN "replied" ELSE pc[r]]
        /\ error' = [r \in Requests |-> IF r \in aborted THEN "operation_aborted" ELSE error[r]]
    BY <1>7 DEF StopHandler
  <2>2. \A r \in Requests : r \in aborted <=> pc[r] = "waiting"
    BY IInvFacts DEF RequestInv, CompletedOnce
  <2> HIDE DEF aborted
  <2>3. \A s \in Requests : (Status(s) = "granted") <=> (Status(s)' = "granted")
    BY <2>1, <2>2 DEF Status
  <2> QED
    BY <2>1, <2>3, SameCounts
<1>8. ASSUME NEW r \in Requests,
             \/ AsyncAcquire(r) \/ Resume(r)
             \/ \E op \in {"release", "discard", "abandon"} : ReturnLease(r, op)
      PROVE  IdsLeft'
  <2>1. policy' = policy /\ error' = error /\ \E to \in {"posted", "holding", "done"} :
           /\ pc' = [pc EXCEPT ![r] = to]
           /\ to = "posted" => pc[r] = "new"
           /\ to # "posted" => pc[r] \in {"replied", "holding"}
    BY <1>8 DEF AsyncAcquire, Resume, ReturnLease
  <2>2. \A s \in Requests : (Status(s) = "granted") <=> (Status(s)' = "granted")
    BY <2>1, IInvFacts DEF Status, RequestTypes
  <2> QED
    BY <2>1, <2>2, SameCounts
<1>9. CASE ClockStep
  <2>1. policy'.next_id = policy.next_id /\ UNCHANGED <<pc, error>>
    BY <1>1, <1>9 DEF ClockStep, LifetimeElapses, IdleTimeoutElapses, waiterVars, Policy
  <2> QED
    BY <2>1, SameCounts DEF Status
<1>10. CASE (\E r \in Requests : WaiterTimerExpires(r)) \/ CleanupTimerExpires \/ Stop \/ UNCHANGED vars
  <2>1. policy' = policy /\ UNCHANGED <<pc, error>>
    BY <1>10 DEF WaiterTimerExpires, CleanupTimerExpires, Stop, vars, waiterVars
  <2> QED
    BY <2>1, SameCounts DEF Status
<1> QED
  BY <1>2, <1>3, <1>4, <1>5, <1>6, <1>7, <1>8, <1>9, <1>10 DEF Next, PoolStep, CallerStep

\* Erasing the front of a queue without duplicates leaves its tail.
LEMMA EraseHead ==
  ASSUME NEW S, NEW s \in Seq(S), s # <<>>, Distinct(s)
  PROVE  Erase(s, Head(s)) = Tail(s)
<1> DEFINE at == CHOOSE i \in DOMAIN s : s[i] = Head(s)
<1>1. Len(s) \in Nat /\ Len(s) >= 1 /\ DOMAIN s = 1 .. Len(s) /\ Head(s) = s[1] /\ 1 \in DOMAIN s
  OBVIOUS
<1>2. at \in DOMAIN s /\ s[at] = Head(s)
  BY <1>1
<1>3. at = 1
  BY <1>1, <1>2 DEF Distinct
<1> DEFINE e == [i \in 1 .. Len(s) - 1 |-> IF i < at THEN s[i] ELSE s[i + 1]]
<1>4. Erase(s, Head(s)) = e
  BY <1>1 DEF Erase
<1> HIDE DEF at
<1>5. \A i \in 1 .. Len(s) - 1 : e[i] = s[i + 1] /\ e[i] \in S
  BY <1>1, <1>3
<1>6. e \in Seq(S) /\ Len(e) = Len(s) - 1
  <2>1. Len(s) - 1 \in Nat
    BY <1>1
  <2> QED
    BY <1>5, <2>1
<1>7. Tail(s) \in Seq(S) /\ Len(Tail(s)) = Len(s) - 1 /\ \A i \in 1 .. Len(s) - 1 : Tail(s)[i] = s[i + 1]
  BY HeadTailProperties
<1> HIDE DEF e
<1>8. \A i \in 1 .. Len(e) : e[i] = Tail(s)[i]
  BY <1>5, <1>6, <1>7
<1>9. e = Tail(s)
  BY <1>6, <1>7, <1>8, SeqEqual
<1> QED
  BY <1>4, <1>9

LEMMA StepInOrder == IInv /\ IdsLeft /\ [Next]_vars => [OldestFirst]_vars
<1> SUFFICES ASSUME IInv, IdsLeft, Next PROVE OldestFirst
  OBVIOUS
<1>1. \A r \in Requests : pc[r] = "waiting" => lease[r] = NoLease
  BY IInvFacts DEF RequestInv
<1>2. ASSUME posted \subseteq posted', NEW r \in Requests, pc[r] # "waiting",
             \A s \in Requests \ {r} : lease'[s] = lease[s]
      PROVE  OldestFirst
  BY <1>1, <1>2 DEF OldestFirst
<1>3. ASSUME posted \subseteq posted', \A s \in Requests : lease'[s] = lease[s] \/ lease'[s] = NoLease
      PROVE  OldestFirst
  BY <1>1, <1>3 DEF OldestFirst
<1>4. ASSUME NEW r \in Requests, AcquireHandler(r) PROVE OldestFirst
  <2>1. pc[r] = "posted" /\ posted' = posted
    BY <1>4 DEF AcquireHandler
  <2>2. \A s \in Requests \ {r} : lease'[s] = lease[s]
    BY <1>4, IInvFacts DEF AcquireHandler, AcquireAborted, AcquireGranted, AcquireRejected, AcquireQueued,
                           Reply, RequestTypes
  <2> QED
    BY <1>2, <2>1, <2>2
<1>5. ASSUME NEW r \in Requests, WaiterTimerHandler(r) PROVE OldestFirst
  <2>1. posted' = posted /\ (lease' = lease \/ lease' = [lease EXCEPT ![r] = NoLease])
    BY <1>5 DEF WaiterTimerHandler, completeWaiter, Reply
  <2> QED
    BY <1>3, <2>1, IInvFacts DEF RequestTypes
<1>6. ASSUME NEW m \in posted, ReleaseHandler(m) PROVE OldestFirst
  <2>1. posted' = posted \ {m}
    BY <1>6 DEF ReleaseHandler
  <2>2. CASE waiters = <<>>
    <3>1. lease' = lease
      BY <1>6, <2>2 DEF ReleaseHandler, satisfyOneWaiter, waiterVars
    <3> QED
      BY <1>1, <2>2, <3>1 DEF OldestFirst
  <2>3. CASE waiters # <<>>
    <3> DEFINE w == Head(waiters)
    <3>1. PICK c \in Id : Reply(w, "none", c) /\ waiters' = Erase(waiters, w)
      BY <1>6, <2>3, ReleaseServes
    <3>2. w \in Requests
      BY <2>3, IInvFacts, HeadWaits
    <3>3. \A s \in Requests : lease'[s] = IF s = w THEN c ELSE lease[s]
      BY <3>1, <3>2, IInvFacts DEF Reply, RequestTypes
    <3>4. waiters' = Tail(waiters)
      BY <2>3, <3>1, IInvFacts, QueueFacts, EraseHead DEF RequestTypes
    <3> QED
      BY <1>1, <3>2, <3>3, <3>4, IdFacts DEF OldestFirst
  <2> QED
    BY <2>2, <2>3
<1>7. ASSUME NEW m \in posted, DiscardHandler(m) PROVE OldestFirst
  <2>1. m.op # "release" /\ posted' = posted \ {m} /\ lease' = lease
    BY <1>7 DEF DiscardHandler, waiterVars
  <2> QED
    BY <1>1, <2>1 DEF OldestFirst
<1>8. ASSUME NEW r \in Requests, NEW op \in {"release", "discard", "abandon"}, ReturnLease(r, op)
      PROVE  OldestFirst
  <2>1. posted \subseteq posted' /\ lease' = [lease EXCEPT ![r] = NoLease]
    BY <1>8 DEF ReturnLease
  <2> QED
    BY <1>3, <2>1, IInvFacts DEF RequestTypes
<1>9. CASE \/ \E r \in Requests : WaiterTimerExpires(r) \/ AsyncAcquire(r) \/ Resume(r)
           \/ CleanupTimerExpires \/ CleanupHandler \/ StopHandler \/ Stop \/ ClockStep
  <2>1. posted' = posted /\ lease' = lease
    BY <1>9 DEF WaiterTimerExpires, AsyncAcquire, Resume, CleanupTimerExpires, CleanupHandler,
                StopHandler, Stop, ClockStep, LifetimeElapses, IdleTimeoutElapses, waiterVars
  <2> QED
    BY <1>3, <2>1
<1> QED
  BY <1>4, <1>5, <1>6, <1>7, <1>8, <1>9 DEF Next, PoolStep, CallerStep

\* A release while requests wait serves the oldest of them in the same step, and
\* no queued request obtains a lease before those in front of it: the handover in
\* releaseReusable leaves no room for an acquire to overtake the queue.
THEOREM ServesOldest == Spec => HandsOverInOrder
<1>1. Init => IdsLeft
  <2>1. Init => policy.next_id = 1
    BY DEF Init
  <2> QED
    BY <2>1, GrantedCount DEF IdsLeft
<1> QED
  BY <1>1, IdsLeftStep, StepInOrder, Inductive, PTL DEF Spec, HandsOverInOrder
=============================================================================
