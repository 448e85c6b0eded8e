----------------------- MODULE ProxyTransaction_proofs -----------------------
(***************************************************************************)
(* Proofs of ProxyTransaction's safety, for any number of transactions and *)
(* connections: no bytes of another transaction's response, and no error   *)
(* behind a head that is out.                                              *)
(***************************************************************************)
EXTENDS ProxyTransaction, TLAPS

\* The coroutine has its lease.
Active == Upstream \cup {"WritingDownstream"}
Results == {"pending", "None", "StreamedClose", "UnsupportedRequest", "ConnectTimeout",
            "ResponseTimeout", "Cancelled", "DnsFailure", "ConnectFailure", "UpstreamProtocol"}
StopReasons == Reasons \cup {"None", "InternalError"}

\* A running transaction has the lease on its connection; what the pool may
\* still lease is nobody's.
Leases ==
    /\ \A t \in Transactions : pc[t] \in Active => conn[t] \in Connections /\ owner[conn[t]] = t
    /\ \A c \in idle \cup fresh : owner[c] = NoOne

\* Nothing is on the wire of a connection in the pool, and on a leased one only
\* the response to its transaction, whether the socket is still open or not.
CleanWires ==
    /\ \A c \in idle \cup fresh : wire[c] = {}
    /\ \A t \in Transactions : pc[t] \in Active => wire[conn[t]] \subseteq {t}

\* Whatever may still cancel a transaction finds a connection to close.
Cancellable ==
    \A t \in Transactions :
        expiring[t] # "off" \/ phase[t] # "off" \/ total[t] # "off" \/ current_proxy[t]
        => conn[t] \in Connections

\* A head is out only while the transaction runs, and then it has no result yet.
HeadsOut ==
    \A t \in Transactions : /\ response_started[t] => pc[t] \in Active
                            /\ pc[t] # "Returned" => result[t] = "pending"

IInv == TypeOK /\ Leases /\ CleanWires /\ Cancellable /\ HeadsOut

-----------------------------------------------------------------------------
(* The pieces that several actions share *)

LEMMA PhaseReasons == \A p : PhaseReason(p) \in Reasons
  BY DEF PhaseReason, Reasons

\* The transaction ends: a connection that goes back to the pool has been read
\* to the end of the response.
LEMMA EndKeeps ==
  ASSUME IInv, NEW t \in Transactions, pc[t] \in Active, NEW res \in Results,
         NEW keep \in BOOLEAN, NEW open \in BOOLEAN, NEW reason \in StopReasons,
         End(t, res, keep, open, reason), UNCHANGED <<conn, expiring, downstream_open>>,
         closing' \subseteq closing, Drained(t, keep)
  PROVE  IInv'
<1>1. conn[t] \in Connections /\ owner[conn[t]] = t /\ wire[conn[t]] \subseteq {t}
  BY DEF IInv, Leases, CleanWires
<1>2. TypeOK'
  <2>1. /\ pc' \in [Transactions -> Upstream \cup {"Created", "WritingDownstream", "Returned"}]
        /\ op' \in [Transactions -> {"none", "pending", "ok", "error"}]
        /\ conn' \in [Transactions -> Connections \cup {NoOne}]
        /\ streaming' \in [Transactions -> BOOLEAN]
        /\ response_started' \in [Transactions -> BOOLEAN]
        /\ current_proxy' \in [Transactions -> BOOLEAN]
        /\ downstream_open' \in [Transactions -> BOOLEAN]
    BY DEF IInv, TypeOK, End
  <2>2. parsed' \in [Transactions -> {"NeedMore", "Complete", "CompleteAtEof", "Error"}]
    BY DEF IInv, TypeOK, End
  <2>3. result' \in [Transactions -> Results]
    BY DEF IInv, TypeOK, End, Results
  <2>4. stop_reason' \in [Transactions -> StopReasons]
    BY DEF IInv, TypeOK, End, StopReasons
  <2>5. /\ phase' \in [Transactions -> Reasons \cup {"off"}]
        /\ total' \in [Transactions -> Reasons \cup {"off"}]
        /\ expiring' \in [Transactions -> Reasons \cup {"off"}]
    BY DEF IInv, TypeOK, End
  <2>6. /\ socket' \in [Connections -> BOOLEAN]
        /\ owner' \in [Connections -> Transactions \cup {NoOne}]
        /\ idle' \subseteq Connections /\ fresh' \subseteq Connections
    BY <1>1 DEF IInv, TypeOK, End, Released
  <2>7. closing' \subseteq [by : Transactions, on : Connections]
    BY DEF IInv, TypeOK
  <2>8. wire' \in [Connections -> SUBSET Transactions]
    BY DEF IInv, TypeOK, Drained
  <2> QED
    BY <2>1, <2>2, <2>3, <2>4, <2>5, <2>6, <2>7, <2>8 DEF TypeOK, Results, StopReasons
<1>3. /\ pc'[t] = "Returned"
      /\ \A s \in Transactions \ {t} : pc'[s] = pc[s] /\ conn'[s] = conn[s]
      /\ \A c \in Connections : owner'[c] = IF c = conn[t] THEN NoOne ELSE owner[c]
      /\ idle' \subseteq idle \cup {conn[t]} /\ fresh' = fresh
      /\ idle' = idle \/ keep
  BY <1>1 DEF IInv, TypeOK, End, Released
<1>4. \A c \in Connections : /\ wire'[c] = wire[c] \/ c = conn[t]
                             /\ c = conn[t] /\ keep => wire'[c] = {}
  BY <1>1 DEF IInv, TypeOK, Drained
<1>5. Leases'
  BY <1>3 DEF IInv, TypeOK, Leases, Active, Upstream
<1>6. CleanWires'
  <2>1. ASSUME NEW c \in idle' \cup fresh' PROVE wire'[c] = {}
    <3>1. c \in Connections
      BY <1>2 DEF TypeOK
    <3>2. CASE c \in idle \cup fresh
      <4>1. c # conn[t]
        BY <1>1, <3>2, TransactionNames DEF IInv, Leases
      <4> QED
        BY <1>4, <3>1, <3>2, <4>1 DEF IInv, CleanWires
    <3>3. CASE c \notin idle \cup fresh
      BY <1>3, <1>4, <2>1, <3>1, <3>3
    <3> QED
      BY <3>2, <3>3
  <2>2. ASSUME NEW s \in Transactions, pc'[s] \in Active PROVE wire'[conn'[s]] \subseteq {s}
    <3>1. s # t /\ pc[s] \in Active /\ conn'[s] = conn[s]
      BY <1>3, <2>2 DEF Active, Upstream
    <3>2. conn[s] \in Connections /\ owner[conn[s]] = s /\ wire[conn[s]] \subseteq {s}
      BY <3>1 DEF IInv, Leases, CleanWires
    <3> QED
      BY <1>1, <1>4, <3>1, <3>2
  <2> QED
    BY <2>1, <2>2 DEF CleanWires
<1>7. Cancellable'
  BY DEF IInv, TypeOK, Cancellable, End
<1>8. HeadsOut'
  BY DEF IInv, TypeOK, HeadsOut, End
<1> QED
  BY <1>2, <1>5, <1>6, <1>7, <1>8 DEF IInv
\* A step that moves no lease, ends nothing and puts no bytes on the wire but
\* those of the transaction's own response.
LEMMA RunsOn ==
  ASSUME IInv, TypeOK', UNCHANGED <<conn, pool>>,
         \A s \in Transactions : pc'[s] = pc[s] \/ (pc[s] \in Active /\ pc'[s] \in Active),
         \A c \in Connections : wire'[c] \subseteq wire[c] \cup {owner[c]},
         \A c \in idle \cup fresh : wire'[c] = wire[c]
  PROVE  Leases' /\ CleanWires'
<1>1. \A s \in Transactions : pc'[s] \in Active => pc[s] \in Active
  OBVIOUS
<1>2. Leases'
  BY <1>1 DEF IInv, Leases, pool
<1>3. ASSUME NEW s \in Transactions, pc'[s] \in Active PROVE wire'[conn'[s]] \subseteq {s}
  <2>1. conn[s] \in Connections /\ owner[conn[s]] = s /\ wire[conn[s]] \subseteq {s}
    BY <1>1, <1>3 DEF IInv, Leases, CleanWires
  <2> QED
    BY <2>1
<1>4. CleanWires'
  BY <1>3 DEF IInv, CleanWires, pool
<1> QED
  BY <1>2, <1>4

\* The coroutine goes on to its next operation.
LEMMA MovesOn ==
  ASSUME IInv, NEW t \in Transactions, pc[t] \in Active,
         NEW to \in Active, pc' = [pc EXCEPT ![t] = to],
         op' \in [Transactions -> {"none", "pending", "ok", "error"}],
         NEW reason \in Reasons \cup {"off"}, phase' = [phase EXCEPT ![t] = reason],
         parsed' \in [Transactions -> {"NeedMore", "Complete", "CompleteAtEof", "Error"}],
         response_started' = response_started \/ response_started' = [response_started EXCEPT ![t] = TRUE],
         socket' \in [Connections -> BOOLEAN],
         wire' = wire \/ wire' = [wire EXCEPT ![conn[t]] = @ \cup {t}],
         UNCHANGED <<conn, streaming, result, stop_reason, total, expiring, current_proxy,
                     downstream_open, pool, closing>>
  PROVE  IInv'
<1>1. conn[t] \in Connections /\ owner[conn[t]] = t
  BY DEF IInv, Leases
<1>2. TypeOK'
  <2>1. /\ pc' \in [Transactions -> Upstream \cup {"Created", "WritingDownstream", "Returned"}]
        /\ phase' \in [Transactions -> Reasons \cup {"off"}]
    BY DEF IInv, TypeOK, Active
  <2>3. response_started' \in [Transactions -> BOOLEAN]
    <3>1. response_started \in [Transactions -> BOOLEAN]
      BY DEF IInv, TypeOK
    <3>2. [response_started EXCEPT ![t] = TRUE] \in [Transactions -> BOOLEAN]
      BY <3>1
    <3> QED
      BY <3>1, <3>2, Zenon
  <2>2. wire' \in [Connections -> SUBSET Transactions]
    BY DEF IInv, TypeOK
  <2> QED
    BY <2>1, <2>2, <2>3 DEF IInv, TypeOK, pool
<1>3. Leases' /\ CleanWires'
  <2>1. \A s \in Transactions : pc'[s] = pc[s] \/ (pc[s] \in Active /\ pc'[s] \in Active)
    BY DEF IInv, TypeOK
  <2>2. \A c \in Connections : wire'[c] \subseteq wire[c] \cup {owner[c]}
    BY <1>1 DEF IInv, TypeOK
  <2>3. \A c \in idle \cup fresh : c # conn[t]
    BY <1>1, TransactionNames DEF IInv, Leases
  <2>4. \A c \in idle \cup fresh : wire'[c] = wire[c]
    BY <2>3 DEF IInv, TypeOK
  <2> QED
    BY <1>2, <2>1, <2>2, <2>4, RunsOn
<1>4. Cancellable'
  BY <1>1 DEF IInv, TypeOK, Cancellable
<1>5. HeadsOut'
  BY DEF IInv, TypeOK, HeadsOut, Active, Upstream
<1> QED
  BY <1>2, <1>3, <1>4, <1>5 DEF IInv

\* Entering a phase.
LEMMA EnterKeeps ==
  ASSUME IInv, NEW t \in Transactions, pc[t] \in Active, NEW p \in Upstream, NEW opened \in BOOLEAN,
         EnterPhase(t, p, opened),
         parsed' \in [Transactions -> {"NeedMore", "Complete", "CompleteAtEof", "Error"}],
         response_started' = response_started \/ response_started' = [response_started EXCEPT ![t] = TRUE],
         socket' \in [Connections -> BOOLEAN],
         wire' = wire \/ wire' = [wire EXCEPT ![conn[t]] = @ \cup {t}],
         UNCHANGED <<conn, streaming, result, stop_reason, total, expiring, current_proxy,
                     downstream_open, pool, closing>>
  PROVE  IInv'
<1>1. op' \in [Transactions -> {"none", "pending", "ok", "error"}]
  BY DEF IInv, TypeOK, EnterPhase
<1>2. pc' = [pc EXCEPT ![t] = p] /\ phase' = [phase EXCEPT ![t] = PhaseReason(p)]
      /\ p \in Active /\ PhaseReason(p) \in Reasons \cup {"off"}
  BY PhaseReasons DEF EnterPhase, Active
<1> QED
  BY <1>1, <1>2, MovesOn

LEMMA WriteDownstreamKeeps ==
  ASSUME IInv, NEW t \in Transactions, pc[t] \in Active,
         NEW parse \in {"NeedMore", "Complete", "CompleteAtEof", "Error"}, WriteDownstream(t, parse),
         UNCHANGED wire, Frame
  PROVE  IInv'
<1>1. op' \in [Transactions -> {"none", "pending", "ok", "error"}]
  BY DEF IInv, TypeOK, WriteDownstream
<1>2. parsed' \in [Transactions -> {"NeedMore", "Complete", "CompleteAtEof", "Error"}]
  BY DEF IInv, TypeOK, WriteDownstream
<1>3. socket' \in [Connections -> BOOLEAN]
  BY DEF IInv, TypeOK, WriteDownstream, Continue
<1>4. "WritingDownstream" \in Active
  BY DEF Active
<1> QED
  BY <1>1, <1>2, <1>3, <1>4, MovesOn DEF WriteDownstream, Continue, Frame, pool

LEMMA ReadOnKeeps ==
  ASSUME IInv, NEW t \in Transactions, pc[t] \in Active, ReadOn(t),
         response_started' = response_started \/ response_started' = [response_started EXCEPT ![t] = TRUE],
         UNCHANGED wire, Frame
  PROVE  IInv'
<1>1. conn[t] \in Connections /\ socket[conn[t]] \in BOOLEAN
  BY DEF IInv, TypeOK, Leases
<1>2. parsed' \in [Transactions -> {"NeedMore", "Complete", "CompleteAtEof", "Error"}]
  BY DEF IInv, TypeOK, ReadOn
<1>3. socket' \in [Connections -> BOOLEAN]
  BY DEF IInv, TypeOK, ReadOn, Continue
<1>4. "ReadingResponse" \in Upstream /\ EnterPhase(t, "ReadingResponse", socket[conn[t]])
  BY DEF Upstream, ReadOn
<1> QED
  BY <1>1, <1>2, <1>3, <1>4, EnterKeeps DEF ReadOn, Continue, Frame, pool

LEMMA ErrorsAreResults ==
  ASSUME NEW reason, NEW p
  PROVE  errorForStopReason(reason, p) \in Results
  BY DEF errorForStopReason, Results

LEMMA FailedKeeps ==
  ASSUME IInv, NEW t \in Transactions, pc[t] \in Active, NEW res \in Results,
         NEW reason \in StopReasons, Failed(t, res, reason), UNCHANGED wire, Frame
  PROVE  IInv'
<1> DEFINE answer == IF response_started[t] THEN "StreamedClose" ELSE res
<1>1. answer \in Results
  BY DEF Results
<1>2. End(t, answer, FALSE, FALSE, reason)
  BY DEF Failed
<1>3. Drained(t, FALSE) /\ closing' \subseteq closing /\ UNCHANGED <<conn, expiring, downstream_open>>
  BY DEF Drained, Frame
<1> HIDE DEF answer
<1> QED
  BY <1>1, <1>2, <1>3, EndKeeps

-----------------------------------------------------------------------------
(* One lemma per group of actions *)

LEMMA StartKeeps ==
  ASSUME IInv, NEW t \in Transactions, NEW c \in Connections, NEW f \in BOOLEAN, Start(t, c, f)
  PROVE  IInv'
<1>1. pc[t] = "Created" /\ c \in idle \cup fresh /\ owner[c] = NoOne /\ wire[c] = {}
  BY DEF Start, Lease, IInv, Leases, CleanWires
<1> DEFINE p == IF socket[c] THEN "SendingRequest" ELSE "Resolving"
<1>2. p \in Active /\ p \in Upstream /\ pc' = [pc EXCEPT ![t] = p]
      /\ phase' = [phase EXCEPT ![t] = PhaseReason(p)]
  BY DEF Active, Upstream, Start, EnterPhase
<1>3. op' \in [Transactions -> {"none", "pending", "ok", "error"}]
  BY DEF IInv, TypeOK, Start, EnterPhase
<1> HIDE DEF p
<1>4. /\ conn' = [conn EXCEPT ![t] = c] /\ owner' = [owner EXCEPT ![c] = t]
      /\ idle' = idle \ {c} /\ fresh' = fresh \ {c}
      /\ current_proxy' = [current_proxy EXCEPT ![t] = TRUE]
      /\ total' = [total EXCEPT ![t] = "TotalTimeout"]
      /\ streaming' = [streaming EXCEPT ![t] = f]
      /\ UNCHANGED <<parsed, response_started, result, stop_reason, expiring,
                     downstream_open, socket, closing, wire>>
  BY DEF Start, Lease
<1>5. TypeOK'
  <2>1. pc' \in [Transactions -> Upstream \cup {"Created", "WritingDownstream", "Returned"}]
    BY <1>2 DEF IInv, TypeOK
  <2>2. /\ phase' \in [Transactions -> Reasons \cup {"off"}]
        /\ total' \in [Transactions -> Reasons \cup {"off"}]
    BY <1>2, <1>4, PhaseReasons DEF IInv, TypeOK, Reasons
  <2>3. /\ conn' \in [Transactions -> Connections \cup {NoOne}]
        /\ owner' \in [Connections -> Transactions \cup {NoOne}]
        /\ idle' \subseteq Connections /\ fresh' \subseteq Connections
        /\ current_proxy' \in [Transactions -> BOOLEAN]
        /\ streaming' \in [Transactions -> BOOLEAN]
    BY <1>4 DEF IInv, TypeOK
  <2> QED
    BY <1>3, <1>4, <2>1, <2>2, <2>3 DEF IInv, TypeOK
<1>6. ASSUME NEW s \in Transactions \ {t}, pc'[s] \in Active
      PROVE  /\ pc[s] \in Active /\ conn'[s] = conn[s] /\ conn[s] # c
             /\ conn[s] \in Connections /\ owner'[conn[s]] = s /\ wire[conn[s]] \subseteq {s}
  <2>1. pc[s] \in Active /\ conn'[s] = conn[s]
    BY <1>2, <1>4, <1>6 DEF IInv, TypeOK
  <2>2. conn[s] \in Connections /\ owner[conn[s]] = s /\ wire[conn[s]] \subseteq {s}
    BY <2>1 DEF IInv, Leases, CleanWires
  <2>3. conn[s] # c
    BY <1>1, <2>2, TransactionNames
  <2> QED
    BY <1>4, <2>1, <2>2, <2>3 DEF IInv, TypeOK
<1>7. conn'[t] = c /\ owner'[c] = t
  BY <1>4 DEF IInv, TypeOK
<1>8. Leases'
  <2>1. \A d \in idle' \cup fresh' : owner'[d] = NoOne
    BY <1>4 DEF IInv, TypeOK, Leases
  <2>2. \A s \in Transactions : pc'[s] \in Active => conn'[s] \in Connections /\ owner'[conn'[s]] = s
    BY <1>6, <1>7
  <2> QED
    BY <2>1, <2>2 DEF Leases
<1>9. CleanWires'
  <2>1. \A d \in idle' \cup fresh' : wire'[d] = {}
    BY <1>4 DEF IInv, CleanWires
  <2>2. \A s \in Transactions : pc'[s] \in Active => wire'[conn'[s]] \subseteq {s}
    BY <1>1, <1>4, <1>6, <1>7
  <2> QED
    BY <2>1, <2>2 DEF CleanWires
<1>10. Cancellable'
  BY <1>2, <1>4 DEF IInv, TypeOK, Cancellable
<1>11. HeadsOut'
  BY <1>1, <1>2, <1>4 DEF IInv, TypeOK, HeadsOut
<1> QED
  BY <1>5, <1>8, <1>9, <1>10, <1>11 DEF IInv

LEMMA StartUnsupportedKeeps ==
  ASSUME IInv, NEW t \in Transactions, NEW c \in Connections, StartUnsupported(t, c)
  PROVE  IInv'
<1>1. /\ pc[t] = "Created" /\ pc' = [pc EXCEPT ![t] = "Returned"]
      /\ idle' = idle \ {c} /\ fresh' = fresh \ {c}
      /\ socket' = [socket EXCEPT ![c] = FALSE]
      /\ wire' = [wire EXCEPT ![c] = {}]
      /\ result' = [result EXCEPT ![t] = "UnsupportedRequest"]
      /\ UNCHANGED <<op, parsed, response_started, conn, streaming, stop_reason, timers, expiring,
                     current_proxy, downstream_open, owner, closing>>
  BY DEF StartUnsupported
<1>2. TypeOK'
  <2>1. /\ pc' \in [Transactions -> Upstream \cup {"Created", "WritingDownstream", "Returned"}]
        /\ socket' \in [Connections -> BOOLEAN] /\ wire' \in [Connections -> SUBSET Transactions]
        /\ idle' \subseteq Connections /\ fresh' \subseteq Connections
    BY <1>1 DEF IInv, TypeOK
  <2>2. result' \in [Transactions -> Results]
    BY <1>1 DEF IInv, TypeOK, Results
  <2> QED
    BY <1>1, <2>1, <2>2 DEF IInv, TypeOK, Results, timers
<1>3. \A s \in Transactions : pc'[s] \in Active => pc[s] \in Active
  BY <1>1 DEF IInv, TypeOK, Active, Upstream
<1>4. Leases'
  BY <1>1, <1>3 DEF IInv, Leases
<1>5. \A d \in Connections : wire'[d] \subseteq wire[d]
  BY <1>1 DEF IInv, TypeOK
<1>6. CleanWires'
  <2>1. \A d \in idle' \cup fresh' : wire'[d] = {}
    BY <1>1 DEF IInv, TypeOK, CleanWires
  <2>2. \A s \in Transactions : pc'[s] \in Active => wire'[conn'[s]] \subseteq {s}
    BY <1>1, <1>3, <1>5 DEF IInv, CleanWires, Leases
  <2> QED
    BY <2>1, <2>2 DEF CleanWires
<1>7. Cancellable' /\ HeadsOut'
  BY <1>1 DEF IInv, TypeOK, Cancellable, HeadsOut, Active, Upstream, timers
<1> QED
  BY <1>2, <1>4, <1>6, <1>7 DEF IInv

\* Connecting and sending.
LEMMA SendingKeeps ==
  ASSUME IInv, NEW t \in Transactions, Resolved(t) \/ Connected(t) \/ RequestSent(t) \/ PhaseFails(t)
  PROVE  IInv'
<1>1. pc[t] \in Active
  BY DEF Resolved, Connected, RequestSent, PhaseFails, Active, Upstream
<1>2. conn[t] \in Connections /\ socket[conn[t]] \in BOOLEAN
  BY <1>1 DEF IInv, TypeOK, Leases
<1>3. {"Connecting", "SendingRequest", "ReadingResponse"} \subseteq Upstream
  BY DEF Upstream
<1>4. CASE Resolved(t)
  <2>1. socket' \in [Connections -> BOOLEAN]
    BY <1>2, <1>4 DEF IInv, TypeOK, Resolved
  <2>2. parsed' \in [Transactions -> {"NeedMore", "Complete", "CompleteAtEof", "Error"}]
    BY <1>4 DEF IInv, TypeOK, Resolved
  <2>3. EnterPhase(t, "Connecting", TRUE)
    BY <1>4 DEF Resolved
  <2> QED
    BY <1>1, <1>3, <1>4, <2>1, <2>2, <2>3, EnterKeeps DEF Resolved, Frame, pool
<1>5. CASE Connected(t) \/ RequestSent(t)
  <2>1. socket' \in [Connections -> BOOLEAN]
    BY <1>5 DEF IInv, TypeOK, Connected, RequestSent, Continue
  <2>2. parsed' \in [Transactions -> {"NeedMore", "Complete", "CompleteAtEof", "Error"}]
    BY <1>5 DEF IInv, TypeOK, Connected, RequestSent
  <2>3. PICK p \in {"SendingRequest", "ReadingResponse"} : EnterPhase(t, p, socket[conn[t]])
    BY <1>5 DEF Connected, RequestSent
  <2>4. wire' = wire \/ wire' = [wire EXCEPT ![conn[t]] = @ \cup {t}]
    BY <1>5 DEF Connected, RequestSent
  <2>5. response_started' = response_started
        /\ UNCHANGED <<conn, streaming, result, stop_reason, total, expiring, current_proxy,
                       downstream_open, pool, closing>>
    BY <1>5 DEF Connected, RequestSent, Continue, Frame, pool
  <2> QED
    BY <1>1, <1>2, <1>3, <2>1, <2>2, <2>3, <2>4, <2>5, EnterKeeps
<1>6. CASE PhaseFails(t)
  <2> DEFINE reason == IF stop_reason[t] = "None" THEN "InternalError" ELSE stop_reason[t]
  <2>1. reason \in StopReasons
    BY DEF IInv, TypeOK, StopReasons
  <2>2. Failed(t, errorForStopReason(reason, pc[t]), reason) /\ UNCHANGED wire /\ Frame
    BY <1>6 DEF PhaseFails
  <2> HIDE DEF reason
  <2> QED
    BY <1>1, <2>1, <2>2, ErrorsAreResults, FailedKeeps
<1> QED
  BY <1>4, <1>5, <1>6

\* Reading the response.
LEMMA ReadingKeeps ==
  ASSUME IInv, NEW t \in Transactions, pc[t] = "ReadingResponse",
         \/ \E parse \in {"NeedMore", "Complete", "Error"}, clean \in BOOLEAN : ResponseRead(t, parse, clean)
         \/ \E parse \in {"NeedMore", "Error"} : HeadIncomplete(t, parse)
         \/ \E parse \in {"NeedMore", "Complete", "Error"} : ResponseForwarded(t, parse)
         \/ \E parse \in {"Complete", "Error"} : ReadFails(t, parse)
  PROVE  IInv'
<1>1. pc[t] \in Active
  BY DEF Active, Upstream
<1>2. conn[t] \in Connections /\ socket[conn[t]] \in BOOLEAN /\ stop_reason[t] \in StopReasons
  BY <1>1 DEF IInv, TypeOK, Leases, StopReasons
<1>3. "UpstreamProtocol" \in Results /\ "None" \in Results /\ "None" \in StopReasons
  BY DEF Results, StopReasons
<1>4. ASSUME NEW parse \in {"NeedMore", "Complete", "Error"}, NEW clean \in BOOLEAN,
             ResponseRead(t, parse, clean)
      PROVE  IInv'
  <2>1. Drained(t, clean) /\ Frame /\ (clean => parse = "Complete")
    BY <1>4 DEF ResponseRead
  <2>2. CASE parse = "NeedMore"
    <3>1. ReadOn(t) /\ UNCHANGED response_started /\ UNCHANGED wire
      BY <1>4, <2>1, <2>2 DEF ResponseRead, Drained
    <3> QED
      BY <1>1, <2>1, <3>1, ReadOnKeeps
  <2>3. CASE parse = "Complete"
    <3>1. End(t, "None", clean, socket[conn[t]], stop_reason[t])
      BY <1>4, <2>3 DEF ResponseRead
    <3> QED
      BY <1>1, <1>2, <1>3, <2>1, <3>1, EndKeeps DEF Frame
  <2>4. CASE parse = "Error"
    <3>1. Failed(t, "UpstreamProtocol", stop_reason[t]) /\ UNCHANGED wire
      BY <1>4, <2>1, <2>4 DEF ResponseRead, Drained
    <3> QED
      BY <1>1, <1>2, <1>3, <2>1, <3>1, FailedKeeps
  <2> QED
    BY <2>2, <2>3, <2>4
<1>5. ASSUME NEW parse \in {"NeedMore", "Error"}, HeadIncomplete(t, parse) PROVE IInv'
  <2>1. UNCHANGED wire /\ Frame
    BY <1>5 DEF HeadIncomplete
  <2>2. \/ ReadOn(t) /\ UNCHANGED response_started
        \/ Failed(t, "UpstreamProtocol", stop_reason[t])
    BY <1>5 DEF HeadIncomplete
  <2> QED
    BY <1>1, <1>2, <1>3, <2>1, <2>2, ReadOnKeeps, FailedKeeps
<1>6. ASSUME NEW parse \in {"NeedMore", "Complete", "Error"}, ResponseForwarded(t, parse) PROVE IInv'
  BY <1>1, <1>6, WriteDownstreamKeeps DEF ResponseForwarded
<1>7. ASSUME NEW parse \in {"Complete", "Error"}, ReadFails(t, parse) PROVE IInv'
  <2>1. UNCHANGED wire /\ Frame
    BY <1>7 DEF ReadFails
  <2>2. \/ Failed(t, errorForStopReason(stop_reason[t], pc[t]), stop_reason[t])
        \/ Failed(t, "UpstreamProtocol", stop_reason[t])
        \/ WriteDownstream(t, "CompleteAtEof")
        \/ End(t, "None", FALSE, FALSE, "None")
    BY <1>7 DEF ReadFails
  <2>3. CASE End(t, "None", FALSE, FALSE, "None")
    BY <1>1, <1>3, <2>1, <2>3, EndKeeps DEF Frame, Drained
  <2> QED
    BY <1>1, <1>2, <1>3, <2>1, <2>2, <2>3, ErrorsAreResults, FailedKeeps, WriteDownstreamKeeps
<1> QED
  BY <1>4, <1>5, <1>6, <1>7

\* Writing it to the client.
LEMMA ClientKeeps ==
  ASSUME IInv, NEW t \in Transactions, ClientStep(t)
  PROVE  IInv'
<1>1. pc[t] \in Active
  BY DEF ClientStep, DownstreamWritten, DownstreamWriteFails, Active
<1>2. conn[t] \in Connections /\ socket[conn[t]] \in BOOLEAN /\ stop_reason[t] \in StopReasons
  BY <1>1 DEF IInv, TypeOK, Leases, StopReasons
<1>3. {"None", "StreamedClose"} \subseteq Results /\ "DownstreamClosed" \in StopReasons
  BY DEF Results, StopReasons, Reasons
<1>4. ASSUME NEW clean \in BOOLEAN, DownstreamWritten(t, clean) PROVE IInv'
  <2>1. /\ Drained(t, clean) /\ (clean => parsed[t] = "Complete")
        /\ UNCHANGED <<conn, expiring, downstream_open>>
    BY <1>4 DEF DownstreamWritten
  <2>2. CASE parsed[t] = "NeedMore"
    <3>1. ReadOn(t) /\ response_started' = [response_started EXCEPT ![t] = TRUE] /\ UNCHANGED closing
      BY <1>4, <2>2 DEF DownstreamWritten
    <3>2. UNCHANGED wire /\ Frame
      BY <2>1, <2>2, <3>1 DEF Drained, Frame
    <3> QED
      BY <1>1, <3>1, <3>2, ReadOnKeeps
  <2>3. CASE parsed[t] # "NeedMore"
    <3> DEFINE res == IF parsed[t] = "Error" THEN "StreamedClose" ELSE "None"
               open == socket[conn[t]] /\ ClosesFirst(t) = {}
    <3>1. End(t, res, clean, open, stop_reason[t]) /\ closing' = closing \ ClosesFirst(t)
      BY <1>4, <2>3 DEF DownstreamWritten
    <3>2. res \in Results /\ open \in BOOLEAN
      BY <1>2, <1>3
    <3> HIDE DEF res, open
    <3> QED
      BY <1>1, <1>2, <2>1, <3>1, <3>2, EndKeeps
  <2> QED
    BY <2>2, <2>3
<1>5. ASSUME NEW last \in BOOLEAN, NEW clean \in BOOLEAN, DownstreamWriteFails(t, last, clean) PROVE IInv'
  <2> DEFINE res == IF last THEN "None" ELSE "StreamedClose"
             reason == IF stop_reason[t] = "None" THEN "DownstreamClosed" ELSE stop_reason[t]
  <2>1. /\ Drained(t, clean) /\ UNCHANGED <<conn, expiring, downstream_open>>
        /\ End(t, res, clean, FALSE, reason) /\ closing' = closing \ ClosesFirst(t)
    BY <1>5 DEF DownstreamWriteFails
  <2>2. res \in Results /\ reason \in StopReasons
    BY <1>2, <1>3
  <2> HIDE DEF res, reason
  <2> QED
    BY <1>1, <2>1, <2>2, EndKeeps
<1> QED
  BY <1>4, <1>5 DEF ClientStep

\* Completions, deadlines, cancellation and closes.
LEMMA OthersKeep ==
  ASSUME IInv, TypeOK', UNCHANGED <<pc, conn, pool, result, response_started>>,
         \A c \in Connections : wire'[c] = wire[c] \/ wire'[c] = {},
         Cancellable'
  PROVE  IInv'
<1>1. \A c \in Connections : wire'[c] \subseteq wire[c] \cup {owner[c]}
  BY DEF IInv, TypeOK
<1>2. \A c \in idle \cup fresh : wire'[c] = wire[c]
  BY DEF IInv, TypeOK, CleanWires
<1>3. Leases' /\ CleanWires'
  BY <1>1, <1>2, RunsOn
<1>4. HeadsOut'
  BY DEF IInv, HeadsOut
<1> QED
  BY <1>3, <1>4 DEF IInv

LEMMA StrandKeeps ==
  ASSUME IInv, NEW t \in Transactions,
         \/ \E outcome \in {"ok", "error"} : Completes(t, outcome)
         \/ SessionCloses(t) \/ TimerStep(t) \/ CancelInExecutor(t)
  PROVE  IInv'
<1>1. ASSUME NEW outcome \in {"ok", "error"}, Completes(t, outcome) PROVE IInv'
  <2>1. TypeOK' /\ Cancellable'
    BY <1>1 DEF IInv, TypeOK, Cancellable, Completes, timers, pool
  <2> QED
    BY <1>1, <2>1, OthersKeep DEF Completes, pool
<1>2. CASE SessionCloses(t)
  <2>1. TypeOK'
    <3>1. /\ downstream_open' \in [Transactions -> BOOLEAN]
          /\ expiring' \in [Transactions -> Reasons \cup {"off"}]
      BY <1>2 DEF IInv, TypeOK, SessionCloses, Reasons
    <3> QED
      BY <1>2, <3>1 DEF IInv, TypeOK, SessionCloses, coroutine, timers, pool
  <2>2. Cancellable'
    BY <1>2 DEF IInv, TypeOK, Cancellable, SessionCloses, timers
  <2> QED
    BY <1>2, <2>1, <2>2, OthersKeep DEF SessionCloses, coroutine, pool
<1>3. CASE TimerStep(t)
  <2>1. TypeOK'
    <3>1. /\ expiring' \in [Transactions -> Reasons \cup {"off"}]
          /\ phase' \in [Transactions -> Reasons \cup {"off"}]
          /\ total' \in [Transactions -> Reasons \cup {"off"}]
      BY <1>3 DEF IInv, TypeOK, TimerStep, PhaseExpires, TotalExpires, Expire
    <3> QED
      BY <1>3, <3>1 DEF IInv, TypeOK, TimerStep, PhaseExpires, TotalExpires, Expire, coroutine, pool
  <2>2. Cancellable'
    BY <1>3 DEF IInv, TypeOK, Cancellable, TimerStep, PhaseExpires, TotalExpires, Expire
  <2> QED
    BY <1>3, <2>1, <2>2, OthersKeep DEF TimerStep, PhaseExpires, TotalExpires, Expire, coroutine, pool
<1>4. CASE CancelInExecutor(t)
  <2>1. conn[t] \in Connections /\ expiring[t] \in Reasons
    BY <1>4 DEF IInv, TypeOK, Cancellable, CancelInExecutor
  <2>2. TypeOK'
    <3>1. /\ expiring' \in [Transactions -> Reasons \cup {"off"}]
          /\ closing' \subseteq [by : Transactions, on : Connections]
      BY <1>4, <2>1 DEF IInv, TypeOK, CancelInExecutor
    <3>2. stop_reason' \in [Transactions -> StopReasons]
      BY <1>4, <2>1 DEF IInv, TypeOK, CancelInExecutor, StopReasons
    <3> QED
      BY <1>4, <3>1, <3>2 DEF IInv, TypeOK, StopReasons, CancelInExecutor, coroutine, timers, pool
  <2>3. Cancellable'
    BY <1>4 DEF IInv, TypeOK, Cancellable, CancelInExecutor, timers
  <2> QED
    BY <1>4, <2>2, <2>3, OthersKeep DEF CancelInExecutor, coroutine, pool
<1> QED
  BY <1>1, <1>2, <1>3, <1>4

LEMMA CloseKeeps ==
  ASSUME IInv, NEW m \in closing, CancelAndClose(m)
  PROVE  IInv'
<1>1. m.on \in Connections
  BY DEF IInv, TypeOK
<1>2. TypeOK'
  <2>1. /\ socket' \in [Connections -> BOOLEAN] /\ wire' \in [Connections -> SUBSET Transactions]
        /\ closing' \subseteq [by : Transactions, on : Connections]
    BY <1>1 DEF IInv, TypeOK, CancelAndClose
  <2>2. op' \in [Transactions -> {"none", "pending", "ok", "error"}]
    BY DEF IInv, TypeOK, CancelAndClose
  <2> QED
    BY <2>1, <2>2 DEF IInv, TypeOK, CancelAndClose, timers, pool
<1>3. \A c \in Connections : wire'[c] = wire[c] \/ wire'[c] = {}
  BY <1>1 DEF IInv, TypeOK, CancelAndClose
<1>4. Cancellable'
  BY DEF IInv, Cancellable, CancelAndClose, timers
<1> QED
  BY <1>2, <1>3, <1>4, OthersKeep DEF CancelAndClose, pool

-----------------------------------------------------------------------------
LEMMA InitEstablishes ==
  ASSUME Init
  PROVE  IInv
<1>1. TypeOK
  BY DEF Init, TypeOK, Reasons, Upstream
<1>2. \A t \in Transactions : /\ pc[t] = "Created" /\ expiring[t] = "off" /\ phase[t] = "off"
                              /\ total[t] = "off" /\ ~current_proxy[t] /\ ~response_started[t]
                              /\ result[t] = "pending"
  BY DEF Init
<1>3. idle \cup fresh = Connections /\ \A c \in Connections : owner[c] = NoOne /\ wire[c] = {}
  BY DEF Init
<1> QED
  BY <1>1, <1>2, <1>3 DEF IInv, Leases, CleanWires, Cancellable, HeadsOut, Active, Upstream

LEMMA NextKeeps ==
  ASSUME IInv, [Next]_vars
  PROVE  IInv'
<1>1. ASSUME NEW t \in Transactions, CoroutineStep(t) PROVE IInv'
  <2>1. CASE Resolved(t) \/ Connected(t) \/ RequestSent(t) \/ PhaseFails(t)
    BY <2>1, SendingKeeps
  <2>2. CASE \/ \E parse \in {"NeedMore", "Complete", "Error"}, clean \in BOOLEAN : ResponseRead(t, parse, clean)
             \/ \E parse \in {"NeedMore", "Error"} : HeadIncomplete(t, parse)
             \/ \E parse \in {"NeedMore", "Complete", "Error"} : ResponseForwarded(t, parse)
             \/ \E parse \in {"Complete", "Error"} : ReadFails(t, parse)
    <3>1. pc[t] = "ReadingResponse"
      BY <2>2 DEF ResponseRead, HeadIncomplete, ResponseForwarded, ReadFails
    <3> QED
      BY <2>2, <3>1, ReadingKeeps
  <2> QED
    BY <1>1, <2>1, <2>2 DEF CoroutineStep
<1>2. CASE UNCHANGED vars
  BY <1>2 DEF IInv, TypeOK, Leases, CleanWires, Cancellable, HeadsOut, vars, coroutine, timers, pool
<1> QED
  BY <1>1, <1>2, StartKeeps, StartUnsupportedKeeps, StrandKeeps, ClientKeeps, CloseKeeps DEF Next, CloseStep

\* The inductive invariant of upstream transactions holds in every reachable
\* state.
THEOREM Inductive == Spec => []IInv
  BY InitEstablishes, NextKeeps, PTL DEF Spec

\* A transaction that sends or reads on a connection meets no bytes of another
\* transaction's response: a connection goes back to the pool only after its
\* response has been read to the end.
THEOREM OwnBytesOnly == Spec => []NoForeignBytes
<1>1. IInv => NoForeignBytes
  BY DEF IInv, CleanWires, NoForeignBytes, Active, Upstream
<1> QED
  BY <1>1, Inductive, PTL

-----------------------------------------------------------------------------
(* No error behind a head that is out *)

LEMMA EndAnswers ==
  ASSUME IInv, NEW t \in Transactions, NEW res, NEW keep, NEW open, NEW reason,
         End(t, res, keep, open, reason), response_started[t] => res \in {"None", "StreamedClose"}
  PROVE  HeadIsLast
<1>1. \A s \in Transactions : result'[s] = IF s = t THEN res ELSE result[s]
  BY DEF IInv, TypeOK, End
<1>2. \A s \in Transactions : response_started[s] => result[s] = "pending"
  BY DEF IInv, HeadsOut, Active, Upstream
<1> QED
  BY <1>1, <1>2 DEF HeadIsLast

LEMMA FailedAnswers ==
  ASSUME IInv, NEW t \in Transactions, NEW res, NEW reason, Failed(t, res, reason)
  PROVE  HeadIsLast
<1> DEFINE answer == IF response_started[t] THEN "StreamedClose" ELSE res
<1>1. End(t, answer, FALSE, FALSE, reason) /\ (response_started[t] => answer \in {"None", "StreamedClose"})
  BY DEF Failed
<1> HIDE DEF answer
<1> QED
  BY <1>1, EndAnswers

LEMMA NoAnswer ==
  ASSUME IInv, result' = result
  PROVE  HeadIsLast
  BY DEF IInv, HeadsOut, Active, Upstream, HeadIsLast

LEMMA ReadingAnswers ==
  ASSUME IInv, NEW t \in Transactions, CoroutineStep(t)
  PROVE  HeadIsLast
<1>1. CASE Resolved(t) \/ Connected(t) \/ RequestSent(t)
  BY <1>1, NoAnswer DEF Resolved, Connected, RequestSent, Continue
<1>2. CASE PhaseFails(t)
  BY <1>2, FailedAnswers DEF PhaseFails
<1>3. ASSUME NEW parse \in {"NeedMore", "Complete", "Error"}, NEW clean \in BOOLEAN,
             ResponseRead(t, parse, clean)
      PROVE  HeadIsLast
  <2>1. \/ result' = result
        \/ End(t, "None", clean, socket[conn[t]], stop_reason[t])
        \/ Failed(t, "UpstreamProtocol", stop_reason[t])
    BY <1>3 DEF ResponseRead, ReadOn, Continue
  <2> QED
    BY <2>1, NoAnswer, EndAnswers, FailedAnswers
<1>4. ASSUME NEW parse \in {"NeedMore", "Error"}, HeadIncomplete(t, parse) PROVE HeadIsLast
  BY <1>4, NoAnswer, FailedAnswers DEF HeadIncomplete, ReadOn, Continue
<1>5. ASSUME NEW parse \in {"NeedMore", "Complete", "Error"}, ResponseForwarded(t, parse) PROVE HeadIsLast
  BY <1>5, NoAnswer DEF ResponseForwarded, WriteDownstream, Continue
<1>6. ASSUME NEW parse \in {"Complete", "Error"}, ReadFails(t, parse) PROVE HeadIsLast
  <2>1. \/ Failed(t, errorForStopReason(stop_reason[t], pc[t]), stop_reason[t])
        \/ Failed(t, "UpstreamProtocol", stop_reason[t])
        \/ result' = result
        \/ End(t, "None", FALSE, FALSE, "None")
    BY <1>6 DEF ReadFails, WriteDownstream, Continue
  <2> QED
    BY <2>1, NoAnswer, EndAnswers, FailedAnswers
<1> QED
  BY <1>1, <1>2, <1>3, <1>4, <1>5, <1>6 DEF CoroutineStep

LEMMA ClientAnswers ==
  ASSUME IInv, NEW t \in Transactions, ClientStep(t)
  PROVE  HeadIsLast
<1>1. ASSUME NEW clean \in BOOLEAN, DownstreamWritten(t, clean) PROVE HeadIsLast
  <2>1. CASE parsed[t] = "NeedMore"
    BY <1>1, <2>1, NoAnswer DEF DownstreamWritten, ReadOn, Continue
  <2>2. CASE parsed[t] # "NeedMore"
    <3>1. \E res \in {"None", "StreamedClose"} : \E open : End(t, res, clean, open, stop_reason[t])
      BY <1>1, <2>2 DEF DownstreamWritten
    <3> QED
      BY <3>1, EndAnswers
  <2> QED
    BY <2>1, <2>2
<1>2. ASSUME NEW last \in BOOLEAN, NEW clean \in BOOLEAN, DownstreamWriteFails(t, last, clean)
      PROVE  HeadIsLast
  <2>1. \E res \in {"None", "StreamedClose"} : \E reason : End(t, res, clean, FALSE, reason)
    BY <1>2 DEF DownstreamWriteFails
  <2> QED
    BY <2>1, EndAnswers
<1> QED
  BY <1>1, <1>2 DEF ClientStep

\* Once the head of a response is out, no failure of the upstream, no deadline
\* and no cancellation makes the transaction end with an error to be answered.
THEOREM NothingAfterHead == Spec => NoErrorAfterHead
<1>1. ASSUME IInv, [Next]_vars PROVE [HeadIsLast]_vars
  <2>1. CASE UNCHANGED vars
    BY <2>1
  <2>2. ASSUME NEW t \in Transactions, NEW c \in Connections, StartUnsupported(t, c) PROVE HeadIsLast
    <3>1. ~response_started[t]
      BY <1>1, <2>2 DEF IInv, HeadsOut, StartUnsupported, Active, Upstream
    <3>2. \A s \in Transactions \ {t} : result'[s] = result[s]
      BY <1>1, <2>2 DEF IInv, TypeOK, StartUnsupported
    <3> QED
      BY <1>1, <3>1, <3>2 DEF IInv, HeadsOut, Active, Upstream, HeadIsLast
  <2>3. ASSUME NEW t \in Transactions,
               \/ \E c \in Connections, f \in BOOLEAN : Start(t, c, f)
               \/ \E outcome \in {"ok", "error"} : Completes(t, outcome)
               \/ SessionCloses(t) \/ TimerStep(t) \/ CancelInExecutor(t)
        PROVE  HeadIsLast
    <3>1. result' = result
      BY <2>3 DEF Start, Completes, SessionCloses, TimerStep, PhaseExpires, TotalExpires, Expire,
                  CancelInExecutor, coroutine
    <3> QED
      BY <1>1, <3>1, NoAnswer
  <2>4. ASSUME NEW m \in closing, CancelAndClose(m) PROVE HeadIsLast
    BY <1>1, <2>4, NoAnswer DEF CancelAndClose
  <2> QED
    BY <1>1, <2>1, <2>2, <2>3, <2>4, ReadingAnswers, ClientAnswers DEF Next, CloseStep
<1> QED
  BY <1>1, Inductive, PTL DEF Spec, NoErrorAfterHead
=============================================================================
