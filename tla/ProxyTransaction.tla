-------------------------- MODULE ProxyTransaction --------------------------
(***************************************************************************)
(* ProxySession (src/http/reverse_proxy.cpp): one upstream transaction on  *)
(* a leased connection, with its phase and total deadlines, cancellation   *)
(* by the downstream session, and the return of the lease.                 *)
(*                                                                         *)
(* Two strands work on a transaction.  Upstream operations complete on the *)
(* connection's strand and the coroutine goes on there; deadlines and      *)
(* cancel() run on the downstream session's strand and reach the socket by *)
(* dispatching cancelAndClose to the connection's strand.  An operation    *)
(* that has completed is not recalled by a close that runs before its      *)
(* handler.  A deadline's expiry is the check of the generation ticket; a  *)
(* disarm after the check comes too late.  Writing to the client brings    *)
(* the coroutine back to the session's strand.  The pool is kept as a set  *)
(* of idle connections (see UpstreamPool).                                 *)
(***************************************************************************)
EXTENDS Naturals, FiniteSets

CONSTANTS Transactions, Connections

NoOne == "no one"
ASSUME TransactionNames == NoOne \notin Transactions

VARIABLES
    pc, op,             \* the coroutine, and the operation it waits for
    conn, streaming,    \* its leased connection; forward() or execute()
    parsed,             \* what parse() returned for the bytes being written
    response_started, result,
    stop_reason,
    phase, total,       \* the reason an armed deadline gives, or "off"
    expiring,           \* what the handler on the session's strand passes to cancelInExecutor
    current_proxy,      \* may the downstream session reach the transaction?
    downstream_open,
    socket,             \* per connection: open or not
    owner, idle, fresh, \* the lease on each connection, and the pool
    closing,            \* cancelAndClose dispatched: by a transaction, on a connection
    wire                \* transactions whose response bytes the socket may still carry

coroutine == <<pc, op, parsed, response_started, result>>
timers    == <<phase, total>>
pool      == <<owner, idle, fresh>>
vars == <<coroutine, conn, streaming, stop_reason, timers, expiring, current_proxy,
          downstream_open, socket, pool, closing, wire>>

Upstream == {"Resolving", "Connecting", "SendingRequest", "ReadingResponse"}

Init ==
    /\ pc = [t \in Transactions |-> "Created"]
    /\ op = [t \in Transactions |-> "none"]
    /\ conn = [t \in Transactions |-> NoOne]
    /\ streaming = [t \in Transactions |-> FALSE]
    /\ parsed = [t \in Transactions |-> "NeedMore"]
    /\ response_started = [t \in Transactions |-> FALSE]
    /\ result = [t \in Transactions |-> "pending"]
    /\ stop_reason = [t \in Transactions |-> "None"]
    /\ phase = [t \in Transactions |-> "off"]
    /\ total = [t \in Transactions |-> "off"]
    /\ expiring = [t \in Transactions |-> "off"]
    /\ current_proxy = [t \in Transactions |-> FALSE]
    /\ downstream_open = [t \in Transactions |-> TRUE]
    /\ socket = [c \in Connections |-> FALSE]
    /\ owner = [c \in Connections |-> NoOne]
    /\ idle = {} /\ fresh = Connections
    /\ closing = {}
    /\ wire = [c \in Connections |-> {}]

-----------------------------------------------------------------------------
(* The coroutine *)

PhaseReason(p) == CASE p = "Resolving" -> "DnsTimeout"
                    [] p = "Connecting" -> "ConnectTimeout"
                    [] OTHER -> "ResponseTimeout"

\* Enter phase p: arm its deadline and start its operation.  async_connect opens
\* the socket; a write to or a read from a closed socket fails at once.
EnterPhase(t, p, opened) ==
    /\ pc' = [pc EXCEPT ![t] = p]
    /\ phase' = [phase EXCEPT ![t] = PhaseReason(p)]
    /\ op' = [op EXCEPT ![t] = IF p \in {"SendingRequest", "ReadingResponse"} /\ ~opened
                               THEN "error" ELSE "pending"]

\* The error a reason is answered with; without one it depends on the phase.
errorForStopReason(reason, p) ==
    CASE reason \in {"DnsTimeout", "ConnectTimeout"} -> "ConnectTimeout"
      [] reason \in {"ResponseTimeout", "TotalTimeout"} -> "ResponseTimeout"
      [] reason = "DownstreamClosed" -> "Cancelled"
      [] OTHER -> IF p = "Resolving" THEN "DnsFailure" ELSE "ConnectFailure"

\* Faulty variant: the result's own flag is not looked at.
Released_Complete(res, keep) == res \in {"None", "StreamedClose"}
\* operator() releases the lease, or it discards it.
Released(res, keep) == res = "None" /\ keep

\* The transaction is over: disarmTimers, the session forgets it, and operator()
\* returns the lease.  A discarded connection is closed and never leased again;
\* `open' is whether the socket still is when a released one reaches the pool.
\* The locals end here, and so does the ProxySession with its `reason' unless a
\* deadline or the downstream session still holds it.
End(t, res, keep, open, reason) ==
    /\ pc' = [pc EXCEPT ![t] = "Returned"]
    /\ streaming' = [streaming EXCEPT ![t] = FALSE]
    /\ parsed' = [parsed EXCEPT ![t] = "NeedMore"]
    /\ response_started' = [response_started EXCEPT ![t] = FALSE]
    /\ op' = [op EXCEPT ![t] = "none"]
    /\ result' = [result EXCEPT ![t] = res]
    /\ stop_reason' = [stop_reason EXCEPT ![t] = IF expiring[t] = "off" THEN "None" ELSE reason]
    /\ phase' = [phase EXCEPT ![t] = "off"]
    /\ total' = [total EXCEPT ![t] = "off"]
    /\ current_proxy' = [current_proxy EXCEPT ![t] = FALSE]
    /\ owner' = [owner EXCEPT ![conn[t]] = NoOne]
    /\ idle' = IF Released(res, keep) THEN idle \cup {conn[t]} ELSE idle
    /\ socket' = [socket EXCEPT ![conn[t]] = open /\ Released(res, keep)]
    /\ UNCHANGED fresh
Continue == UNCHANGED <<streaming, result, stop_reason, total, current_proxy, socket, pool>>
ReadOn(t) == /\ EnterPhase(t, "ReadingResponse", socket[conn[t]])
             /\ parsed' = [parsed EXCEPT ![t] = "NeedMore"]
             /\ Continue

\* Faulty variant: the error is answered although the head is out.
Failed_AlwaysError(t, res, reason) == End(t, res, FALSE, FALSE, reason)
\* What a failure answers: nothing may follow a response that has begun.
Failed(t, res, reason) ==
    End(t, IF response_started[t] THEN "StreamedClose" ELSE res, FALSE, FALSE, reason)

\* operator() obtains a lease on c from the pool and makes t its current proxy.
Lease(t, c) ==
    /\ pc[t] = "Created"
    /\ c \in IF idle # {} THEN idle ELSE fresh
    /\ idle' = idle \ {c} /\ fresh' = fresh \ {c}
    /\ owner' = [owner EXCEPT ![c] = t]
    /\ conn' = [conn EXCEPT ![t] = c]
    /\ current_proxy' = [current_proxy EXCEPT ![t] = TRUE]

\* It starts execute() or forward().
Start(t, c, forward) ==
    /\ Lease(t, c)
    /\ streaming' = [streaming EXCEPT ![t] = forward]
    /\ total' = [total EXCEPT ![t] = "TotalTimeout"]
    /\ EnterPhase(t, IF socket[c] THEN "SendingRequest" ELSE "Resolving", socket[c])
    /\ UNCHANGED <<parsed, response_started, result, stop_reason, expiring,
                   downstream_open, socket, closing, wire>>
\* A request to upgrade the protocol ends before anything is sent; the lease is
\* discarded.
StartUnsupported(t, c) ==
    /\ pc[t] = "Created"
    /\ c \in IF idle # {} THEN idle ELSE fresh
    /\ idle' = idle \ {c} /\ fresh' = fresh \ {c}
    /\ socket' = [socket EXCEPT ![c] = FALSE]
    /\ wire' = [wire EXCEPT ![c] = {}]
    /\ pc' = [pc EXCEPT ![t] = "Returned"]
    /\ result' = [result EXCEPT ![t] = "UnsupportedRequest"]
    /\ UNCHANGED <<op, parsed, response_started, conn, streaming, stop_reason, timers, expiring,
                   current_proxy, downstream_open, owner, closing>>

\* The pending operation completes; its handler is queued on the strand.
Completes(t, outcome) ==
    /\ op[t] = "pending" /\ pc[t] \in Upstream
    /\ op' = [op EXCEPT ![t] = outcome]
    /\ UNCHANGED <<pc, parsed, response_started, result, conn, streaming, stop_reason,
                   timers, expiring, current_proxy, downstream_open, socket, pool, closing, wire>>

Frame == UNCHANGED <<conn, expiring, downstream_open, closing>>

\* resolve(), connect() and sendRequest() return true.
Resolved(t) ==
    /\ pc[t] = "Resolving" /\ op[t] = "ok"
    /\ EnterPhase(t, "Connecting", TRUE)
    /\ socket' = [socket EXCEPT ![conn[t]] = TRUE]
    /\ UNCHANGED <<parsed, response_started, result, streaming, stop_reason, total, current_proxy,
                   pool, wire>>
    /\ Frame
Connected(t) ==
    /\ pc[t] = "Connecting" /\ op[t] = "ok"
    /\ EnterPhase(t, "SendingRequest", socket[conn[t]])
    /\ UNCHANGED <<parsed, response_started, wire>> /\ Continue /\ Frame
RequestSent(t) ==
    /\ pc[t] = "SendingRequest" /\ op[t] = "ok"
    /\ EnterPhase(t, "ReadingResponse", socket[conn[t]])
    /\ wire' = [wire EXCEPT ![conn[t]] = @ \cup {t}]
    /\ UNCHANGED <<parsed, response_started>> /\ Continue /\ Frame
\* One of them returns false.
PhaseFails(t) ==
    /\ pc[t] \in {"Resolving", "Connecting", "SendingRequest"} /\ op[t] = "error"
    /\ LET reason == IF stop_reason[t] = "None" THEN "InternalError" ELSE stop_reason[t]
       IN Failed(t, errorForStopReason(reason, pc[t]), reason)
    /\ UNCHANGED wire /\ Frame

\* A response parsed to its end leaves no byte of it on the wire; parser_.reusable()
\* and an empty input_ (`clean') are what makes the result reusable.
Drained(t, clean) == wire' = IF clean THEN [wire EXCEPT ![conn[t]] = @ \ {t}] ELSE wire

\* Bytes arrive and parse() runs: execute() buffers the response ...
ResponseRead(t, parse, clean) ==
    /\ pc[t] = "ReadingResponse" /\ op[t] = "ok" /\ ~streaming[t]
    /\ clean => parse = "Complete"
    /\ CASE parse = "NeedMore" -> ReadOn(t) /\ UNCHANGED response_started
         [] parse = "Complete" -> End(t, "None", clean, socket[conn[t]], stop_reason[t])
         [] parse = "Error" -> Failed(t, "UpstreamProtocol", stop_reason[t])
    /\ Drained(t, clean)
    /\ Frame
\* ... forward() reads on until the head is complete ...
HeadIncomplete(t, parse) ==
    /\ pc[t] = "ReadingResponse" /\ op[t] = "ok" /\ streaming[t] /\ ~response_started[t]
    /\ IF parse = "NeedMore" THEN ReadOn(t) /\ UNCHANGED response_started
       ELSE Failed(t, "UpstreamProtocol", stop_reason[t])
    /\ UNCHANGED wire /\ Frame
\* ... and then writes what has come to the client; phase_deadline_ is off.
WriteDownstream(t, parse) ==
    /\ pc' = [pc EXCEPT ![t] = "WritingDownstream"]
    /\ op' = [op EXCEPT ![t] = "none"]
    /\ parsed' = [parsed EXCEPT ![t] = parse]
    /\ phase' = [phase EXCEPT ![t] = "off"]
    /\ UNCHANGED response_started /\ Continue
ResponseForwarded(t, parse) ==
    /\ pc[t] = "ReadingResponse" /\ op[t] = "ok" /\ streaming[t]
    /\ WriteDownstream(t, parse)
    /\ UNCHANGED wire /\ Frame

\* The read fails or the upstream closes.  The end of the stream may complete a
\* response without a length; a streamed one is then finished downstream.
ReadFails(t, parse) ==
    /\ pc[t] = "ReadingResponse" /\ op[t] = "error"
    /\ CASE stop_reason[t] # "None" -> Failed(t, errorForStopReason(stop_reason[t], pc[t]), stop_reason[t])
         [] stop_reason[t] = "None" /\ parse = "Error" -> Failed(t, "UpstreamProtocol", stop_reason[t])
         [] stop_reason[t] = "None" /\ parse = "Complete" ->
                IF streaming[t] THEN WriteDownstream(t, "CompleteAtEof")
                ELSE End(t, "None", FALSE, FALSE, "None")
    /\ UNCHANGED wire /\ Frame

\* Closes that t dispatched stand before the return of its lease in the queue of
\* the pool's strand, unless t itself runs there.
ClosesFirst(t) == {m \in closing : m.by = t}

\* write_downstream returns true, on the session's strand: go on reading, or the
\* response is complete.
DownstreamWritten(t, clean) ==
    /\ pc[t] = "WritingDownstream" /\ downstream_open[t] /\ expiring[t] = "off"
    /\ clean => parsed[t] = "Complete"
    /\ IF parsed[t] = "NeedMore"
       THEN /\ ReadOn(t)
            /\ response_started' = [response_started EXCEPT ![t] = TRUE]
            /\ UNCHANGED closing
       ELSE /\ End(t, IF parsed[t] = "Error" THEN "StreamedClose" ELSE "None", clean,
                   socket[conn[t]] /\ ClosesFirst(t) = {}, stop_reason[t])
            /\ closing' = closing \ ClosesFirst(t)
    /\ Drained(t, clean)
    /\ UNCHANGED <<conn, expiring, downstream_open>>
\* write_downstream returns false: cancelInExecutor(DownstreamClosed).  If it was
\* the write of the last chunk, the result is that of a complete response.
DownstreamWriteFails(t, last, clean) ==
    /\ pc[t] = "WritingDownstream" /\ expiring[t] = "off"
    /\ last => parsed[t] \in {"Complete", "CompleteAtEof"}
    /\ clean => last /\ parsed[t] = "Complete"
    /\ End(t, IF last THEN "None" ELSE "StreamedClose", clean, FALSE,
           IF stop_reason[t] = "None" THEN "DownstreamClosed" ELSE stop_reason[t])
    /\ closing' = closing \ ClosesFirst(t)
    /\ Drained(t, clean)
    /\ UNCHANGED <<conn, expiring, downstream_open>>

-----------------------------------------------------------------------------
(* The downstream session's strand *)

\* A deadline expires and its ticket is current.
Expire(t, d) ==
    /\ d[t] # "off" /\ expiring[t] = "off"
    /\ expiring' = [expiring EXCEPT ![t] = d[t]]
    /\ UNCHANGED <<coroutine, conn, streaming, stop_reason, current_proxy, downstream_open,
                   socket, pool, closing, wire>>
PhaseExpires(t) == Expire(t, phase) /\ phase' = [phase EXCEPT ![t] = "off"] /\ UNCHANGED total
TotalExpires(t) == Expire(t, total) /\ total' = [total EXCEPT ![t] = "off"] /\ UNCHANGED phase

\* The downstream session closes and reaches its current proxy transaction.
SessionCloses(t) ==
    /\ downstream_open[t] /\ pc[t] # "Returned" /\ expiring[t] = "off"
    /\ downstream_open' = [downstream_open EXCEPT ![t] = FALSE]
    /\ expiring' = IF current_proxy[t] THEN [expiring EXCEPT ![t] = "DownstreamClosed"]
                   ELSE expiring
    /\ UNCHANGED <<coroutine, conn, streaming, stop_reason, timers, current_proxy, socket, pool,
                   closing, wire>>

\* The first reason is kept and closes the connection; later ones do nothing.
CancelInExecutor(t) ==
    /\ expiring[t] # "off"
    /\ expiring' = [expiring EXCEPT ![t] = "off"]
    /\ stop_reason' = [stop_reason EXCEPT ![t] = IF pc[t] = "Returned" THEN "None"
                                                 ELSE IF @ = "None" THEN expiring[t] ELSE @]
    /\ closing' = IF stop_reason[t] = "None" THEN closing \cup {[by |-> t, on |-> conn[t]]} ELSE closing
    /\ UNCHANGED <<coroutine, conn, streaming, timers, current_proxy, downstream_open, socket,
                   pool, wire>>

\* cancelAndCloseInStrand: the socket closes and what is pending on it fails.
CancelAndClose(m) ==
    /\ m \in closing
    /\ closing' = closing \ {m}
    /\ socket' = [socket EXCEPT ![m.on] = FALSE]
    /\ wire' = [wire EXCEPT ![m.on] = {}]
    /\ op' = [t \in Transactions |->
                IF owner[m.on] = t /\ pc[t] \in Upstream /\ op[t] = "pending"
                THEN "error" ELSE op[t]]
    /\ UNCHANGED <<pc, parsed, response_started, result, conn, streaming, stop_reason,
                   timers, expiring, current_proxy, downstream_open, pool>>

-----------------------------------------------------------------------------
Reasons == {"DnsTimeout", "ConnectTimeout", "ResponseTimeout", "TotalTimeout", "DownstreamClosed"}

CoroutineStep(t) ==
    \/ Resolved(t) \/ Connected(t) \/ RequestSent(t) \/ PhaseFails(t)
    \/ \E parse \in {"NeedMore", "Complete", "Error"}, clean \in BOOLEAN :
          ResponseRead(t, parse, clean)
    \/ \E parse \in {"NeedMore", "Error"} : HeadIncomplete(t, parse)
    \/ \E parse \in {"NeedMore", "Complete", "Error"} : ResponseForwarded(t, parse)
    \/ \E parse \in {"Complete", "Error"} : ReadFails(t, parse)
ClientStep(t) ==
    \/ \E clean \in BOOLEAN : DownstreamWritten(t, clean)
    \/ \E last, clean \in BOOLEAN : DownstreamWriteFails(t, last, clean)
TimerStep(t) == PhaseExpires(t) \/ TotalExpires(t)
CloseStep == \E m \in closing : CancelAndClose(m)

Next ==
    \/ \E t \in Transactions :
          \/ \E c \in Connections : StartUnsupported(t, c) \/ \E f \in BOOLEAN : Start(t, c, f)
          \/ \E outcome \in {"ok", "error"} : Completes(t, outcome)
          \/ SessionCloses(t) \/ CoroutineStep(t) \/ ClientStep(t) \/ TimerStep(t) \/ CancelInExecutor(t)
    \/ CloseStep

Spec == Init /\ [][Next]_vars

\* The strands run their handlers and armed timers expire; the upstream and the
\* client may stay silent for ever.
FairSpec ==
    /\ Spec
    /\ \A t \in Transactions : /\ WF_vars(CoroutineStep(t)) /\ WF_vars(CancelInExecutor(t))
                               /\ WF_vars(TimerStep(t))
    /\ WF_vars(CloseStep)

-----------------------------------------------------------------------------
(* Properties *)

\* The type of every variable (the first conjunct of NoForeignBytes).
TypeOK ==
    /\ pc \in [Transactions -> Upstream \cup {"Created", "WritingDownstream", "Returned"}]
    /\ op \in [Transactions -> {"none", "pending", "ok", "error"}]
    /\ conn \in [Transactions -> Connections \cup {NoOne}]
    /\ streaming \in [Transactions -> BOOLEAN]
    /\ parsed \in [Transactions -> {"NeedMore", "Complete", "CompleteAtEof", "Error"}]
    /\ response_started \in [Transactions -> BOOLEAN]
    /\ result \in [Transactions -> {"pending", "None", "StreamedClose", "UnsupportedRequest",
                                    "ConnectTimeout", "ResponseTimeout", "Cancelled",
                                    "DnsFailure", "ConnectFailure", "UpstreamProtocol"}]
    /\ stop_reason \in [Transactions -> Reasons \cup {"None", "InternalError"}]
    /\ phase \in [Transactions -> Reasons \cup {"off"}]
    /\ total \in [Transactions -> Reasons \cup {"off"}]
    /\ expiring \in [Transactions -> Reasons \cup {"off"}]
    /\ current_proxy \in [Transactions -> BOOLEAN]
    /\ downstream_open \in [Transactions -> BOOLEAN]
    /\ socket \in [Connections -> BOOLEAN]
    /\ owner \in [Connections -> Transactions \cup {NoOne}]
    /\ idle \subseteq Connections /\ fresh \subseteq Connections
    /\ closing \subseteq [by : Transactions, on : Connections]
    /\ wire \in [Connections -> SUBSET Transactions]

\* "An HTTP error body must never follow partial bytes": once the head is out,
\* the transaction ends with a response already written, whatever fails.
HeadIsLast == \A t \in Transactions :
    response_started[t] => result'[t] \in {"pending", "None", "StreamedClose"}
NoErrorAfterHead == [][HeadIsLast]_vars

\* A transaction that sends or reads on a connection meets no bytes of another
\* transaction's response there.
NoForeignBytes ==
    /\ TypeOK
    /\ \A t \in Transactions :
          pc[t] \in {"SendingRequest", "ReadingResponse"} /\ socket[conn[t]] => wire[conn[t]] \subseteq {t}

\* Each phase has its deadline: every upstream operation ends, however silent
\* the upstream is.
OperationEnds == \A t \in Transactions : op[t] = "pending" ~> op[t] # "pending"

\* Exclusive lease: no transaction closes a connection that another one has.
NoForeignClose == \A m \in closing : owner[m.on] \in {m.by, NoOne}
=============================================================================
