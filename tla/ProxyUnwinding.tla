--------------------------- MODULE ProxyUnwinding ---------------------------
(***************************************************************************)
(* ReverseProxy with the exit by exception.  Buffer::prepare throws        *)
(* length_error when an upstream's chunk does not fit into the input       *)
(* buffer of the ProxySession; nothing in operator() catches it.           *)
(***************************************************************************)
EXTENDS ReverseProxy

\* The coroutine unwinds: the in-flight guard runs, the lease is abandoned, and
\* neither the health store nor the breaker hears of the request.
TransactThrows(r) ==
    /\ Goto(r, "transact", "leave")
    /\ result' = [result EXCEPT ![r] = "threw"]
    /\ UNCHANGED <<in_flight, next, health, circuit, observed, attempt, index, circuit_rejected>>

UnwindingNext == Next \/ \E r \in Requests : TransactThrows(r)

UnwindingSpec == Init /\ [][UnwindingNext]_vars
=============================================================================
