----------------------------- MODULE LeaseBroker -----------------------------
(***************************************************************************)
(* What an upstream pool promises the proxy transactions that use it: at   *)
(* most Capacity connections are out on lease, a connection is leased to   *)
(* one request at a time, every request is answered at most once with a    *)
(* lease or a refusal, and a closed broker grants nothing.  Which idle     *)
(* connection is taken, queueing, timers and cleanup are not part of it.   *)
(***************************************************************************)
EXTENDS Naturals, FiniteSets

CONSTANTS Requests, Connections, Capacity

VARIABLES status,  \* of each request
          leased,  \* connections out on lease or on their way back
          closed

brokerVars == <<status, leased, closed>>

Init == /\ status = [r \in Requests |-> "idle"]
        /\ leased = {}
        /\ closed = FALSE

Ask(r) == /\ status[r] = "idle"
          /\ status' = [status EXCEPT ![r] = "pending"]
          /\ UNCHANGED <<leased, closed>>

Refuse(r) == /\ status[r] = "pending"
             /\ status' = [status EXCEPT ![r] = "refused"]
             /\ UNCHANGED <<leased, closed>>

\* A lease on c is granted when at most the connections in `others' are out.
Grant(r, c, others) ==
    /\ ~closed
    /\ status[r] = "pending"
    /\ c \notin others
    /\ Cardinality(others) < Capacity
    /\ status' = [status EXCEPT ![r] = "granted"]
    /\ leased' = others \cup {c}
    /\ UNCHANGED closed

Return(c) == /\ c \in leased
             /\ leased' = leased \ {c}
             /\ UNCHANGED <<status, closed>>

\* A returned connection makes room for a waiting request in the same step.
HandOver(c, r, d) == c \in leased /\ Grant(r, d, leased \ {c})

Close(refused) ==
    /\ ~closed
    /\ closed' = TRUE
    /\ \A r \in refused : status[r] = "pending"
    /\ status' = [r \in Requests |-> IF r \in refused THEN "refused" ELSE status[r]]
    /\ UNCHANGED leased

Next == \/ \E r \in Requests : Ask(r) \/ Refuse(r)
        \/ \E r \in Requests, c \in Connections : Grant(r, c, leased)
        \/ \E c \in Connections : Return(c)
        \/ \E c, d \in Connections, r \in Requests : HandOver(c, r, d)
        \/ \E refused \in SUBSET Requests : Close(refused)

Spec == Init /\ [][Next]_brokerVars
=============================================================================
