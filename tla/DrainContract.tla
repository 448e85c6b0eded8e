---------------------------- MODULE DrainContract ---------------------------
(***************************************************************************)
(* What HttpServer promises its owner (HttpServer::beginDrain and its      *)
(* completion callback), without the listener, the strands, the polls and  *)
(* the timer: sessions come and go, a drain lets none in, and it ends,     *)
(* once, when the last one has left.                                       *)
(***************************************************************************)
CONSTANT Sessions

VARIABLES live,      \* the sessions of the registry
          phase      \* "serving", "draining", "done"

contractVars == <<live, phase>>

ContractInit == live = {} /\ phase = "serving"

Admit(s) ==
    /\ phase = "serving"
    /\ s \in Sessions \ live
    /\ live' = live \cup {s}
    /\ UNCHANGED phase
Leave(s) ==
    /\ s \in live
    /\ live' = live \ {s}
    /\ UNCHANGED phase
BeginToDrain ==
    /\ phase = "serving"
    /\ phase' = "draining"
    /\ UNCHANGED live
Complete ==
    /\ phase = "draining" /\ live = {}
    /\ phase' = "done"
    /\ UNCHANGED live

ContractNext ==
    \/ \E s \in Sessions : Admit(s) \/ Leave(s)
    \/ BeginToDrain \/ Complete

\* A drain empties the registry and then completes; nothing is promised of a
\* session while the server serves.
ContractSpec ==
    /\ ContractInit /\ [][ContractNext]_contractVars
    /\ \A s \in Sessions : WF_contractVars(phase = "draining" /\ Leave(s))
    /\ WF_contractVars(Complete)
=============================================================================
