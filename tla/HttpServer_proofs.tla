------------------------- MODULE HttpServer_proofs -------------------------
(***************************************************************************)
(* Proofs about HttpServer.  Lifecycle says where a session can be,        *)
(* Accounting that the registry, closed_counts_ and the gauge agree with   *)
(* it, RunOnce and DrainedEarly what its strand has been given, Draining   *)
(* how far beginDrain, the polls and the grace timer have come.            *)
(***************************************************************************)
EXTENDS HttpServer, FiniteSetTheorems, TLAPS

\* Not yet seen by tryAdd; refused by tryAdd.
Fresh(s) == pc[s] = "unborn" \/ (pc[s] = "connected" /\ accept_pc = "accept" /\ accepted = s)
Refused(s) == state[s] = "Created" /\ pc[s] = "finished"
Registered(s) == ~Fresh(s) /\ ~Refused(s)

Lifecycle ==
    /\ accept_pc \in {"account", "start", "loop"} => accepted \in Sessions
    /\ accept_pc \in {"retry", "ended"} => accepted = NoSession
    /\ accept_pc \in {"account", "start"} => pc[accepted] = "connected"
    /\ accept_pc = "accept" /\ accepted \in Sessions => pc[accepted] = "connected"
    /\ \A s \in Sessions :
          /\ reading[s] = (pc[s] = "reading")
          /\ pc[s] \in {"reading", "responding", "writing_error"} => state[s] # "Created"
          /\ ~Registered(s) => s \notin sessions /\ state[s] = "Created" /\ inbox[s] = <<>>
          /\ Registered(s) => (s \in sessions <=> state[s] # "Closed")

\* The sessions counted in closed_counts_.
Ended == {s \in Sessions : state[s] = "Closed" \/ Refused(s)}

Accounting ==
    /\ IsFiniteSet(sessions) /\ Cardinality(sessions) <= maximum_sessions
    /\ IsFiniteSet(Ended) /\ closed_count = Cardinality(Ended)
    /\ active_connections = Cardinality(sessions) - (IF accept_pc = "account" THEN 1 ELSE 0)

\* run() is given to a strand once, after the factory has counted the session.
RunOnce ==
    \A s \in Sessions :
        /\ \A i \in 1 .. Len(inbox[s]) : inbox[s][i] = "run" =>
              pc[s] = "connected" /\ ~(accepted = s /\ accept_pc \in {"account", "start"})
        /\ \A i, j \in 1 .. Len(inbox[s]) : inbox[s][i] = "run" /\ inbox[s][j] = "run" => i = j

DrainedEarly ==
    \A s \in Sessions :
        state[s] = "Draining" /\ pc[s] \in {"connected", "reading"} => s \in early

Looked(k) == chain[k] \in {"empty", "finish"}
Draining ==
    /\ draining <=> drain_pc # "idle"
    /\ drain_pc \in {"notify", "done"} => registry_draining
    /\ drain_pc # "done" => /\ drain_timer = "off" /\ ~drain_finished
                            /\ \A k \in Chains : chain[k] = "off"
    /\ stop_pc \in {"flag", "notify", "force"} => ~draining \/ drain_finished
    /\ drain_timer # "off" => chain["deadline"] = "off"
    /\ drain_finished \/ (\E k \in Chains : Looked(k)) => sessions = {}

\* The answer of the drain: while the flag of the grace timer is down nothing has
\* been told to close, and once a check has seen the registry empty nothing will be.
Answer ==
    /\ ~drain_deadline_expired =>
          /\ forced = {} /\ drain_timer # "expired"
          /\ \A s \in Sessions : \A i \in 1 .. Len(inbox[s]) : inbox[s][i] # "deadline"
    /\ \A k \in Chains : drained[k] => chain[k] = "finish" /\ forced = {}
    /\ ~drain_finished => on_complete = <<>>
    /\ drain_finished => Len(on_complete) = 1 /\ (on_complete[1] => forced = {})

IInv == TypeOK /\ Lifecycle /\ Accounting /\ RunOnce /\ DrainedEarly /\ Draining /\ Answer

-----------------------------------------------------------------------------
(* Facts about sets and about the calls waiting for a strand *)

\* Cardinalities when one element joins or leaves a finite set.
LEMMA OneMoves ==
  ASSUME NEW S, IsFiniteSet(S), NEW x
  PROVE  /\ Cardinality(S) \in Nat
         /\ IsFiniteSet(S \cup {x}) /\ IsFiniteSet(S \ {x})
         /\ x \notin S => Cardinality(S \cup {x}) = Cardinality(S) + 1
         /\ x \in S => Cardinality(S \ {x}) = Cardinality(S) - 1
<1>1. Cardinality(S) \in Nat
  BY FS_CardinalityType
<1>2. IsFiniteSet(S \cup {x}) /\ (x \notin S => Cardinality(S \cup {x}) = Cardinality(S) + 1)
  BY <1>1, FS_AddElement
<1>3. IsFiniteSet(S \ {x}) /\ (x \in S => Cardinality(S \ {x}) = Cardinality(S) - 1)
  BY <1>1, FS_RemoveElement
<1> QED
  BY <1>1, <1>2, <1>3

Calls == {"run", "drain", "stop", "deadline"}

LEMMA TailCalls ==
  ASSUME NEW q \in Seq(Calls), q # <<>>
  PROVE  /\ Tail(q) \in Seq(Calls) /\ Len(q) \in Nat /\ Len(q) >= 1
         /\ Len(Tail(q)) = Len(q) - 1 /\ Head(q) = q[1]
         /\ \A i \in 1 .. Len(Tail(q)) : Tail(q)[i] = q[i + 1] /\ i + 1 \in 1 .. Len(q)
  OBVIOUS

LEMMA AppendCalls ==
  ASSUME NEW q \in Seq(Calls), NEW c \in Calls
  PROVE  /\ Append(q, c) \in Seq(Calls) /\ Len(q) \in Nat
         /\ Len(Append(q, c)) = Len(q) + 1 /\ Append(q, c)[Len(q) + 1] = c
         /\ \A i \in 1 .. Len(q) : Append(q, c)[i] = q[i]
  OBVIOUS

-----------------------------------------------------------------------------
(* One handler on a session's strand *)

SessionStates == {"Created", "Running", "Draining", "Closed"}
SessionPcs == {"unborn", "connected", "reading", "responding", "writing_error", "finished"}

\* What a handler on the strand of s may do: move its coroutine to p, its state to
\* st, and take the first call; the session leaves the registry when it closes.
StrandStep(s, p, st, ib) ==
    /\ Registered(s)
    /\ pc' = [pc EXCEPT ![s] = p] /\ p \in SessionPcs \ {"unborn"}
    /\ reading' = [reading EXCEPT ![s] = (p = "reading")]
    /\ state' = [state EXCEPT ![s] = st] /\ st \in SessionStates
    /\ inbox' = [inbox EXCEPT ![s] = ib]
    /\ \/ ib = inbox[s] /\ (pc[s] = "connected" => p = "connected")
       \/ inbox[s] # <<>> /\ ib = Tail(inbox[s])
          /\ (pc[s] = "connected" /\ Head(inbox[s]) # "run" => p = "connected")
    /\ p = "connected" => pc[s] = "connected"
    /\ st = "Created" => state[s] = "Created" /\ p = "connected"
    /\ state[s] = "Closed" => st = "Closed"
    /\ IF st = "Closed" /\ state[s] # "Closed"
       THEN sessions' = sessions \ {s} /\ closed_count' = closed_count + 1
            /\ active_connections' = active_connections - 1
       ELSE UNCHANGED <<sessions, closed_count, active_connections>>
    /\ early \subseteq early' /\ early' \subseteq Sessions
    /\ st = "Draining" /\ p \in {"connected", "reading"} => s \in early'
    /\ \/ forced' = forced
       \/ forced' = forced \cup {s} /\ s \in sessions /\ inbox[s] # <<>> /\ Head(inbox[s]) = "deadline"
    /\ UNCHANGED <<listenerVars, registry_draining, serverVars>>

LEMMA StrandValues ==
  ASSUME TypeOK, NEW s \in Sessions, NEW p, NEW st, NEW ib, StrandStep(s, p, st, ib)
  PROVE  /\ pc'[s] = p /\ state'[s] = st /\ inbox'[s] = ib /\ reading'[s] = (p = "reading")
         /\ ib \in Seq(Calls)
         /\ \A t \in Sessions \ {s} : /\ pc'[t] = pc[t] /\ state'[t] = state[t]
                                      /\ inbox'[t] = inbox[t] /\ reading'[t] = reading[t]
         /\ \A t \in Sessions \ {s} : (Fresh(t)' <=> Fresh(t)) /\ (Refused(t)' <=> Refused(t))
         /\ Registered(s)'
<1>1. /\ pc'[s] = p /\ state'[s] = st /\ inbox'[s] = ib /\ reading'[s] = (p = "reading")
      /\ \A t \in Sessions \ {s} : /\ pc'[t] = pc[t] /\ state'[t] = state[t]
                                   /\ inbox'[t] = inbox[t] /\ reading'[t] = reading[t]
  BY DEF StrandStep, TypeOK
<1>2. ib \in Seq(Calls)
  <2>1. inbox[s] \in Seq(Calls)
    BY DEF TypeOK, Calls
  <2> QED
    BY <2>1, TailCalls DEF StrandStep
<1>3. accept_pc' = accept_pc /\ accepted' = accepted
  BY DEF StrandStep, listenerVars
<1>4. \A t \in Sessions \ {s} : (Fresh(t)' <=> Fresh(t)) /\ (Refused(t)' <=> Refused(t))
  BY <1>1, <1>3 DEF Fresh, Refused
<1>5. Registered(s)'
  BY <1>1, <1>3 DEF StrandStep, Registered, Fresh, Refused
<1> QED
  BY <1>1, <1>2, <1>4, <1>5

LEMMA StrandTyped ==
  ASSUME TypeOK, NEW s \in Sessions, NEW p, NEW st, NEW ib, StrandStep(s, p, st, ib)
  PROVE  TypeOK'
<1>1. ib \in Seq(Calls)
  BY StrandValues
<1>2. /\ pc' \in [Sessions -> SessionPcs] /\ state' \in [Sessions -> SessionStates]
      /\ reading' \in [Sessions -> BOOLEAN] /\ inbox' \in [Sessions -> Seq(Calls)]
  BY <1>1 DEF StrandStep, TypeOK, Calls, SessionPcs, SessionStates
<1>3. /\ sessions' \subseteq Sessions /\ closed_count' \in Nat /\ active_connections' \in Int
      /\ forced' \subseteq Sessions /\ early' \subseteq Sessions
  BY DEF StrandStep, TypeOK
<1> QED
  BY <1>2, <1>3 DEF StrandStep, TypeOK, Calls, SessionPcs, SessionStates, listenerVars,
                    serverVars, checkVars

LEMMA StrandLifecycle ==
  ASSUME TypeOK, Lifecycle, RunOnce, NEW s \in Sessions, NEW p, NEW st, NEW ib,
         StrandStep(s, p, st, ib)
  PROVE  Lifecycle'
<1>1. accept_pc' = accept_pc /\ accepted' = accepted
  BY DEF StrandStep, listenerVars
<1>2. ASSUME NEW t \in Sessions
      PROVE  /\ reading'[t] = (pc'[t] = "reading")
             /\ pc'[t] \in {"reading", "responding", "writing_error"} => state'[t] # "Created"
             /\ ~Registered(t)' => t \notin sessions' /\ state'[t] = "Created" /\ inbox'[t] = <<>>
             /\ Registered(t)' => (t \in sessions' <=> state'[t] # "Closed")
  <2>1. CASE t = s
    <3>1. s \in sessions <=> state[s] # "Closed"
      BY DEF Lifecycle, StrandStep
    <3>2. s \in sessions' <=> st # "Closed"
      BY <3>1 DEF StrandStep
    <3>3. pc'[s] = p /\ state'[s] = st /\ reading'[s] = (p = "reading") /\ Registered(s)'
      BY StrandValues
    <3>4. reading'[s] = (pc'[s] = "reading")
      BY <3>3
    <3>5. p \in {"reading", "responding", "writing_error"} => st # "Created"
      BY DEF StrandStep
    <3> QED
      BY <2>1, <3>2, <3>3, <3>4, <3>5
  <2>2. CASE t # s
    <3>1. t \in sessions' <=> t \in sessions
      BY <2>2 DEF StrandStep
    <3>2. /\ pc'[t] = pc[t] /\ state'[t] = state[t] /\ inbox'[t] = inbox[t] /\ reading'[t] = reading[t]
          /\ Registered(t)' <=> Registered(t)
      BY <2>2, StrandValues DEF Registered
    <3>3. reading'[t] = (pc'[t] = "reading")
      BY <3>2 DEF Lifecycle
    <3> QED
      BY <3>1, <3>2, <3>3 DEF Lifecycle
  <2> QED
    BY <2>1, <2>2
<1>3. ASSUME accepted \in Sessions, accept_pc \in {"account", "start", "accept"}
      PROVE  pc'[accepted] = "connected"
  <2>1. pc[accepted] = "connected"
    BY <1>3 DEF Lifecycle
  <2>2. CASE accepted # s
    BY <1>3, <2>1, <2>2, StrandValues
  <2>3. CASE accepted = s
    <3>1. accept_pc \in {"account", "start"}
      BY <1>3, <2>1, <2>3 DEF StrandStep, Registered, Fresh
    <3>2. inbox[s] # <<>> => Head(inbox[s]) # "run"
      <4>1. HAVE inbox[s] # <<>>
      <4>2. inbox[s] \in Seq(Calls)
        BY DEF TypeOK, Calls
      <4>3. 1 \in 1 .. Len(inbox[s]) /\ Head(inbox[s]) = inbox[s][1]
        BY <4>1, <4>2, TailCalls
      <4> QED
        BY <2>3, <3>1, <4>3 DEF RunOnce
    <3>3. p = "connected"
      BY <2>1, <2>3, <3>2 DEF StrandStep
    <3> QED
      BY <2>3, <3>3, StrandValues
  <2> QED
    BY <2>2, <2>3
<1> QED
  BY <1>1, <1>2, <1>3 DEF Lifecycle

LEMMA StrandAccounting ==
  ASSUME TypeOK, Lifecycle, Accounting, NEW s \in Sessions, NEW p, NEW st, NEW ib,
         StrandStep(s, p, st, ib)
  PROVE  Accounting'
<1>1. accept_pc' = accept_pc
  BY DEF StrandStep, listenerVars
<1>2. s \in sessions <=> state[s] # "Closed"
  BY DEF Lifecycle, StrandStep
<1>3. s \in Ended <=> state[s] = "Closed"
  BY DEF Ended, StrandStep, Registered
<1>4. Ended' = IF st = "Closed" THEN Ended \cup {s} ELSE Ended
  <2>1. \A t \in Sessions \ {s} : t \in Ended' <=> t \in Ended
    BY StrandValues DEF Ended
  <2>2. s \in Ended' <=> st = "Closed"
    BY StrandValues DEF Ended, Registered
  <2>3. s \in Ended => st = "Closed"
    BY <1>3 DEF StrandStep
  <2>4. Ended' \subseteq Sessions /\ Ended \subseteq Sessions
    BY DEF Ended
  <2> QED
    BY <2>1, <2>2, <2>3, <2>4
<1>5. CASE st = "Closed" /\ state[s] # "Closed"
  <2>1. /\ sessions' = sessions \ {s} /\ closed_count' = closed_count + 1
        /\ active_connections' = active_connections - 1
    BY <1>5 DEF StrandStep
  <2>2. s \in sessions /\ s \notin Ended /\ Ended' = Ended \cup {s}
    BY <1>2, <1>3, <1>4, <1>5
  <2>3. IsFiniteSet(sessions') /\ Cardinality(sessions') = Cardinality(sessions) - 1 /\ Cardinality(sessions) \in Nat
    BY <2>1, <2>2, OneMoves DEF Accounting
  <2>4. IsFiniteSet(Ended') /\ Cardinality(Ended') = Cardinality(Ended) + 1 /\ Cardinality(Ended) \in Nat
    BY <2>2, OneMoves DEF Accounting
  <2> QED
    BY <1>1, <2>1, <2>3, <2>4, SessionLimits DEF Accounting
<1>6. CASE ~(st = "Closed" /\ state[s] # "Closed")
  <2>1. UNCHANGED <<sessions, closed_count, active_connections>>
    BY <1>6 DEF StrandStep
  <2>2. Ended' = Ended
    BY <1>3, <1>4, <1>6
  <2> QED
    BY <1>1, <2>1, <2>2 DEF Accounting
<1> QED
  BY <1>5, <1>6

LEMMA StrandRunOnce ==
  ASSUME TypeOK, RunOnce, NEW s \in Sessions, NEW p, NEW st, NEW ib, StrandStep(s, p, st, ib)
  PROVE  RunOnce'
<1>1. accept_pc' = accept_pc /\ accepted' = accepted
  BY DEF StrandStep, listenerVars
<1>2. ASSUME NEW t \in Sessions
      PROVE  /\ \A i \in 1 .. Len(inbox'[t]) : inbox'[t][i] = "run" =>
                   pc'[t] = "connected" /\ ~(accepted = t /\ accept_pc \in {"account", "start"})
             /\ \A i, j \in 1 .. Len(inbox'[t]) : inbox'[t][i] = "run" /\ inbox'[t][j] = "run" => i = j
  <2>1. CASE t # s
    <3>1. inbox'[t] = inbox[t] /\ pc'[t] = pc[t]
      BY <2>1, StrandValues
    <3> QED
      BY <3>1 DEF RunOnce
  <2>2. CASE t = s /\ ib = inbox[s]
    <3>1. inbox'[s] = inbox[s] /\ pc'[s] = p
      BY <2>2, StrandValues
    <3>2. CASE pc[s] = "connected" => p = "connected"
      BY <2>2, <3>1, <3>2 DEF RunOnce
    <3>3. CASE inbox[s] # <<>> /\ ib = Tail(inbox[s])
      <4>1. inbox[s] \in Seq(Calls)
        BY DEF TypeOK, Calls
      <4>2. Len(Tail(inbox[s])) = Len(inbox[s]) - 1 /\ Len(inbox[s]) \in Nat
        BY <3>3, <4>1, TailCalls
      <4> QED
        BY <2>2, <3>3, <4>2
    <3> QED
      BY <2>2, <3>2, <3>3 DEF StrandStep
  <2>3. CASE t = s /\ ib # inbox[s]
    <3>1. /\ inbox[s] # <<>> /\ ib = Tail(inbox[s])
          /\ pc[s] = "connected" /\ Head(inbox[s]) # "run" => p = "connected"
      BY <2>3 DEF StrandStep
    <3>2. inbox[s] \in Seq(Calls)
      BY DEF TypeOK, Calls
    <3>3. inbox'[s] = ib /\ pc'[s] = p
      BY StrandValues
    <3>4. /\ Len(inbox[s]) \in Nat /\ 1 \in 1 .. Len(inbox[s]) /\ Head(inbox[s]) = inbox[s][1]
          /\ Len(ib) = Len(inbox[s]) - 1
          /\ \A i \in 1 .. Len(ib) : ib[i] = inbox[s][i + 1] /\ i + 1 \in 1 .. Len(inbox[s])
      BY <3>1, <3>2, TailCalls
    <3>5. ASSUME NEW i \in 1 .. Len(ib), ib[i] = "run"
          PROVE  p = "connected" /\ ~(accepted = s /\ accept_pc \in {"account", "start"})
      <4>1. inbox[s][i + 1] = "run" /\ i + 1 \in 1 .. Len(inbox[s]) /\ i + 1 # 1
        BY <3>4, <3>5
      <4>2. Head(inbox[s]) # "run"
        BY <3>4, <4>1 DEF RunOnce
      <4>3. pc[s] = "connected" /\ ~(accepted = s /\ accept_pc \in {"account", "start"})
        BY <4>1 DEF RunOnce
      <4> QED
        BY <3>1, <4>2, <4>3
    <3>6. ASSUME NEW i \in 1 .. Len(ib), NEW j \in 1 .. Len(ib), ib[i] = "run", ib[j] = "run"
          PROVE  i = j
      <4>1. i + 1 = j + 1
        BY <3>4, <3>6 DEF RunOnce
      <4> QED
        BY <4>1
    <3> QED
      BY <2>3, <3>3, <3>5, <3>6
  <2> QED
    BY <2>1, <2>2, <2>3
<1> QED
  BY <1>1, <1>2 DEF RunOnce

LEMMA StrandEarly ==
  ASSUME TypeOK, DrainedEarly, NEW s \in Sessions, NEW p, NEW st, NEW ib, StrandStep(s, p, st, ib)
  PROVE  DrainedEarly'
<1>1. ASSUME NEW t \in Sessions, state'[t] = "Draining", pc'[t] \in {"connected", "reading"}
      PROVE  t \in early'
  <2>1. CASE t = s
    <3>1. state'[s] = st /\ pc'[s] = p
      BY StrandValues
    <3>2. st = "Draining" /\ p \in {"connected", "reading"} => s \in early'
      BY DEF StrandStep
    <3> QED
      BY <1>1, <2>1, <3>1, <3>2
  <2>2. CASE t # s
    <3>1. state'[t] = state[t] /\ pc'[t] = pc[t] /\ early \subseteq early'
      BY <2>2, StrandValues DEF StrandStep
    <3> QED
      BY <1>1, <3>1 DEF DrainedEarly
  <2> QED
    BY <2>1, <2>2
<1> QED
  BY <1>1 DEF DrainedEarly

LEMMA StrandDraining ==
  ASSUME TypeOK, Draining, NEW s \in Sessions, NEW p, NEW st, NEW ib, StrandStep(s, p, st, ib)
  PROVE  Draining'
<1>1. sessions' \subseteq sessions
  BY DEF StrandStep
<1> QED
  BY <1>1 DEF StrandStep, Draining, Looked, serverVars, checkVars

\* forced grows only by a session of the registry, which is empty once a check has
\* looked; without the flag no call to close is in any inbox.
LEMMA StrandAnswer ==
  ASSUME TypeOK, Draining, Answer, NEW s \in Sessions, NEW p, NEW st, NEW ib,
         StrandStep(s, p, st, ib)
  PROVE  Answer'
<1>1. /\ drain_deadline_expired' = drain_deadline_expired /\ drain_timer' = drain_timer
      /\ drained' = drained /\ chain' = chain
      /\ drain_finished' = drain_finished /\ on_complete' = on_complete
  BY DEF StrandStep, serverVars, checkVars
<1>2. inbox[s] \in Seq(Calls)
  BY DEF TypeOK, Calls
<1>3. ASSUME ~drain_deadline_expired
      PROVE  /\ forced' = {}
             /\ \A t \in Sessions : \A i \in 1 .. Len(inbox'[t]) : inbox'[t][i] # "deadline"
  <2>1. forced = {} /\ \A t \in Sessions : \A i \in 1 .. Len(inbox[t]) : inbox[t][i] # "deadline"
    BY <1>3 DEF Answer
  <2>2. inbox[s] # <<>> => Head(inbox[s]) # "deadline"
    BY <1>2, <2>1, TailCalls
  <2>3. forced' = {}
    BY <2>1, <2>2 DEF StrandStep
  <2>4. ASSUME NEW t \in Sessions, NEW i \in 1 .. Len(inbox'[t])
        PROVE  inbox'[t][i] # "deadline"
    <3>1. CASE inbox'[t] = inbox[t]
      BY <2>1, <2>4, <3>1
    <3>2. CASE t = s /\ inbox[s] # <<>> /\ inbox'[t] = Tail(inbox[s])
      <4>1. i \in 1 .. Len(Tail(inbox[s]))
        BY <2>4, <3>2
      <4>2. Tail(inbox[s])[i] = inbox[s][i + 1] /\ i + 1 \in 1 .. Len(inbox[s])
        BY <1>2, <3>2, <4>1, TailCalls
      <4> QED
        BY <2>1, <3>2, <4>2
    <3>3. t # s => inbox'[t] = inbox[t]
      BY StrandValues
    <3>4. inbox'[s] = ib
      BY StrandValues
    <3>5. ib = inbox[s] \/ (inbox[s] # <<>> /\ ib = Tail(inbox[s]))
      BY DEF StrandStep
    <3> QED
      BY <3>1, <3>2, <3>3, <3>4, <3>5
  <2> QED
    BY <2>3, <2>4
<1>4. sessions = {} => forced' = forced
  BY DEF StrandStep
<1>5. \A k \in Chains : drained[k] => chain[k] = "finish" /\ forced' = {}
  BY <1>4 DEF Answer, Draining, Looked
<1>6. drain_finished => Len(on_complete) = 1 /\ (on_complete[1] => forced' = {})
  BY <1>4 DEF Answer, Draining
<1>7. ~drain_finished => on_complete = <<>>
  BY DEF Answer
<1>8. ~drain_deadline_expired => drain_timer # "expired"
  BY DEF Answer
<1> QED
  BY <1>1, <1>3, <1>5, <1>6, <1>7, <1>8 DEF Answer

LEMMA StrandKeeps ==
  ASSUME IInv, NEW s \in Sessions, NEW p, NEW st, NEW ib, StrandStep(s, p, st, ib)
  PROVE  IInv'
  BY StrandTyped, StrandLifecycle, StrandAccounting, StrandRunOnce, StrandEarly, StrandDraining,
     StrandAnswer DEF IInv

-----------------------------------------------------------------------------
(* Every handler of HttpSession is such a step *)

IsStrandStep(s) == \E p, st, ib : StrandStep(s, p, st, ib)

\* A session that reads, answers or has a call waiting is past tryAdd.
LEMMA PastTryAdd ==
  ASSUME TypeOK, Lifecycle, NEW s \in Sessions,
         pc[s] \in {"reading", "responding", "writing_error"} \/ inbox[s] # <<>> \/ reading[s]
  PROVE  Registered(s) /\ pc[s] \in SessionPcs \ {"unborn"} /\ state[s] \in SessionStates
<1>1. pc[s] \in SessionPcs /\ state[s] \in SessionStates
  BY DEF TypeOK, SessionPcs, SessionStates
<1>2. reading[s] => pc[s] = "reading"
  BY DEF Lifecycle
<1>3. Registered(s)
  BY <1>2 DEF Lifecycle, Registered, Fresh, Refused
<1> QED
  BY <1>1, <1>3 DEF Registered, Fresh

LEMMA CloseEffect ==
  ASSUME TypeOK, Lifecycle, NEW s \in Sessions, Registered(s), closeInExecutor(s)
  PROVE  /\ state' = [state EXCEPT ![s] = "Closed"]
         /\ IF state[s] # "Closed"
            THEN sessions' = sessions \ {s} /\ closed_count' = closed_count + 1
                 /\ active_connections' = active_connections - 1
            ELSE UNCHANGED <<sessions, closed_count, active_connections>>
<1>1. CASE state[s] = "Closed"
  BY <1>1 DEF closeInExecutor, TypeOK
<1>2. CASE state[s] # "Closed"
  <2>1. s \in sessions
    BY <1>2 DEF Lifecycle
  <2> QED
    BY <1>2, <2>1 DEF closeInExecutor
<1> QED
  BY <1>1, <1>2

\* The function is the same when a value is written over itself.
LEMMA Rewritten ==
  ASSUME TypeOK, NEW s \in Sessions
  PROVE  /\ pc = [pc EXCEPT ![s] = pc[s]] /\ state = [state EXCEPT ![s] = state[s]]
         /\ inbox = [inbox EXCEPT ![s] = inbox[s]] /\ reading = [reading EXCEPT ![s] = reading[s]]
  BY DEF TypeOK

LEMMA FinishIsStep ==
  ASSUME IInv, NEW s \in Sessions, pc[s] \in {"reading", "responding", "writing_error"},
         Finish(s), SessionFrame
  PROVE  StrandStep(s, "finished", "Closed", inbox[s])
<1>1. TypeOK /\ Lifecycle
  BY DEF IInv
<1>2. Registered(s)
  BY <1>1, PastTryAdd
<1>3. /\ state' = [state EXCEPT ![s] = "Closed"]
      /\ IF state[s] # "Closed"
         THEN sessions' = sessions \ {s} /\ closed_count' = closed_count + 1
              /\ active_connections' = active_connections - 1
         ELSE UNCHANGED <<sessions, closed_count, active_connections>>
  BY <1>1, <1>2, CloseEffect DEF Finish
<1>4. inbox' = [inbox EXCEPT ![s] = inbox[s]]
  BY <1>1, Rewritten DEF SessionFrame
<1>5. pc' = [pc EXCEPT ![s] = "finished"] /\ reading' = [reading EXCEPT ![s] = ("finished" = "reading")]
  BY DEF Finish, Goto
<1>6. early' = early /\ forced' = forced /\ early \subseteq Sessions
  BY <1>1 DEF SessionFrame, historyVars, TypeOK
<1>7. UNCHANGED <<listenerVars, registry_draining, serverVars>>
  BY DEF SessionFrame
<1> QED
  BY <1>2, <1>3, <1>4, <1>5, <1>6, <1>7 DEF StrandStep, SessionPcs, SessionStates

\* The coroutine goes on and the session stays as it is.
LEMMA GotoIsStep ==
  ASSUME IInv, NEW s \in Sessions, pc[s] \in {"reading", "responding", "writing_error"},
         NEW p \in {"reading", "responding", "writing_error"}, Goto(s, p),
         p = "reading" => state[s] # "Draining",
         UNCHANGED state, KeepRegistry, SessionFrame
  PROVE  StrandStep(s, p, state[s], inbox[s])
<1>1. TypeOK /\ Lifecycle
  BY DEF IInv
<1>2. Registered(s) /\ state[s] \in SessionStates /\ state[s] # "Created"
  BY <1>1, PastTryAdd DEF Lifecycle
<1>3. inbox' = [inbox EXCEPT ![s] = inbox[s]] /\ state' = [state EXCEPT ![s] = state[s]]
  BY <1>1, Rewritten DEF SessionFrame
<1>4. pc' = [pc EXCEPT ![s] = p] /\ reading' = [reading EXCEPT ![s] = (p = "reading")]
  BY DEF Goto
<1>5. early' = early /\ forced' = forced /\ early \subseteq Sessions
  BY <1>1 DEF SessionFrame, historyVars, TypeOK
<1>6. UNCHANGED <<listenerVars, registry_draining, serverVars>>
  BY DEF SessionFrame
<1>7. UNCHANGED <<sessions, closed_count, active_connections>>
  BY DEF KeepRegistry
<1> QED
  BY <1>2, <1>3, <1>4, <1>5, <1>6, <1>7 DEF StrandStep, SessionPcs, SessionStates

LEMMA SessionStepIsStrandStep ==
  ASSUME IInv, NEW s \in Sessions, SessionStep(s)
  PROVE  IsStrandStep(s)
<1>1. CASE ReadRequest(s)
  <2>1. CASE state[s] = "Closed"
    BY <1>1, <2>1, FinishIsStep DEF ReadRequest, IsStrandStep
  <2>2. CASE state[s] # "Closed"
    BY <1>1, <2>2, GotoIsStep DEF ReadRequest, IsStrandStep
  <2> QED
    BY <2>1, <2>2
<1>2. CASE ReadBadRequest(s)
  BY <1>2, GotoIsStep DEF ReadBadRequest, IsStrandStep
<1>3. CASE ReadFails(s)
  BY <1>3, FinishIsStep DEF ReadFails, IsStrandStep
<1>4. CASE ReadDeadline(s)
  <2>1. TypeOK /\ Lifecycle /\ reading[s]
    BY <1>4 DEF IInv, ReadDeadline
  <2>2. Registered(s) /\ pc[s] = "reading" /\ reading[s] = (pc[s] = "reading")
    BY <2>1, PastTryAdd DEF Lifecycle
  <2>3. /\ state' = [state EXCEPT ![s] = "Closed"]
        /\ IF state[s] # "Closed"
           THEN sessions' = sessions \ {s} /\ closed_count' = closed_count + 1
                /\ active_connections' = active_connections - 1
           ELSE UNCHANGED <<sessions, closed_count, active_connections>>
    BY <1>4, <2>1, <2>2, CloseEffect DEF ReadDeadline
  <2>4. inbox' = [inbox EXCEPT ![s] = inbox[s]] /\ pc' = [pc EXCEPT ![s] = "reading"]
    BY <1>4, <2>1, <2>2, Rewritten DEF ReadDeadline, SessionFrame
  <2>5. reading' = [reading EXCEPT ![s] = ("reading" = "reading")]
    BY <1>4, <2>1, <2>2, Rewritten DEF ReadDeadline
  <2>6. early' = early /\ forced' = forced /\ early \subseteq Sessions
    BY <1>4, <2>1 DEF ReadDeadline, SessionFrame, historyVars, TypeOK
  <2>7. UNCHANGED <<listenerVars, registry_draining, serverVars>>
    BY <1>4 DEF ReadDeadline, SessionFrame
  <2>8. StrandStep(s, "reading", "Closed", inbox[s])
    BY <2>2, <2>3, <2>4, <2>5, <2>6, <2>7 DEF StrandStep, SessionPcs, SessionStates
  <2> QED
    BY <2>8 DEF IsStrandStep
<1>5. CASE ParserErrorWritten(s)
  BY <1>5, FinishIsStep DEF ParserErrorWritten, IsStrandStep
<1>6. ASSUME NEW close \in BOOLEAN, ResponseWritten(s, close)
      PROVE  IsStrandStep(s)
  <2>1. CASE close \/ state[s] \in {"Draining", "Closed"}
    BY <1>6, <2>1, FinishIsStep DEF ResponseWritten, IsStrandStep
  <2>2. CASE ~(close \/ state[s] \in {"Draining", "Closed"})
    <3>1. PICK p \in {"reading", "responding", "writing_error"} : Goto(s, p)
      BY <1>6, <2>2 DEF ResponseWritten
    <3>2. StrandStep(s, p, state[s], inbox[s])
      BY <1>6, <2>2, <3>1, GotoIsStep DEF ResponseWritten
    <3> QED
      BY <3>2 DEF IsStrandStep
  <2> QED
    BY <2>1, <2>2
<1> QED
  BY <1>1, <1>2, <1>3, <1>4, <1>5, <1>6 DEF SessionStep

\* run(), beginDrainInExecutor and stopInExecutor.
LEMMA DispatchedIsStrandStep ==
  ASSUME IInv, NEW s \in Sessions, Dispatched(s)
  PROVE  IsStrandStep(s)
<1>1. TypeOK /\ Lifecycle /\ RunOnce /\ DrainedEarly
  BY DEF IInv
<1>2. inbox[s] # <<>> /\ inbox' = [inbox EXCEPT ![s] = Tail(inbox[s])]
  BY DEF Dispatched, Run, DrainInExecutor, StopInExecutor, Take
<1>3. Registered(s) /\ pc[s] \in SessionPcs \ {"unborn"} /\ state[s] \in SessionStates
  BY <1>1, <1>2, PastTryAdd
<1>4. reading[s] = (pc[s] = "reading") /\ pc = [pc EXCEPT ![s] = pc[s]]
  BY <1>1, Rewritten DEF Lifecycle
<1>5. reading = [reading EXCEPT ![s] = (pc[s] = "reading")]
  BY <1>1, <1>4, Rewritten
<1>6. early \subseteq Sessions
  BY <1>1 DEF TypeOK
<1>7. CASE Run(s)
  <2> DEFINE p == IF state[s] = "Closed" THEN "finished" ELSE "reading"
             st == IF state[s] = "Created" THEN "Running" ELSE state[s]
  <2>1. Head(inbox[s]) = "run" /\ pc[s] = "connected"
    <3>1. inbox[s] \in Seq(Calls)
      BY <1>1 DEF TypeOK, Calls
    <3>2. 1 \in 1 .. Len(inbox[s]) /\ Head(inbox[s]) = inbox[s][1]
      BY <1>2, <3>1, TailCalls
    <3> QED
      BY <1>1, <1>7, <3>2 DEF Run, Take, RunOnce
  <2>2. state[s] = "Draining" => s \in early
    BY <1>1, <2>1 DEF DrainedEarly
  <2>3. /\ pc' = [pc EXCEPT ![s] = p] /\ reading' = [reading EXCEPT ![s] = (p = "reading")]
        /\ state' = [state EXCEPT ![s] = st]
    BY <1>7 DEF Run, Goto
  <2>4. /\ p \in SessionPcs \ {"unborn"} /\ st \in SessionStates /\ p # "connected" /\ st # "Created"
        /\ st = "Closed" <=> state[s] = "Closed"
        /\ st = "Draining" => state[s] = "Draining"
    BY <1>3 DEF SessionPcs, SessionStates
  <2>5. early' = early /\ forced' = forced /\ UNCHANGED <<listenerVars, registry_draining, serverVars>>
        /\ UNCHANGED <<sessions, closed_count, active_connections>>
    BY <1>7 DEF Run, historyVars, KeepRegistry
  <2> HIDE DEF p, st
  <2>6. StrandStep(s, p, st, Tail(inbox[s]))
    BY <1>2, <1>3, <1>6, <2>1, <2>2, <2>3, <2>4, <2>5 DEF StrandStep
  <2> QED
    BY <2>6 DEF IsStrandStep
<1>8. CASE DrainInExecutor(s)
  <2>1. /\ pc' = [pc EXCEPT ![s] = pc[s]] /\ reading' = [reading EXCEPT ![s] = (pc[s] = "reading")]
        /\ forced' = forced /\ UNCHANGED <<listenerVars, registry_draining, serverVars>>
        /\ Head(inbox[s]) # "run"
    BY <1>4, <1>5, <1>8 DEF DrainInExecutor, Take
  <2>2. early' = (IF pc[s] = "connected" THEN early \cup {s} ELSE early)
    BY <1>8 DEF DrainInExecutor, TooEarly
  <2>3. CASE reading[s]
    <3>1. /\ state' = [state EXCEPT ![s] = "Closed"]
          /\ IF state[s] # "Closed"
             THEN sessions' = sessions \ {s} /\ closed_count' = closed_count + 1
                  /\ active_connections' = active_connections - 1
             ELSE UNCHANGED <<sessions, closed_count, active_connections>>
      BY <1>1, <1>3, <1>8, <2>3, CloseEffect DEF DrainInExecutor
    <3>2. StrandStep(s, pc[s], "Closed", Tail(inbox[s]))
      BY <1>2, <1>3, <1>6, <2>1, <2>2, <3>1 DEF StrandStep, SessionStates
    <3> QED
      BY <3>2 DEF IsStrandStep
  <2>4. CASE ~reading[s]
    <3> DEFINE st == IF state[s] = "Closed" THEN state[s] ELSE "Draining"
    <3>1. state' = [state EXCEPT ![s] = st] /\ UNCHANGED <<sessions, closed_count, active_connections>>
      BY <1>8, <2>4 DEF DrainInExecutor, KeepRegistry
    <3>2. st \in SessionStates /\ st # "Created" /\ (st = "Closed" <=> state[s] = "Closed")
      BY DEF SessionStates
    <3>3. pc[s] # "reading"
      BY <1>4, <2>4
    <3> HIDE DEF st
    <3>4. StrandStep(s, pc[s], st, Tail(inbox[s]))
      BY <1>2, <1>3, <1>6, <2>1, <2>2, <3>1, <3>2, <3>3 DEF StrandStep
    <3> QED
      BY <3>4 DEF IsStrandStep
  <2> QED
    BY <2>3, <2>4
<1>9. ASSUME NEW why \in {"stop", "deadline"}, StopInExecutor(s, why)
      PROVE  IsStrandStep(s)
  <2>1. /\ pc' = [pc EXCEPT ![s] = pc[s]] /\ reading' = [reading EXCEPT ![s] = (pc[s] = "reading")]
        /\ early' = early /\ UNCHANGED <<listenerVars, registry_draining, serverVars>>
        /\ Head(inbox[s]) # "run" /\ Head(inbox[s]) = why
    BY <1>4, <1>5, <1>9 DEF StopInExecutor, Take
  <2>2. /\ state' = [state EXCEPT ![s] = "Closed"]
        /\ IF state[s] # "Closed"
           THEN sessions' = sessions \ {s} /\ closed_count' = closed_count + 1
                /\ active_connections' = active_connections - 1
           ELSE UNCHANGED <<sessions, closed_count, active_connections>>
    BY <1>1, <1>3, <1>9, CloseEffect DEF StopInExecutor
  <2>3. \/ forced' = forced
        \/ forced' = forced \cup {s} /\ s \in sessions /\ Head(inbox[s]) = "deadline"
    BY <1>1, <1>3, <1>9, <2>1 DEF StopInExecutor, Lifecycle
  <2>4. StrandStep(s, pc[s], "Closed", Tail(inbox[s]))
    BY <1>2, <1>3, <1>6, <2>1, <2>2, <2>3 DEF StrandStep, SessionStates
  <2> QED
    BY <2>4 DEF IsStrandStep
<1> QED
  BY <1>7, <1>8, <1>9 DEF Dispatched

-----------------------------------------------------------------------------
(* The listener *)

\* A step that leaves the sessions and what they have been given alone.
LEMMA SameSessions ==
  ASSUME UNCHANGED <<sessionVars, historyVars, accept_pc, accepted, sessions, closed_count, active_connections>>
  PROVE  /\ Lifecycle => Lifecycle'
         /\ Accounting => Accounting'
         /\ RunOnce => RunOnce'
         /\ DrainedEarly => DrainedEarly'
<1>1. /\ UNCHANGED <<state, pc, reading, inbox, forced, early>>
      /\ UNCHANGED <<accept_pc, accepted, sessions, closed_count, active_connections>>
  BY DEF sessionVars, historyVars
<1>2. \A s \in Sessions : (Registered(s)' <=> Registered(s)) /\ (Refused(s)' <=> Refused(s))
  BY <1>1 DEF Registered, Fresh, Refused
<1>3. Ended' = Ended
  BY <1>1, <1>2 DEF Ended
<1>4. Lifecycle => Lifecycle'
  BY <1>1, <1>2 DEF Lifecycle
<1> QED
  BY <1>1, <1>3, <1>4 DEF Accounting, RunOnce, DrainedEarly

\* A step that leaves the drain, the registry and what sessions have been given alone.
LEMMA SameDrain ==
  ASSUME UNCHANGED <<serverVars, registry_draining, forced>>
  PROVE  /\ Draining /\ sessions' = sessions => Draining'
         /\ Answer /\ inbox' = inbox => Answer'
  BY DEF serverVars, checkVars, Draining, Looked, Answer

LEMMA ConnectKeeps ==
  ASSUME IInv, NEW s \in Sessions, Connect(s)
  PROVE  IInv'
<1>1. /\ accept_pc = "accept" /\ accepted = NoSession /\ accepted' = s /\ accept_pc' = accept_pc
      /\ pc[s] = "unborn" /\ pc' = [pc EXCEPT ![s] = "connected"]
      /\ UNCHANGED <<state, reading, inbox, registryVars, serverVars, historyVars>>
  BY DEF Connect
<1>2. UNCHANGED <<sessions, registry_draining, closed_count, active_connections, forced, early>>
  BY <1>1 DEF registryVars, historyVars
<1>3. pc'[s] = "connected" /\ \A t \in Sessions \ {s} : pc'[t] = pc[t]
  BY <1>1 DEF IInv, TypeOK
<1>4. TypeOK'
  BY <1>1, <1>2 DEF IInv, TypeOK, Connect, serverVars, checkVars
<1>5. \A t \in Sessions : (Registered(t)' <=> Registered(t)) /\ (Refused(t)' <=> Refused(t))
  BY <1>1, <1>3, SessionNames DEF Registered, Fresh, Refused
<1>6. Lifecycle'
  <2>1. \A t \in Sessions : reading'[t] = (pc'[t] = "reading")
    BY <1>1, <1>3 DEF IInv, Lifecycle
  <2> QED
    BY <1>1, <1>2, <1>3, <1>5, <2>1 DEF IInv, Lifecycle
<1>7. Accounting'
  <2>1. Ended' = Ended
    BY <1>1, <1>5 DEF Ended
  <2> QED
    BY <1>1, <1>2, <2>1 DEF IInv, Accounting
<1>8. RunOnce'
  <2>1. inbox[s] = <<>>
    BY <1>1 DEF IInv, Lifecycle, Registered, Fresh
  <2> QED
    BY <1>1, <1>3, <2>1 DEF IInv, RunOnce
<1>9. DrainedEarly'
  <2>1. state[s] = "Created"
    BY <1>1 DEF IInv, Lifecycle, Registered, Fresh
  <2> QED
    BY <1>1, <1>2, <1>3, <2>1 DEF IInv, DrainedEarly
<1> QED
  BY <1>1, <1>2, <1>4, <1>6, <1>7, <1>8, <1>9, SameDrain DEF IInv

\* tryAdd takes the session: it was not there, there is room, and no drain has begun.
LEMMA TryAddTakes ==
  ASSUME IInv, TryAdd, ~TryAddRefused
  PROVE  /\ IInv'
         /\ accepted \in Sessions /\ accepted \notin sessions /\ sessions' = sessions \cup {accepted}
         /\ ~registry_draining /\ UNCHANGED <<registry_draining, serverVars>>
<1>1. /\ accept_pc = "accept" /\ accepted # NoSession /\ accept_pc' = "account" /\ accepted' = accepted
      /\ sessions' = sessions \cup {accepted} /\ ~registry_draining
      /\ Cardinality(sessions) < maximum_sessions
      /\ UNCHANGED <<state, pc, reading, inbox, closed_count, active_connections, registry_draining,
                     serverVars, historyVars>>
  <2>1. ~registry_draining /\ ~(Cardinality(sessions) >= maximum_sessions)
    BY DEF TryAddRefused
  <2>2. Cardinality(sessions) \in Nat
    BY OneMoves DEF IInv, Accounting
  <2> QED
    BY <2>1, <2>2, SessionLimits DEF TryAdd
<1> DEFINE a == accepted
<1>2. a \in Sessions /\ pc[a] = "connected"
  BY <1>1 DEF IInv, TypeOK, Lifecycle
<1>3. Fresh(a) /\ a \notin sessions /\ state[a] = "Created" /\ inbox[a] = <<>>
  BY <1>1, <1>2 DEF Fresh, IInv, Lifecycle, Registered
<1>4. TypeOK'
  BY <1>1, <1>2 DEF IInv, TypeOK, TryAdd, serverVars, checkVars, historyVars
<1>5. /\ \A t \in Sessions \ {a} : Registered(t)' <=> Registered(t)
      /\ Registered(a)'
      /\ \A t \in Sessions : Refused(t)' <=> Refused(t)
  BY <1>1, <1>2, <1>3 DEF Registered, Fresh, Refused
<1>6. Lifecycle'
  <2>1. \A t \in Sessions : reading'[t] = (pc'[t] = "reading")
    BY <1>1 DEF IInv, Lifecycle
  <2> QED
    BY <1>1, <1>2, <1>3, <1>5, <2>1 DEF IInv, Lifecycle
<1>7. Accounting'
  <2>1. Ended' = Ended
    BY <1>1, <1>5 DEF Ended
  <2>2. IsFiniteSet(sessions') /\ Cardinality(sessions') = Cardinality(sessions) + 1 /\ Cardinality(sessions) \in Nat
    BY <1>1, <1>3, OneMoves DEF IInv, Accounting
  <2> QED
    BY <1>1, <2>1, <2>2, SessionLimits DEF IInv, Accounting
<1>8. RunOnce'
  BY <1>1, <1>3 DEF IInv, RunOnce
<1>9. DrainedEarly'
  BY <1>1 DEF IInv, DrainedEarly, historyVars
<1>10. Draining'
  <2>1. ~drain_finished /\ \A k \in Chains : chain[k] = "off"
    BY <1>1 DEF IInv, Draining, TypeOK
  <2> QED
    BY <1>1, <2>1 DEF IInv, Draining, Looked, serverVars, checkVars
<1>11. Answer'
  BY <1>1, SameDrain DEF IInv, historyVars
<1> QED
  BY <1>1, <1>2, <1>3, <1>4, <1>6, <1>7, <1>8, <1>9, <1>10, <1>11 DEF IInv

\* tryAdd refuses it: the session is over, and counted.
LEMMA TryAddRefuses ==
  ASSUME IInv, TryAdd, TryAddRefused
  PROVE  IInv' /\ UNCHANGED <<sessions, registry_draining, serverVars>>
<1>1. /\ accept_pc = "accept" /\ accepted # NoSession /\ accept_pc' = "loop" /\ accepted' = accepted
      /\ pc' = [pc EXCEPT ![accepted] = "finished"] /\ closed_count' = closed_count + 1
      /\ UNCHANGED <<state, sessions, reading, inbox, active_connections, registry_draining,
                     serverVars, historyVars>>
  BY DEF TryAdd
<1> DEFINE a == accepted
<1>2. a \in Sessions /\ pc[a] = "connected"
  BY <1>1 DEF IInv, TypeOK, Lifecycle
<1>3. Fresh(a) /\ a \notin sessions /\ state[a] = "Created" /\ inbox[a] = <<>>
  BY <1>1, <1>2 DEF Fresh, IInv, Lifecycle, Registered
<1>4. pc'[a] = "finished" /\ \A t \in Sessions \ {a} : pc'[t] = pc[t]
  BY <1>1, <1>2 DEF IInv, TypeOK
<1>5. TypeOK'
  BY <1>1, <1>2 DEF IInv, TypeOK, TryAdd, serverVars, checkVars, historyVars
<1>6. /\ \A t \in Sessions : Registered(t)' <=> Registered(t)
      /\ \A t \in Sessions \ {a} : Refused(t)' <=> Refused(t)
      /\ Refused(a)' /\ ~Refused(a)
  BY <1>1, <1>2, <1>3, <1>4 DEF Registered, Fresh, Refused
<1>7. Lifecycle'
  <2>1. reading[a] = FALSE
    BY <1>2 DEF IInv, Lifecycle
  <2>2. \A t \in Sessions : reading'[t] = (pc'[t] = "reading")
    BY <1>1, <1>4, <2>1 DEF IInv, Lifecycle
  <2> QED
    BY <1>1, <1>2, <1>3, <1>4, <1>6, <2>2 DEF IInv, Lifecycle
<1>8. Accounting'
  <2>1. Ended' = Ended \cup {a} /\ a \notin Ended
    BY <1>1, <1>2, <1>3, <1>6 DEF Ended
  <2>2. IsFiniteSet(Ended') /\ Cardinality(Ended') = Cardinality(Ended) + 1
    BY <2>1, OneMoves DEF IInv, Accounting
  <2> QED
    BY <1>1, <2>2 DEF IInv, Accounting
<1>9. RunOnce'
  BY <1>1, <1>3, <1>4 DEF IInv, RunOnce
<1>10. DrainedEarly'
  BY <1>1, <1>4 DEF IInv, DrainedEarly, historyVars
<1> QED
  BY <1>1, <1>5, <1>7, <1>8, <1>9, <1>10, SameDrain DEF IInv, historyVars

LEMMA ConnectionAcceptedKeeps ==
  ASSUME IInv, ConnectionAccepted
  PROVE  IInv'
<1>1. /\ accept_pc = "account" /\ accept_pc' = "start" /\ accepted' = accepted
      /\ active_connections' = active_connections + 1
      /\ UNCHANGED <<state, pc, reading, inbox, sessions, closed_count, registry_draining,
                     serverVars, historyVars>>
  BY DEF ConnectionAccepted, sessionVars
<1>2. TypeOK'
  BY <1>1 DEF IInv, TypeOK, ConnectionAccepted, serverVars, checkVars, historyVars
<1>3. \A t \in Sessions : (Registered(t)' <=> Registered(t)) /\ (Refused(t)' <=> Refused(t))
  BY <1>1 DEF Registered, Fresh, Refused
<1>4. Lifecycle'
  BY <1>1, <1>3 DEF IInv, Lifecycle
<1>5. Accounting'
  <2>1. Ended' = Ended
    BY <1>1, <1>3 DEF Ended
  <2>2. Cardinality(sessions) \in Nat
    BY OneMoves DEF IInv, Accounting
  <2> QED
    BY <1>1, <2>1, <2>2 DEF IInv, Accounting
<1>6. RunOnce' /\ DrainedEarly'
  BY <1>1 DEF IInv, RunOnce, DrainedEarly, historyVars
<1> QED
  BY <1>1, <1>2, <1>4, <1>5, <1>6, SameDrain DEF IInv, historyVars

\* start(): the first and only call of run() for this session.
LEMMA StartKeeps ==
  ASSUME IInv, Start
  PROVE  IInv'
<1> DEFINE a == accepted
<1>1. /\ accept_pc = "start" /\ accept_pc' = "loop" /\ accepted' = accepted
      /\ inbox' = [inbox EXCEPT ![a] = Append(inbox[a], "run")]
      /\ UNCHANGED <<state, pc, reading, registryVars, serverVars, historyVars>>
  BY DEF Start
<1>2. UNCHANGED <<sessions, registry_draining, closed_count, active_connections, forced, early>>
  BY <1>1 DEF registryVars, historyVars
<1>3. a \in Sessions /\ pc[a] = "connected" /\ inbox[a] \in Seq(Calls)
  BY <1>1 DEF IInv, TypeOK, Lifecycle, Calls
<1>4. /\ inbox'[a] = Append(inbox[a], "run") /\ \A t \in Sessions \ {a} : inbox'[t] = inbox[t]
      /\ Append(inbox[a], "run") \in Seq(Calls) /\ Len(inbox[a]) \in Nat
      /\ Len(Append(inbox[a], "run")) = Len(inbox[a]) + 1
      /\ Append(inbox[a], "run")[Len(inbox[a]) + 1] = "run"
      /\ \A i \in 1 .. Len(inbox[a]) : Append(inbox[a], "run")[i] = inbox[a][i]
  <2>1. "run" \in Calls
    BY DEF Calls
  <2>2. inbox'[a] = Append(inbox[a], "run") /\ \A t \in Sessions \ {a} : inbox'[t] = inbox[t]
    BY <1>1, <1>3 DEF IInv, TypeOK
  <2> QED
    BY <1>3, <2>1, <2>2, AppendCalls
<1>5. TypeOK'
  <2>1. inbox' \in [Sessions -> Seq(Calls)]
    BY <1>1, <1>3, <1>4 DEF IInv, TypeOK, Calls
  <2> QED
    BY <1>1, <1>2, <2>1 DEF IInv, TypeOK, Start, Calls, serverVars, checkVars
<1>6. \A t \in Sessions : (Registered(t)' <=> Registered(t)) /\ (Refused(t)' <=> Refused(t))
  BY <1>1 DEF Registered, Fresh, Refused
<1>7. Registered(a)
  BY <1>1, <1>3 DEF Registered, Fresh, Refused
<1>8. Lifecycle'
  BY <1>1, <1>2, <1>3, <1>4, <1>6, <1>7 DEF IInv, Lifecycle
<1>9. Accounting'
  <2>1. Ended' = Ended
    BY <1>1, <1>6 DEF Ended
  <2> QED
    BY <1>1, <1>2, <2>1 DEF IInv, Accounting
<1>10. RunOnce'
  <2>1. \A i \in 1 .. Len(inbox[a]) : inbox[a][i] # "run"
    BY <1>1, <1>3 DEF IInv, RunOnce
  <2>2. \A i \in 1 .. Len(inbox'[a]) : inbox'[a][i] = "run" => i = Len(inbox[a]) + 1
    BY <1>4, <2>1
  <2>3. accept_pc' \notin {"account", "start"} /\ pc' = pc
    BY <1>1
  <2>4. ASSUME NEW t \in Sessions
        PROVE  /\ \A i \in 1 .. Len(inbox'[t]) : inbox'[t][i] = "run" =>
                     pc'[t] = "connected" /\ ~(accepted' = t /\ accept_pc' \in {"account", "start"})
               /\ \A i, j \in 1 .. Len(inbox'[t]) : inbox'[t][i] = "run" /\ inbox'[t][j] = "run" => i = j
    <3>1. CASE t = a
      BY <1>3, <2>2, <2>3, <3>1
    <3>2. CASE t # a
      BY <1>4, <2>3, <3>2 DEF IInv, RunOnce
    <3> QED
      BY <3>1, <3>2
  <2> QED
    BY <2>4 DEF RunOnce
<1>11. DrainedEarly'
  BY <1>1, <1>2 DEF IInv, DrainedEarly
<1>12. Draining'
  BY <1>1, <1>2, SameDrain DEF IInv
<1>13. Answer'
  <2>1. UNCHANGED <<chain, drained, drain_finished, on_complete, drain_deadline_expired, drain_timer>>
    BY <1>1 DEF serverVars, checkVars
  <2>2. ASSUME ~drain_deadline_expired, NEW t \in Sessions, NEW i \in 1 .. Len(inbox'[t])
        PROVE  inbox'[t][i] # "deadline"
    BY <1>4, <2>2 DEF IInv, Answer
  <2> QED
    BY <1>2, <2>1, <2>2 DEF IInv, Answer
<1> QED
  BY <1>5, <1>8, <1>9, <1>10, <1>11, <1>12, <1>13 DEF IInv

\* The accept loop between two connections, its retry timer, and the listener's stop.
LEMMA AcceptLoopKeeps ==
  ASSUME IInv, AcceptNext \/ AcceptFails \/ RetryTimer \/ StopListener
  PROVE  IInv'
<1>1. UNCHANGED <<registryVars, sessionVars, serverVars, historyVars>>
  BY DEF AcceptNext, AcceptFails, RetryTimer, StopListener
<1>2. /\ UNCHANGED <<state, pc, reading, inbox, forced, early>>
      /\ UNCHANGED <<sessions, registry_draining, closed_count, active_connections>>
  BY <1>1 DEF sessionVars, registryVars, historyVars
<1>3. /\ accept_pc' \in {"accept", "loop", "retry", "ended"} \/ accept_pc' = accept_pc
      /\ accepted' \in {accepted, NoSession}
      /\ accept_pc' = accept_pc => accepted' = accepted
      /\ accept_pc' # accept_pc => /\ accepted' = NoSession
                                   /\ accept_pc' \in {"accept", "retry", "ended"} /\ accept_pc # "account"
                                   /\ accept_pc # "start"
                                   /\ accept_pc = "accept" => accepted = NoSession
  BY DEF AcceptNext, AcceptFails, RetryTimer, StopListener, IInv, Lifecycle
<1>4. TypeOK'
  <2>1. /\ accept_pc' \in {"accept", "account", "start", "loop", "retry", "ended"}
        /\ accepted' \in Sessions \cup {NoSession}
    BY <1>3 DEF IInv, TypeOK
  <2>2. listener_stop' \in BOOLEAN /\ listener_stopping' \in BOOLEAN
    BY DEF IInv, TypeOK, AcceptNext, AcceptFails, RetryTimer, StopListener
  <2> QED
    BY <1>1, <1>2, <2>1, <2>2 DEF IInv, TypeOK, serverVars, checkVars
<1>5. \A t \in Sessions : (Registered(t)' <=> Registered(t)) /\ (Refused(t)' <=> Refused(t))
  <2>1. \A t \in Sessions : Refused(t)' <=> Refused(t)
    BY <1>2 DEF Refused
  <2>2. \A t \in Sessions : Fresh(t)' <=> Fresh(t)
    BY <1>2, <1>3, SessionNames DEF Fresh
  <2> QED
    BY <2>1, <2>2 DEF Registered
<1>6. Lifecycle'
  <2>1. /\ accept_pc' \in {"account", "start", "loop"} => accepted' \in Sessions
        /\ accept_pc' \in {"retry", "ended"} => accepted' = NoSession
        /\ accept_pc' \in {"account", "start"} => pc[accepted'] = "connected"
        /\ accept_pc' = "accept" /\ accepted' \in Sessions => pc[accepted'] = "connected"
    BY <1>3, SessionNames DEF IInv, Lifecycle
  <2>2. \A s \in Sessions :
          /\ reading[s] = (pc[s] = "reading")
          /\ pc[s] \in {"reading", "responding", "writing_error"} => state[s] # "Created"
          /\ ~Registered(s)' => s \notin sessions /\ state[s] = "Created" /\ inbox[s] = <<>>
          /\ Registered(s)' => (s \in sessions <=> state[s] # "Closed")
    BY <1>5 DEF IInv, Lifecycle
  <2> QED
    BY <1>2, <2>1, <2>2 DEF Lifecycle
<1>7. Accounting'
  <2>1. Ended' = Ended
    BY <1>2, <1>5 DEF Ended
  <2>2. accept_pc = "account" <=> accept_pc' = "account"
    BY <1>3
  <2> QED
    BY <1>2, <2>1, <2>2 DEF IInv, Accounting
<1>8. RunOnce' /\ DrainedEarly'
  BY <1>2, <1>3, SessionNames DEF IInv, RunOnce, DrainedEarly
<1> QED
  BY <1>1, <1>2, <1>4, <1>6, <1>7, <1>8, SameDrain DEF IInv

-----------------------------------------------------------------------------
(* HttpServer: drain and stop *)

\* A call other than run() given to every session of the registry.
LEMMA CallSent ==
  ASSUME IInv, NEW c \in Calls \ {"run"}, ToLiveSessions(c),
         UNCHANGED <<state, pc, reading, accept_pc, accepted, registryVars, historyVars>>
  PROVE  /\ inbox' \in [Sessions -> Seq(Calls)]
         /\ Lifecycle' /\ Accounting' /\ RunOnce' /\ DrainedEarly'
         /\ c # "deadline" /\ ~drain_deadline_expired =>
              \A t \in Sessions : \A i \in 1 .. Len(inbox'[t]) : inbox'[t][i] # "deadline"
<1>1. \A t \in Sessions : inbox'[t] = IF t \in sessions THEN Append(inbox[t], c) ELSE inbox[t]
  BY DEF ToLiveSessions
<1>2. ASSUME NEW t \in Sessions
      PROVE  /\ inbox'[t] \in Seq(Calls) /\ inbox[t] \in Seq(Calls)
             /\ \A i \in 1 .. Len(inbox'[t]) :
                   \/ i \in 1 .. Len(inbox[t]) /\ inbox'[t][i] = inbox[t][i]
                   \/ inbox'[t][i] = c
  <2>1. inbox[t] \in Seq(Calls)
    BY DEF IInv, TypeOK, Calls
  <2>2. CASE t \notin sessions
    BY <1>1, <2>1, <2>2
  <2>3. CASE t \in sessions
    <3>1. inbox'[t] = Append(inbox[t], c)
      BY <1>1, <2>3
    <3> QED
      BY <2>1, <3>1, AppendCalls
  <2> QED
    BY <2>2, <2>3
<1>3. inbox' \in [Sessions -> Seq(Calls)]
  BY <1>2 DEF ToLiveSessions
<1>4. UNCHANGED <<sessions, closed_count, active_connections, forced, early>>
  BY DEF registryVars, historyVars
<1>5. \A t \in Sessions : (Registered(t)' <=> Registered(t)) /\ (Refused(t)' <=> Refused(t))
  BY DEF Registered, Fresh, Refused
<1>6. Lifecycle'
  <2>1. \A t \in Sessions : ~Registered(t) => t \notin sessions /\ inbox'[t] = <<>>
    BY <1>1 DEF IInv, Lifecycle
  <2> QED
    BY <1>4, <1>5, <2>1 DEF IInv, Lifecycle
<1>7. Accounting'
  <2>1. Ended' = Ended
    BY <1>5 DEF Ended
  <2> QED
    BY <1>4, <2>1 DEF IInv, Accounting
<1>8. RunOnce'
  BY <1>2 DEF IInv, RunOnce
<1>9. DrainedEarly'
  BY <1>4 DEF IInv, DrainedEarly
<1>10. c # "deadline" /\ ~drain_deadline_expired =>
         \A t \in Sessions : \A i \in 1 .. Len(inbox'[t]) : inbox'[t][i] # "deadline"
  BY <1>2 DEF IInv, Answer
<1> QED
  BY <1>3, <1>6, <1>7, <1>8, <1>9, <1>10

LEMMA BeginDrainKeeps ==
  ASSUME IInv, BeginDrain
  PROVE  IInv'
<1>1. UNCHANGED <<sessionVars, historyVars, accept_pc, accepted, registryVars>>
  BY DEF BeginDrain
<1>2. Lifecycle' /\ Accounting' /\ RunOnce' /\ DrainedEarly'
  BY <1>1, SameSessions DEF IInv, registryVars
<1>3. TypeOK'
  BY DEF IInv, TypeOK, BeginDrain, registryVars, sessionVars, checkVars, historyVars
<1>4. Draining'
  <2>1. drain_pc = "idle"
    BY DEF IInv, Draining, BeginDrain
  <2> QED
    BY <2>1 DEF IInv, Draining, Looked, BeginDrain, registryVars, checkVars
<1>5. Answer'
  BY DEF IInv, Answer, BeginDrain, sessionVars, checkVars, historyVars
<1> QED
  BY <1>2, <1>3, <1>4, <1>5 DEF IInv

LEMMA RegistryDrainingKeeps ==
  ASSUME IInv, RegistryDraining
  PROVE  IInv'
<1>1. Lifecycle' /\ Accounting' /\ RunOnce' /\ DrainedEarly'
  BY SameSessions DEF IInv, RegistryDraining, listenerVars
<1>2. TypeOK'
  BY DEF IInv, TypeOK, RegistryDraining, listenerVars, sessionVars, checkVars, historyVars
<1>3. Draining'
  BY DEF IInv, Draining, Looked, RegistryDraining, checkVars
<1>4. Answer'
  BY DEF IInv, Answer, RegistryDraining, sessionVars, checkVars, historyVars
<1> QED
  BY <1>1, <1>2, <1>3, <1>4 DEF IInv

LEMMA NotifySessionsKeeps ==
  ASSUME IInv, NotifySessions
  PROVE  IInv'
<1>1. /\ inbox' \in [Sessions -> Seq(Calls)]
      /\ Lifecycle' /\ Accounting' /\ RunOnce' /\ DrainedEarly'
      /\ ~drain_deadline_expired =>
           \A t \in Sessions : \A i \in 1 .. Len(inbox'[t]) : inbox'[t][i] # "deadline"
  <2>1. "drain" \in Calls \ {"run"} /\ "drain" # "deadline"
    BY DEF Calls
  <2> QED
    BY <2>1, CallSent DEF NotifySessions, listenerVars
<1>2. TypeOK'
  <2>1. chain' \in [Chains -> {"off", "check", "poll", "empty", "finish"}]
    BY DEF IInv, TypeOK, NotifySessions
  <2>2. inbox' \in [Sessions -> Seq({"run", "drain", "stop", "deadline"})]
    BY <1>1 DEF Calls
  <2> QED
    BY <2>1, <2>2 DEF IInv, TypeOK, NotifySessions, listenerVars, registryVars, historyVars
<1>3. drain_pc = "notify" /\ ~drain_finished /\ \A k \in Chains : chain[k] = "off"
  BY DEF NotifySessions, IInv, Draining
<1>4. (\A k \in Chains : chain'[k] \in {"off", "check"}) /\ chain'["deadline"] = "off"
  BY <1>3 DEF NotifySessions, IInv, TypeOK, Chains
<1>5. Draining'
  BY <1>3, <1>4 DEF IInv, Draining, Looked, NotifySessions, registryVars
<1>6. Answer'
  <2>1. \A k \in Chains : ~drained[k]
    BY <1>3 DEF IInv, Answer
  <2> QED
    BY <1>1, <1>3, <2>1 DEF IInv, Answer, NotifySessions, historyVars
<1> QED
  BY <1>1, <1>2, <1>5, <1>6 DEF IInv

LEMMA GraceExpiresKeeps ==
  ASSUME IInv, GraceExpires
  PROVE  IInv'
<1>1. Lifecycle' /\ Accounting' /\ RunOnce' /\ DrainedEarly'
  BY SameSessions DEF IInv, GraceExpires, listenerVars, registryVars
<1>2. TypeOK'
  BY DEF IInv, TypeOK, GraceExpires, listenerVars, registryVars, sessionVars, checkVars, historyVars
<1>3. Draining'
  BY DEF IInv, Draining, Looked, GraceExpires, registryVars, checkVars
<1>4. Answer'
  BY DEF IInv, Answer, GraceExpires, sessionVars, checkVars, historyVars
<1> QED
  BY <1>1, <1>2, <1>3, <1>4 DEF IInv

LEMMA ForceCloseAllKeeps ==
  ASSUME IInv, ForceCloseAll
  PROVE  IInv'
<1>1. /\ inbox' \in [Sessions -> Seq(Calls)]
      /\ Lifecycle' /\ Accounting' /\ RunOnce' /\ DrainedEarly'
  <2>1. "deadline" \in Calls \ {"run"}
    BY DEF Calls
  <2> QED
    BY <2>1, CallSent DEF ForceCloseAll, listenerVars
<1>2. TypeOK'
  <2>1. chain' \in [Chains -> {"off", "check", "poll", "empty", "finish"}]
    BY DEF IInv, TypeOK, ForceCloseAll
  <2>2. inbox' \in [Sessions -> Seq({"run", "drain", "stop", "deadline"})]
    BY <1>1 DEF Calls
  <2> QED
    BY <2>1, <2>2 DEF IInv, TypeOK, ForceCloseAll, listenerVars, registryVars, historyVars
<1>3. drain_pc = "done" /\ drain_deadline_expired
  BY DEF ForceCloseAll, IInv, Draining, Answer, TypeOK
<1>4. /\ \A k \in Chains : k # "deadline" => chain'[k] = chain[k]
      /\ chain'["deadline"] = "check" /\ "deadline" \in Chains
  BY DEF ForceCloseAll, IInv, TypeOK, Chains
<1>5. Draining'
  BY <1>3, <1>4 DEF IInv, Draining, Looked, ForceCloseAll, registryVars
<1>6. Answer'
  <2>1. drained["deadline"] => chain["deadline"] = "finish"
    BY <1>4 DEF IInv, Answer
  <2>2. ~drained["deadline"]
    BY <2>1 DEF ForceCloseAll, IInv, Draining
  <2> QED
    BY <1>3, <1>4, <2>2 DEF IInv, Answer, ForceCloseAll, historyVars
<1> QED
  BY <1>1, <1>2, <1>5, <1>6 DEF IInv

\* checkDrain: a check that finds no session found the registry empty for good.
LEMMA CheckStepKeeps ==
  ASSUME IInv, NEW k \in Chains, CheckStep(k)
  PROVE  IInv'
<1>1. UNCHANGED <<sessionVars, historyVars, accept_pc, accepted, registryVars>>
  BY DEF CheckStep, CheckDrain, PollTimer, LoadExpired, FinishDrain, CheckFrame, listenerVars
<1>2. Lifecycle' /\ Accounting' /\ RunOnce' /\ DrainedEarly'
  BY <1>1, SameSessions DEF IInv, registryVars
<1>3. /\ UNCHANGED <<inbox, forced, sessions, registry_draining, drain_pc, draining, stop_pc,
                     drain_deadline_expired>>
      /\ \A l \in Chains \ {k} : chain'[l] = chain[l] /\ drained'[l] = drained[l]
      /\ chain[k] # "off"
  BY <1>1 DEF CheckStep, CheckDrain, PollTimer, LoadExpired, FinishDrain, CheckFrame, IInv, TypeOK,
              sessionVars, historyVars, registryVars
<1>4. drain_pc = "done" /\ draining /\ registry_draining
  BY <1>3 DEF IInv, Draining, TypeOK
<1>5. drain_timer # "off" => chain'["deadline"] = "off"
  <2>1. "deadline" \in Chains
    BY DEF Chains
  <2>2. drain_timer # "off" => chain["deadline"] = "off"
    BY DEF IInv, Draining
  <2> QED
    BY <1>3, <2>1, <2>2
<1>6. CASE CheckDrain(k)
  <2>1. chain'[k] \in {"off", "empty", "poll"} /\ (chain'[k] = "empty" => sessions = {})
    BY <1>6 DEF CheckDrain, IInv, TypeOK
  <2>2. UNCHANGED <<drain_timer, drained, drain_finished, on_complete>> /\ chain[k] = "check"
    BY <1>6 DEF CheckDrain
  <2>3. TypeOK'
    <3>1. chain' \in [Chains -> {"off", "check", "poll", "empty", "finish"}]
      BY <1>6 DEF IInv, TypeOK, CheckDrain
    <3> QED
      BY <1>6, <3>1 DEF IInv, TypeOK, CheckDrain, CheckFrame, listenerVars, registryVars,
                        sessionVars, historyVars
  <2>4. Draining'
    BY <1>3, <1>4, <1>5, <2>1, <2>2 DEF IInv, Draining, Looked
  <2>5. Answer'
    BY <1>3, <2>1, <2>2 DEF IInv, Answer
  <2> QED
    BY <1>2, <2>3, <2>4, <2>5 DEF IInv
<1>7. CASE PollTimer(k)
  <2>1. chain'[k] = "check" /\ chain[k] = "poll"
    BY <1>7 DEF PollTimer, IInv, TypeOK
  <2>2. UNCHANGED <<drain_timer, drained, drain_finished, on_complete>>
    BY <1>7 DEF PollTimer
  <2>3. TypeOK'
    <3>1. chain' \in [Chains -> {"off", "check", "poll", "empty", "finish"}]
      BY <1>7 DEF IInv, TypeOK, PollTimer
    <3> QED
      BY <1>7, <3>1 DEF IInv, TypeOK, PollTimer, CheckFrame, listenerVars, registryVars,
                        sessionVars, historyVars
  <2>4. Draining'
    BY <1>3, <1>4, <1>5, <2>1, <2>2 DEF IInv, Draining, Looked
  <2>5. Answer'
    BY <1>3, <2>1, <2>2 DEF IInv, Answer
  <2> QED
    BY <1>2, <2>3, <2>4, <2>5 DEF IInv
<1>8. CASE LoadExpired(k)
  <2>1. chain'[k] = "finish" /\ chain[k] = "empty" /\ drained'[k] = ~drain_deadline_expired
    BY <1>8 DEF LoadExpired, IInv, TypeOK
  <2>2. UNCHANGED <<drain_timer, drain_finished, on_complete>>
    BY <1>8 DEF LoadExpired
  <2>3. TypeOK'
    <3>1. /\ chain' \in [Chains -> {"off", "check", "poll", "empty", "finish"}]
          /\ drained' \in [Chains -> BOOLEAN]
      BY <1>8 DEF IInv, TypeOK, LoadExpired
    <3> QED
      BY <1>8, <3>1 DEF IInv, TypeOK, LoadExpired, CheckFrame, listenerVars, registryVars,
                        sessionVars, historyVars
  <2>4. Draining'
    BY <1>3, <1>4, <1>5, <2>1, <2>2 DEF IInv, Draining, Looked
  <2>5. Answer'
    <3>1. drained'[k] => forced = {}
      BY <2>1 DEF IInv, Answer
    <3> QED
      BY <1>3, <2>1, <2>2, <3>1 DEF IInv, Answer
  <2> QED
    BY <1>2, <2>3, <2>4, <2>5 DEF IInv
<1>9. CASE FinishDrain(k)
  <2>1. chain'[k] = "off" /\ chain[k] = "finish" /\ ~drained'[k]
    BY <1>9 DEF FinishDrain, IInv, TypeOK
  <2>2. sessions = {} /\ (drained[k] => forced = {}) /\ drained[k] \in BOOLEAN
    BY <2>1 DEF IInv, Draining, Looked, Answer, TypeOK
  <2>3. CASE drain_finished
    <3>1. UNCHANGED <<drain_timer, drain_finished, on_complete>>
      BY <1>9, <2>3 DEF FinishDrain
    <3>2. TypeOK'
      <4>1. /\ chain' \in [Chains -> {"off", "check", "poll", "empty", "finish"}]
            /\ drained' \in [Chains -> BOOLEAN]
        BY <1>9 DEF IInv, TypeOK, FinishDrain
      <4> QED
        BY <1>9, <3>1, <4>1 DEF IInv, TypeOK, FinishDrain, CheckFrame, listenerVars, registryVars,
                                sessionVars, historyVars
    <3>3. Draining'
      BY <1>3, <1>4, <1>5, <2>1, <3>1 DEF IInv, Draining, Looked
    <3>4. Answer'
      BY <1>3, <2>1, <3>1 DEF IInv, Answer
    <3> QED
      BY <1>2, <3>2, <3>3, <3>4 DEF IInv
  <2>4. CASE ~drain_finished
    <3>1. /\ drain_finished' = TRUE /\ on_complete = <<>>
          /\ drain_timer' \in {"off", "expired"} /\ (drain_timer' # "off" => drain_timer' = drain_timer)
          /\ on_complete' = Append(on_complete, drained[k])
      BY <1>9, <2>4 DEF FinishDrain, IInv, Answer, TypeOK
    <3>2. on_complete' \in Seq(BOOLEAN) /\ Len(on_complete') = 1 /\ on_complete'[1] = drained[k]
      BY <2>2, <3>1
    <3>3. TypeOK'
      <4>1. /\ chain' \in [Chains -> {"off", "check", "poll", "empty", "finish"}]
            /\ drained' \in [Chains -> BOOLEAN]
        BY <1>9 DEF IInv, TypeOK, FinishDrain
      <4> QED
        BY <1>9, <3>1, <3>2, <4>1 DEF IInv, TypeOK, FinishDrain, CheckFrame, listenerVars,
                                      registryVars, sessionVars, historyVars
    <3>4. Draining'
      BY <1>3, <1>4, <1>5, <2>1, <2>2, <3>1 DEF IInv, Draining, Looked
    <3>5. Answer'
      BY <1>3, <2>1, <2>2, <3>1, <3>2 DEF IInv, Answer
    <3> QED
      BY <1>2, <3>3, <3>4, <3>5 DEF IInv
  <2> QED
    BY <2>3, <2>4
<1> QED
  BY <1>6, <1>7, <1>8, <1>9 DEF CheckStep

\* HttpServer::stop: it never runs while a drain is under way.
LEMMA StopServerKeeps ==
  ASSUME IInv, StopServer
  PROVE  IInv'
<1>1. Lifecycle' /\ Accounting' /\ RunOnce' /\ DrainedEarly'
  BY SameSessions DEF IInv, StopServer, registryVars
<1>2. TypeOK'
  BY DEF IInv, TypeOK, StopServer, registryVars, sessionVars, checkVars, historyVars
<1>3. Draining'
  BY DEF IInv, Draining, Looked, StopServer, registryVars, checkVars
<1>4. Answer'
  BY DEF IInv, Answer, StopServer, sessionVars, checkVars, historyVars
<1> QED
  BY <1>1, <1>2, <1>3, <1>4 DEF IInv

LEMMA StopDrainingKeeps ==
  ASSUME IInv, StopDraining
  PROVE  IInv'
<1>1. Lifecycle' /\ Accounting' /\ RunOnce' /\ DrainedEarly'
  BY SameSessions DEF IInv, StopDraining, listenerVars
<1>2. TypeOK'
  BY DEF IInv, TypeOK, StopDraining, listenerVars, sessionVars, checkVars, historyVars
<1>3. Draining'
  BY DEF IInv, Draining, Looked, StopDraining, checkVars
<1>4. Answer'
  BY DEF IInv, Answer, StopDraining, sessionVars, checkVars, historyVars
<1> QED
  BY <1>1, <1>2, <1>3, <1>4 DEF IInv

LEMMA StopNotifyKeeps ==
  ASSUME IInv, StopNotify
  PROVE  IInv'
<1> DEFINE c == IF stop_pc = "notify" THEN "drain" ELSE "stop"
<1>1. c \in Calls \ {"run"} /\ c # "deadline" /\ ToLiveSessions(c)
  BY DEF StopNotify, Calls
<1> HIDE DEF c
<1>2. /\ inbox' \in [Sessions -> Seq(Calls)]
      /\ Lifecycle' /\ Accounting' /\ RunOnce' /\ DrainedEarly'
      /\ ~drain_deadline_expired =>
           \A t \in Sessions : \A i \in 1 .. Len(inbox'[t]) : inbox'[t][i] # "deadline"
  BY <1>1, CallSent DEF StopNotify, listenerVars
<1>3. TypeOK'
  <2>1. inbox' \in [Sessions -> Seq({"run", "drain", "stop", "deadline"})]
    BY <1>2 DEF Calls
  <2> QED
    BY <2>1 DEF IInv, TypeOK, StopNotify, listenerVars, registryVars, checkVars, historyVars
<1>4. Draining'
  BY DEF IInv, Draining, Looked, StopNotify, registryVars, checkVars
<1>5. Answer'
  BY <1>2 DEF IInv, Answer, StopNotify, checkVars, historyVars
<1> QED
  BY <1>2, <1>3, <1>4, <1>5 DEF IInv

-----------------------------------------------------------------------------
(* The specification *)

LEMMA InitKeeps == Init => IInv
<1> SUFFICES ASSUME Init PROVE IInv
  OBVIOUS
<1>1. TypeOK
  <2>1. inbox \in [Sessions -> Seq({"run", "drain", "stop", "deadline"})] /\ on_complete \in Seq(BOOLEAN)
    BY DEF Init
  <2>2. /\ state \in [Sessions -> {"Created", "Running", "Draining", "Closed"}]
        /\ pc \in [Sessions -> {"unborn", "connected", "reading", "responding", "writing_error",
                                "finished"}]
        /\ reading \in [Sessions -> BOOLEAN]
    BY DEF Init
  <2>3. /\ chain \in [Chains -> {"off", "check", "poll", "empty", "finish"}]
        /\ drained \in [Chains -> BOOLEAN]
    BY DEF Init
  <2>4. /\ accept_pc = "accept" /\ accepted = NoSession /\ sessions = {}
        /\ closed_count = 0 /\ active_connections = 0 /\ forced = {} /\ early = {}
        /\ listener_stop \in BOOLEAN /\ listener_stopping \in BOOLEAN /\ registry_draining \in BOOLEAN
    BY DEF Init
  <2>5. /\ drain_pc = "idle" /\ draining \in BOOLEAN /\ drain_timer = "off"
        /\ drain_deadline_expired \in BOOLEAN /\ drain_finished \in BOOLEAN /\ stop_pc = "idle"
    BY DEF Init
  <2> QED
    BY <2>1, <2>2, <2>3, <2>4, <2>5 DEF TypeOK
<1>2. \A s \in Sessions : Fresh(s) /\ ~Refused(s)
  BY DEF Init, Fresh, Refused
<1>3. Lifecycle
  BY <1>2, SessionNames DEF Init, Lifecycle, Registered
<1>4. Accounting
  <2>1. Ended = {}
    BY <1>2 DEF Init, Ended
  <2>2. IsFiniteSet({}) /\ Cardinality({}) = 0
    BY FS_EmptySet
  <2> QED
    BY <2>1, <2>2, SessionLimits DEF Init, Accounting
<1>5. RunOnce /\ DrainedEarly
  BY DEF Init, RunOnce, DrainedEarly
<1>6. Draining
  BY DEF Init, Draining, Looked, Chains
<1>7. Answer
  BY DEF Init, Answer
<1> QED
  BY <1>1, <1>3, <1>4, <1>5, <1>6, <1>7 DEF IInv

LEMMA NextKeeps == IInv /\ [Next]_vars => IInv'
<1> SUFFICES ASSUME IInv, [Next]_vars PROVE IInv'
  OBVIOUS
<1>1. ASSUME NEW s \in Sessions, Connect(s) \/ SessionStep(s) \/ Dispatched(s)
      PROVE  IInv'
  <2>1. CASE Connect(s)
    BY <2>1, ConnectKeeps
  <2>2. CASE SessionStep(s) \/ Dispatched(s)
    <3>1. IsStrandStep(s)
      BY <2>2, SessionStepIsStrandStep, DispatchedIsStrandStep
    <3> QED
      BY <3>1, StrandKeeps DEF IsStrandStep
  <2> QED
    BY <1>1, <2>1, <2>2
<1>2. CASE ListenerStep \/ AcceptFails
  BY <1>2, TryAddTakes, TryAddRefuses, ConnectionAcceptedKeeps, StartKeeps, AcceptLoopKeeps
     DEF ListenerStep
<1>3. CASE BeginDrain \/ StopServer \/ DrainStep
  BY <1>3, BeginDrainKeeps, StopServerKeeps, RegistryDrainingKeeps, NotifySessionsKeeps,
     GraceExpiresKeeps, ForceCloseAllKeeps, StopDrainingKeeps, StopNotifyKeeps DEF DrainStep
<1>4. ASSUME NEW k \in Chains, CheckStep(k)
      PROVE  IInv'
  BY <1>4, CheckStepKeeps
<1>5. CASE UNCHANGED vars
  <2>1. UNCHANGED <<listenerVars, registryVars, sessionVars, serverVars, historyVars>>
    BY <1>5 DEF vars
  <2>2. Lifecycle' /\ Accounting' /\ RunOnce' /\ DrainedEarly'
    BY <2>1, SameSessions DEF IInv, listenerVars, registryVars
  <2>3. Draining' /\ Answer'
    BY <2>1, SameDrain DEF IInv, registryVars, sessionVars, historyVars
  <2>4. TypeOK'
    BY <2>1 DEF IInv, TypeOK, listenerVars, registryVars, sessionVars, serverVars, checkVars, historyVars
  <2> QED
    BY <2>2, <2>3, <2>4 DEF IInv
<1> QED
  BY <1>1, <1>2, <1>3, <1>4, <1>5 DEF Next

\* Where sessions can be, what the registry and the counters say of them, and how far
\* a drain has come, together, are an inductive invariant of the server.
THEOREM Inductive == Spec => []IInv
  BY InitKeeps, NextKeeps, PTL DEF Spec

\* The registry respects its limit, every session is counted once, and the gauge agrees
\* with the registry (SessionRegistry, HttpSession::closeInExecutor), for any number of
\* connections.
THEOREM Accounted == Spec => []SessionsAccounted
<1>1. IInv => SessionsAccounted
  BY DEF IInv, Accounting, SessionsAccounted, Ended, Refused
<1> QED
  BY <1>1, Inductive, PTL

\* The completion callback of a drain runs at most once and says true only when no
\* session was closed because the grace ran out (HttpServer::finishDrain).
THEOREM TrueMeansUnforced == Spec => []DrainedMeansUnforced
<1>1. IInv => DrainedMeansUnforced
  <2> SUFFICES ASSUME IInv PROVE DrainedMeansUnforced
    OBVIOUS
  <2>1. on_complete \in Seq(BOOLEAN) /\ DOMAIN on_complete = 1 .. Len(on_complete)
    BY DEF IInv, TypeOK
  <2>2. CASE drain_finished
    <3>1. Len(on_complete) = 1 /\ (on_complete[1] => forced = {})
      BY <2>2 DEF IInv, Answer
    <3>2. \A i \in DOMAIN on_complete : i = 1
      BY <2>1, <3>1
    <3> QED
      BY <3>1, <3>2 DEF DrainedMeansUnforced
  <2>3. CASE ~drain_finished
    <3>1. on_complete = <<>>
      BY <2>3 DEF IInv, Answer
    <3>2. Len(on_complete) = 0 /\ DOMAIN on_complete = {}
      BY <2>1, <3>1
    <3> QED
      BY <3>2 DEF DrainedMeansUnforced
  <2> QED
    BY <2>2, <2>3
<1> QED
  BY <1>1, Inductive, PTL

\* A session that drains waits for a request only if the drain came before the first
\* handler of run() (HttpSession::beginDrainInExecutor).
THEOREM OnlyEarlyDrainsRead == Spec => []DrainingReadersStartedLate
<1>1. IInv => DrainingReadersStartedLate
  BY DEF IInv, Lifecycle, DrainedEarly, DrainingReadersStartedLate
<1> QED
  BY <1>1, Inductive, PTL

-----------------------------------------------------------------------------
(* DrainContract *)

Phase == IF drain_finished THEN "done"
         ELSE IF draining /\ registry_draining THEN "draining" ELSE "serving"

LEMMA ContractStutters ==
  ASSUME sessions' = sessions, Phase' = Phase
  PROVE  [Contract!ContractNext]_(Contract!contractVars)
  BY DEF Contract!contractVars, Phase

LEMMA PhaseStays ==
  ASSUME UNCHANGED <<drain_finished, draining, registry_draining>>
  PROVE  Phase' = Phase
  BY DEF Phase

\* A handler of a session is a stutter or the session's leaving.
LEMMA StrandRefines ==
  ASSUME IInv, NEW s \in Sessions, NEW p, NEW st, NEW ib, StrandStep(s, p, st, ib)
  PROVE  [Contract!ContractNext]_(Contract!contractVars)
<1>1. Phase' = Phase
  BY PhaseStays DEF StrandStep, serverVars, checkVars
<1>2. CASE st = "Closed" /\ state[s] # "Closed"
  <2>1. sessions' = sessions \ {s} /\ s \in sessions
    BY <1>2 DEF StrandStep, IInv, Lifecycle
  <2>2. Contract!Leave(s)
    BY <1>1, <2>1 DEF Contract!Leave, Phase
  <2> QED
    BY <2>2 DEF Contract!ContractNext
<1>3. CASE ~(st = "Closed" /\ state[s] # "Closed")
  BY <1>1, <1>3, ContractStutters DEF StrandStep
<1> QED
  BY <1>2, <1>3

\* The factory admits a session only while the server serves.
LEMMA ListenerRefines ==
  ASSUME IInv, ListenerStep \/ AcceptFails
  PROVE  [Contract!ContractNext]_(Contract!contractVars)
<1>1. CASE TryAdd /\ ~TryAddRefused
  <2>1. /\ accepted \in Sessions /\ accepted \notin sessions /\ sessions' = sessions \cup {accepted}
        /\ ~registry_draining /\ UNCHANGED <<registry_draining, serverVars>>
    BY <1>1, TryAddTakes
  <2>2. Phase = "serving" /\ Phase' = Phase
    <3>1. ~drain_finished
      BY <2>1 DEF IInv, Draining, TypeOK
    <3> QED
      BY <2>1, <3>1 DEF Phase, serverVars, checkVars
  <2>3. Contract!Admit(accepted)
    BY <2>1, <2>2 DEF Contract!Admit, Phase
  <2> QED
    BY <2>1, <2>3 DEF Contract!ContractNext
<1>2. CASE TryAdd /\ TryAddRefused
  <2>1. UNCHANGED <<sessions, registry_draining, serverVars>>
    BY <1>2, TryAddRefuses
  <2> QED
    BY <2>1, PhaseStays, ContractStutters DEF serverVars, checkVars
<1>3. CASE ConnectionAccepted \/ Start \/ AcceptNext \/ AcceptFails \/ RetryTimer \/ StopListener
  <2>1. UNCHANGED <<sessions, registry_draining, serverVars>>
    BY <1>3 DEF ConnectionAccepted, Start, AcceptNext, AcceptFails, RetryTimer, StopListener, registryVars
  <2> QED
    BY <2>1, PhaseStays, ContractStutters DEF serverVars, checkVars
<1> QED
  BY <1>1, <1>2, <1>3 DEF ListenerStep

\* A drain begins when both the server's and the registry's flag are up; a stop raises
\* the registry's alone.
LEMMA DrainRefines ==
  ASSUME IInv, BeginDrain \/ StopServer \/ DrainStep
  PROVE  [Contract!ContractNext]_(Contract!contractVars)
<1>1. CASE BeginDrain
  <2>1. ~draining /\ draining' /\ UNCHANGED <<sessions, registry_draining, drain_finished>>
    BY <1>1 DEF BeginDrain, registryVars, checkVars
  <2>2. ~drain_finished
    BY <2>1 DEF IInv, Draining
  <2>3. CASE registry_draining
    <3>1. Contract!BeginToDrain
      BY <2>1, <2>2, <2>3 DEF Contract!BeginToDrain
    <3> QED
      BY <3>1 DEF Contract!ContractNext
  <2>4. CASE ~registry_draining
    <3>1. Phase' = Phase
      BY <2>1, <2>2, <2>4 DEF Phase
    <3> QED
      BY <2>1, <3>1, ContractStutters
  <2> QED
    BY <2>3, <2>4
<1>2. CASE RegistryDraining
  <2>1. drain_pc = "flag" /\ registry_draining' /\ UNCHANGED <<sessions, draining, drain_finished>>
    BY <1>2 DEF RegistryDraining, checkVars
  <2>2. ~drain_finished /\ draining
    BY <2>1 DEF IInv, Draining
  <2>3. CASE ~registry_draining
    <3>1. Contract!BeginToDrain
      BY <2>1, <2>2, <2>3 DEF Contract!BeginToDrain
    <3> QED
      BY <3>1 DEF Contract!ContractNext
  <2>4. CASE registry_draining
    <3>1. Phase' = Phase
      BY <2>1, <2>2, <2>4 DEF Phase
    <3> QED
      BY <2>1, <3>1, ContractStutters
  <2> QED
    BY <2>3, <2>4
<1>3. CASE StopDraining
  <2>1. stop_pc = "flag" /\ registry_draining' /\ UNCHANGED <<sessions, draining, drain_finished>>
    BY <1>3 DEF StopDraining, checkVars
  <2>2. ~draining \/ drain_finished
    BY <2>1 DEF IInv, Draining
  <2>3. Phase' = Phase
    BY <2>1, <2>2 DEF Phase
  <2> QED
    BY <2>1, <2>3, ContractStutters
<1>4. CASE StopServer \/ NotifySessions \/ GraceExpires \/ ForceCloseAll \/ StopNotify
  <2>1. UNCHANGED <<sessions, registry_draining, draining, drain_finished>>
    BY <1>4 DEF StopServer, NotifySessions, GraceExpires, ForceCloseAll, StopNotify, registryVars, checkVars
  <2> QED
    BY <2>1, PhaseStays, ContractStutters
<1> QED
  BY <1>1, <1>2, <1>3, <1>4 DEF DrainStep

\* The drain completes when the registry is empty, and only the first check completes it.
LEMMA CheckRefines ==
  ASSUME IInv, NEW k \in Chains, CheckStep(k)
  PROVE  [Contract!ContractNext]_(Contract!contractVars)
<1>1. UNCHANGED <<sessions, registry_draining, draining>>
  BY DEF CheckStep, CheckDrain, PollTimer, LoadExpired, FinishDrain, CheckFrame, registryVars
<1>2. CASE FinishDrain(k) /\ ~drain_finished
  <2>1. chain[k] = "finish" /\ drain_finished'
    BY <1>2 DEF FinishDrain
  <2>2. sessions = {} /\ draining /\ registry_draining
    BY <2>1 DEF IInv, Draining, Looked, TypeOK
  <2>3. Contract!Complete
    BY <1>1, <1>2, <2>1, <2>2 DEF Contract!Complete
  <2> QED
    BY <2>3 DEF Contract!ContractNext
<1>3. CASE ~(FinishDrain(k) /\ ~drain_finished)
  <2>1. drain_finished' = drain_finished
    BY <1>3 DEF CheckStep, CheckDrain, PollTimer, LoadExpired, FinishDrain
  <2> QED
    BY <1>1, <2>1, PhaseStays, ContractStutters
<1> QED
  BY <1>2, <1>3

LEMMA StepRefines == IInv /\ [Next]_vars => [Contract!ContractNext]_(Contract!contractVars)
<1> SUFFICES ASSUME IInv, [Next]_vars PROVE [Contract!ContractNext]_(Contract!contractVars)
  OBVIOUS
<1>1. ASSUME NEW s \in Sessions, Connect(s) \/ SessionStep(s) \/ Dispatched(s)
      PROVE  [Contract!ContractNext]_(Contract!contractVars)
  <2>1. CASE Connect(s)
    <3>1. UNCHANGED <<sessions, registry_draining, serverVars>>
      BY <2>1 DEF Connect, registryVars
    <3> QED
      BY <3>1, PhaseStays, ContractStutters DEF serverVars, checkVars
  <2>2. CASE SessionStep(s) \/ Dispatched(s)
    <3>1. PICK p, st, ib : StrandStep(s, p, st, ib)
      BY <2>2, SessionStepIsStrandStep, DispatchedIsStrandStep DEF IsStrandStep
    <3> QED
      BY <3>1, StrandRefines
  <2> QED
    BY <1>1, <2>1, <2>2
<1>2. CASE UNCHANGED vars
  <2>1. UNCHANGED <<sessions, registry_draining, draining, drain_finished>>
    BY <1>2 DEF vars, registryVars, serverVars, checkVars
  <2> QED
    BY <2>1, PhaseStays, ContractStutters
<1> QED
  BY <1>1, <1>2, ListenerRefines, DrainRefines, CheckRefines DEF Next

\* The steps of KeepsDrainContract: HttpServer admits nobody to a draining registry,
\* and completes a drain once, when the last session has left it.  (That the drain
\* ends is the fairness part of KeepsDrainContract.)
THEOREM RefinesContract ==
  Spec => Contract!ContractInit /\ [][Contract!ContractNext]_(Contract!contractVars)
<1>1. Init => Contract!ContractInit
  BY DEF Init, Contract!ContractInit
<1> QED
  BY <1>1, StepRefines, Inductive, PTL DEF Spec
=============================================================================
