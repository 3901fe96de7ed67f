------------------------- MODULE EventLedgerProofs -------------------------
(***************************************************************************)
(* Proofs about EventLedger, for every number of processes and events and  *)
(* every value of the time constants that satisfies LedgerAssumption.      *)
(***************************************************************************)
EXTENDS EventLedger, TLAPS

(* The type invariant is inductive by itself. *)
LEMMA TypeStep == TypeOK /\ [Next]_ledgerVars => TypeOK'
<1> SUFFICES ASSUME TypeOK, [Next]_ledgerVars PROVE TypeOK'
  OBVIOUS
<1> USE LedgerAssumption DEF TypeOK, Row, Ages, Phases, Events, Absent, Fresh, Older
<1>1. CASE Tick
  <2>1. processed' \in [Events -> Row]
    BY <1>1 DEF Tick
  <2>2. /\ sinceMaintenance' \in Ages
        /\ held' \in [Workers -> Ages]
        /\ finished' \in [Events -> Ages]
    BY <1>1 DEF Tick
  <2>3. overrun' \subseteq Events
    BY <1>1 DEF Tick, Outliving
  <2>4. faults' \in 0 .. MaxFaults
    BY <1>1 DEF Tick
  <2> QED BY <1>1, <2>1, <2>2, <2>3, <2>4 DEF Tick
<1>2. ASSUME NEW w \in Workers, NEW e \in Events, Receive(w, e) PROVE TypeOK'
  BY <1>2 DEF Receive
<1>3. ASSUME NEW w \in Workers, Maintain(w) PROVE TypeOK'
  BY <1>3 DEF Maintain
<1>4. ASSUME NEW w \in Workers, Claim(w) PROVE TypeOK'
  BY <1>4 DEF Claim
<1>5. ASSUME NEW w \in Workers, Duplicate(w) PROVE TypeOK'
  BY <1>5 DEF Duplicate, Leave, OverrunWithout
<1>6. ASSUME NEW w \in Workers, Complete(w) PROVE TypeOK'
  <2>1. job[w] \in Events
    BY <1>6 DEF Complete
  <2> QED BY <1>6, <2>1 DEF Complete, Completed, Leave, OverrunWithout
<1>7. ASSUME NEW w \in Workers, Fail(w) PROVE TypeOK'
  BY <1>7 DEF Fail, Released, Leave, OverrunWithout
<1>8. ASSUME NEW w \in Workers, Crash(w) PROVE TypeOK'
  BY <1>8 DEF Crash, Leave, OverrunWithout
<1>9. ASSUME NEW w \in Workers, Restart(w) PROVE TypeOK'
  BY <1>9 DEF Restart
<1>10. CASE UNCHANGED ledgerVars
  BY <1>10 DEF ledgerVars
<1> QED
  BY <1>1, <1>2, <1>3, <1>4, <1>5, <1>6, <1>7, <1>8, <1>9, <1>10
  DEF Next, WorkerStep

(* Every reachable state of the ledger is well typed. *)
THEOREM TypeCorrect == Spec => []TypeOK
<1>1. Init => TypeOK
  BY LedgerAssumption DEF Init, TypeOK, Row, Ages, Phases, Events, Absent
<1> QED BY <1>1, TypeStep, PTL DEF Spec

-----------------------------------------------------------------------------
(* Outside of an overrun the ledger is a lock: the row of an event stays    *)
(* the handler's own until it ends, because its claim is younger than the   *)
(* TTL.                                                                     *)
HeldInBound ==
  \A w \in Workers : phase[w] = "handling" /\ job[w] \notin overrun =>
    held[w] < ClaimTtl

(* A handling that ended in order within the retention period left the row  *)
(* complete, and the row is as old as the end of that handling.             *)
FinishedIsComplete ==
  \A m \in Messages : finished[m] <= Retention =>
    processed[m] = [status |-> "complete", age |-> finished[m]]

LedgerInv ==
  /\ TypeOK
  /\ HeldInBound
  /\ HandlerOwnsClaim
  /\ ExclusiveHandling
  /\ FinishedIsComplete

LEMMA InitTypeOK == Init => TypeOK
  BY LedgerAssumption DEF Init, TypeOK, Row, Ages, Phases, Events, Absent

LEMMA InitInv == Init => LedgerInv
<1> SUFFICES ASSUME Init PROVE LedgerInv
  OBVIOUS
<1>1. HeldInBound /\ HandlerOwnsClaim /\ ExclusiveHandling
  BY DEF Init, HeldInBound, HandlerOwnsClaim, ExclusiveHandling, Handling
<1>2. FinishedIsComplete
  BY LedgerAssumption DEF Init, FinishedIsComplete, Events
<1> QED BY <1>1, <1>2, InitTypeOK DEF LedgerInv

(* A handler whose event is in no overrun owns the row, and its claim is    *)
(* younger than the TTL.                                                    *)
LEMMA HandlerClaim ==
  ASSUME LedgerInv, NEW w \in Workers, phase[w] = "handling", job[w] \notin overrun
  PROVE  /\ job[w] \in Events
         /\ processed[job[w]] = [status |-> "claimed", age |-> held[w]]
         /\ processed[job[w]].status = "claimed"
         /\ held[w] \in Nat /\ held[w] < ClaimTtl
<1>1. TypeOK /\ HeldInBound /\ HandlerOwnsClaim
  BY DEF LedgerInv
<1>2. job[w] \in Events
  BY <1>1 DEF TypeOK
<1>3. processed[job[w]] = [status |-> "claimed", age |-> held[w]]
  BY <1>1 DEF HandlerOwnsClaim
<1>4. held[w] \in Nat /\ held[w] < ClaimTtl
  BY <1>1, LedgerAssumption DEF TypeOK, Ages, HeldInBound
<1>5. processed[job[w]].status = "claimed"
  BY <1>3
<1> QED BY <1>2, <1>3, <1>4, <1>5

(* Outside of an overrun nothing but its handler can be given the row of an *)
(* event, because the claim has not expired.                                *)
LEMMA ClaimIsFree ==
  ASSUME LedgerInv, NEW w \in Workers, NEW e \in Events \ overrun,
         processed[e].status = "absent" \/ ClaimExpired(e)
  PROVE  ~Handling(w, e)
<1> SUFFICES ASSUME Handling(w, e) PROVE FALSE
  OBVIOUS
<1>1. /\ processed[e] = [status |-> "claimed", age |-> held[w]]
      /\ held[w] \in Nat /\ held[w] < ClaimTtl
  BY HandlerClaim DEF Handling
<1> QED BY <1>1, LedgerAssumption DEF ClaimExpired

(* When process v drops its event, the others keep theirs, and every event  *)
(* that leaves overrun has no handler left.                                 *)
LEMMA OthersStay ==
  ASSUME TypeOK, NEW v \in Workers, NEW p \in {"idle", "down"}, Leave(v, p),
         NEW w \in Workers, phase'[w] = "handling", job'[w] \notin overrun'
  PROVE  /\ phase[w] = "handling" /\ w # v
         /\ job'[w] = job[w] /\ held'[w] = held[w]
         /\ job[w] \in Events \ overrun
<1>1. phase[w] = "handling" /\ w # v
  BY DEF Leave, TypeOK
<1>2. job'[w] = job[w] /\ held'[w] = held[w] /\ job[w] \in Events
  BY <1>1 DEF Leave, TypeOK
<1>3. job[w] \notin overrun
  BY <1>1, <1>2 DEF Leave, OverrunWithout, Handling
<1> QED BY <1>1, <1>2, <1>3

(* ... and if the rows outside of overruns but that of its own event stay,  *)
(* the handlers that are left are as they were.                             *)
LEMMA OthersKeepClaims ==
  ASSUME LedgerInv, NEW v \in Workers, NEW p \in {"idle", "down"}, Leave(v, p),
         \A e \in Events \ overrun :
           processed'[e] = processed[e] \/ (phase[v] = "handling" /\ e = job[v])
  PROVE  HeldInBound' /\ HandlerOwnsClaim' /\ ExclusiveHandling'
<1>0. TypeOK
  BY DEF LedgerInv
<1>1. \A w \in Workers : phase'[w] = "handling" /\ job'[w] \notin overrun' =>
        /\ phase[w] = "handling" /\ w # v
        /\ job'[w] = job[w] /\ held'[w] = held[w]
        /\ job[w] \in Events \ overrun
  BY <1>0, OthersStay
<1>2. HeldInBound'
  BY <1>1 DEF LedgerInv, HeldInBound
<1>3. ExclusiveHandling'
  BY <1>1 DEF LedgerInv, ExclusiveHandling, Handling
<1>4. \A w \in Workers : phase'[w] = "handling" /\ job'[w] \notin overrun' =>
        processed'[job[w]] = processed[job[w]]
  BY <1>1 DEF LedgerInv, ExclusiveHandling, Handling
<1>5. HandlerOwnsClaim'
  BY <1>1, <1>4 DEF LedgerInv, HandlerOwnsClaim
<1> QED BY <1>2, <1>3, <1>5

LEMMA InvStep == LedgerInv /\ [Next]_ledgerVars => LedgerInv'
<1> SUFFICES ASSUME LedgerInv, [Next]_ledgerVars PROVE LedgerInv'
  OBVIOUS
<1>0. TypeOK /\ TypeOK'
  BY TypeStep DEF LedgerInv
<1> USE LedgerAssumption
<1>1. CASE Tick
  <2>0. \A w \in Workers : phase'[w] = "handling" /\ job'[w] \notin overrun' =>
          /\ phase[w] = "handling" /\ job[w] \notin overrun /\ job'[w] = job[w]
          /\ held'[w] = Older(held[w]) /\ Older(held[w]) < ClaimTtl
    <3> SUFFICES ASSUME NEW w \in Workers, phase'[w] = "handling", job'[w] \notin overrun'
                 PROVE  /\ phase[w] = "handling" /\ job[w] \notin overrun /\ job'[w] = job[w]
                        /\ held'[w] = Older(held[w]) /\ Older(held[w]) < ClaimTtl
      OBVIOUS
    <3>1. /\ phase[w] = "handling" /\ job[w] \notin overrun /\ job'[w] = job[w]
          /\ held'[w] = Older(held[w]) /\ job[w] \notin Outliving
      BY <1>1 DEF Tick
    <3>2. ~(Older(held[w]) >= ClaimTtl)
      BY <3>1 DEF Outliving
    <3>3. Older(held[w]) \in Nat
      BY <1>0 DEF TypeOK, Ages, Older
    <3> QED BY <3>1, <3>2, <3>3
  <2>1. HeldInBound'
    BY <2>0 DEF HeldInBound
  <2>2. HandlerOwnsClaim'
    <3> SUFFICES ASSUME NEW w \in Workers, phase'[w] = "handling", job'[w] \notin overrun'
                 PROVE  processed'[job'[w]] = [status |-> "claimed", age |-> held'[w]]
      BY DEF HandlerOwnsClaim
    <3>1. phase[w] = "handling" /\ job[w] \notin overrun /\ job'[w] = job[w]
      BY <2>0
    <3>2. job[w] \in Events /\ processed[job[w]] = [status |-> "claimed", age |-> held[w]]
      BY <3>1, HandlerClaim
    <3>3. held'[w] = Older(held[w])
      BY <2>0
    <3> QED BY <1>1, <3>1, <3>2, <3>3 DEF Tick
  <2>3. ExclusiveHandling'
    BY <1>1 DEF LedgerInv, ExclusiveHandling, Handling, Tick
  <2>4. FinishedIsComplete'
    <3> SUFFICES ASSUME NEW m \in Messages, finished'[m] <= Retention
                 PROVE  processed'[m] = [status |-> "complete", age |-> finished'[m]]
      BY DEF FinishedIsComplete
    <3>1. m \in Events
      BY DEF Events
    <3>2. finished'[m] = Older(finished[m]) /\ finished[m] \in Ages
      BY <1>0, <1>1, <3>1 DEF Tick, TypeOK
    <3>3. finished[m] <= Retention
      BY <3>2 DEF Older, Ages
    <3>4. processed[m] = [status |-> "complete", age |-> finished[m]]
      BY <3>3 DEF LedgerInv, FinishedIsComplete
    <3> QED BY <1>1, <3>1, <3>2, <3>4 DEF Tick
  <2> QED BY <1>0, <2>1, <2>2, <2>3, <2>4 DEF LedgerInv
<1>2. ASSUME NEW w \in Workers, NEW e \in Events, Receive(w, e) PROVE LedgerInv'
  BY <1>0, <1>2
  DEF LedgerInv, TypeOK, HeldInBound, HandlerOwnsClaim, ExclusiveHandling, Handling,
      FinishedIsComplete, Receive
<1>3. ASSUME NEW w \in Workers, Maintain(w) PROVE LedgerInv'
  <2>1. \A v \in Workers : phase'[v] = "handling" <=> phase[v] = "handling"
    BY <1>0, <1>3 DEF Maintain, TypeOK
  <2>2. \A v \in Workers : phase[v] = "handling" /\ job[v] \notin overrun =>
          processed'[job[v]] = processed[job[v]]
    <3> SUFFICES ASSUME NEW v \in Workers, phase[v] = "handling", job[v] \notin overrun
                 PROVE  processed'[job[v]] = processed[job[v]]
      OBVIOUS
    <3>1. /\ job[v] \in Events
          /\ processed[job[v]] = [status |-> "claimed", age |-> held[v]]
          /\ held[v] \in Nat /\ held[v] < ClaimTtl
      BY HandlerClaim
    <3>2. ~Stale(job[v])
      BY <3>1 DEF Stale, ClaimExpired
    <3> QED BY <1>3, <3>1, <3>2 DEF Maintain
  <2>3. FinishedIsComplete'
    <3> SUFFICES ASSUME NEW m \in Messages, finished[m] <= Retention
                 PROVE  processed'[m] = [status |-> "complete", age |-> finished[m]]
      BY <1>3 DEF FinishedIsComplete, Maintain
    <3>1. m \in Events /\ m \notin Checkpoints /\ finished[m] \in Ages
      BY <1>0 DEF Events, TypeOK
    <3>2. processed[m] = [status |-> "complete", age |-> finished[m]]
      BY DEF LedgerInv, FinishedIsComplete
    <3>3. ~Stale(m)
      BY <3>1, <3>2 DEF Stale, ClaimExpired, Ages
    <3> QED BY <1>3, <3>1, <3>2, <3>3 DEF Maintain
  <2>4. UNCHANGED <<job, held, overrun>>
    BY <1>3 DEF Maintain
  <2>5. HeldInBound' /\ ExclusiveHandling'
    BY <2>1, <2>4 DEF LedgerInv, HeldInBound, ExclusiveHandling, Handling
  <2>6. HandlerOwnsClaim'
    BY <2>1, <2>2, <2>4 DEF LedgerInv, HandlerOwnsClaim
  <2> QED BY <1>0, <2>3, <2>5, <2>6 DEF LedgerInv
<1>4. ASSUME NEW w \in Workers, Claim(w) PROVE LedgerInv'
  <2> DEFINE e == job[w]
  <2>1. e \in Events
    BY <1>0, <1>4 DEF Claim, TypeOK
  <2>2. e \notin overrun => \A v \in Workers : ~Handling(v, e)
    BY <1>4, <2>1, ClaimIsFree DEF Claim
  <2>3. HeldInBound'
    BY <1>0, <1>4, <2>1 DEF Claim, LedgerInv, TypeOK, HeldInBound
  <2>4. ExclusiveHandling'
    BY <1>0, <1>4, <2>1, <2>2
    DEF Claim, LedgerInv, TypeOK, ExclusiveHandling, Handling
  <2>5. HandlerOwnsClaim'
    BY <1>0, <1>4, <2>1, <2>2
    DEF Claim, LedgerInv, TypeOK, HandlerOwnsClaim, Handling, Fresh
  <2>6. FinishedIsComplete'
    BY <1>0, <1>4, <2>1
    DEF Claim, LedgerInv, TypeOK, FinishedIsComplete, ClaimExpired, Events
  <2> QED BY <1>0, <2>3, <2>4, <2>5, <2>6 DEF LedgerInv
<1>5. ASSUME NEW w \in Workers, Duplicate(w) PROVE LedgerInv'
  <2>1. Leave(w, "idle") /\ UNCHANGED <<processed, finished>>
    BY <1>5 DEF Duplicate
  <2>2. HeldInBound' /\ HandlerOwnsClaim' /\ ExclusiveHandling'
    BY <2>1, OthersKeepClaims
  <2>3. FinishedIsComplete'
    BY <2>1 DEF LedgerInv, FinishedIsComplete
  <2> QED BY <1>0, <2>2, <2>3 DEF LedgerInv
<1>7. ASSUME NEW w \in Workers, Complete(w) PROVE LedgerInv'
  <2>1. /\ phase[w] = "handling" /\ job[w] \in Events
        /\ Leave(w, "idle") /\ processed' = Completed(job[w])
        /\ finished' = [finished EXCEPT ![job[w]] =
                          IF job[w] \in overrun THEN @ ELSE 0]
    BY <1>0, <1>7 DEF Complete, TypeOK
  <2>2. \A e \in Events : e # job[w] => processed'[e] = processed[e]
    BY <1>0, <2>1 DEF Completed, TypeOK
  <2>3. HeldInBound' /\ HandlerOwnsClaim' /\ ExclusiveHandling'
    BY <2>1, <2>2, OthersKeepClaims
  <2>4. FinishedIsComplete'
    <3> SUFFICES ASSUME NEW m \in Messages, finished'[m] <= Retention
                 PROVE  processed'[m] = [status |-> "complete", age |-> finished'[m]]
      BY DEF FinishedIsComplete
    <3>1. m \in Events /\ m \notin Checkpoints
      BY DEF Events
    <3>2. CASE m = job[w] /\ m \notin overrun
      <4>1. processed[m].status = "claimed"
        BY <2>1, <3>2, HandlerClaim
      <4>2. processed'[m] = Fresh("complete") /\ finished'[m] = 0
        BY <1>0, <2>1, <3>1, <3>2, <4>1 DEF Completed, TypeOK
      <4> QED BY <4>2 DEF Fresh
    <3>3. CASE m # job[w] \/ m \in overrun
      <4>1. finished'[m] = finished[m]
        BY <1>0, <2>1, <3>1, <3>3 DEF TypeOK
      <4>2. processed[m] = [status |-> "complete", age |-> finished[m]]
        BY <4>1 DEF LedgerInv, FinishedIsComplete
      <4>3. processed[m].status # "claimed"
        BY <4>2
      <4>4. processed'[m] = processed[m]
        BY <2>1, <2>2, <3>1, <4>3 DEF Completed
      <4> QED BY <4>1, <4>2, <4>4
    <3> QED BY <3>2, <3>3
  <2> QED BY <1>0, <2>3, <2>4 DEF LedgerInv
<1>8. ASSUME NEW w \in Workers, Fail(w) PROVE LedgerInv'
  <2>1. /\ phase[w] = "handling" /\ job[w] \in Events
        /\ Leave(w, "down") /\ processed' = Released(job[w]) /\ UNCHANGED finished
    BY <1>0, <1>8 DEF Fail, TypeOK
  <2>2. \A e \in Events : e # job[w] => processed'[e] = processed[e]
    BY <1>0, <2>1 DEF Released, TypeOK
  <2>3. HeldInBound' /\ HandlerOwnsClaim' /\ ExclusiveHandling'
    BY <2>1, <2>2, OthersKeepClaims
  <2>4. \A e \in Events : processed[e].status # "claimed" => processed'[e] = processed[e]
    BY <2>1, <2>2 DEF Released
  <2>5. FinishedIsComplete'
    BY <2>1, <2>4 DEF LedgerInv, FinishedIsComplete, Events
  <2> QED BY <1>0, <2>3, <2>5 DEF LedgerInv
<1>9. ASSUME NEW w \in Workers, Crash(w) PROVE LedgerInv'
  <2>1. Leave(w, "down") /\ UNCHANGED <<processed, finished>>
    BY <1>9 DEF Crash
  <2>2. HeldInBound' /\ HandlerOwnsClaim' /\ ExclusiveHandling'
    BY <2>1, OthersKeepClaims
  <2>3. FinishedIsComplete'
    BY <2>1 DEF LedgerInv, FinishedIsComplete
  <2> QED BY <1>0, <2>2, <2>3 DEF LedgerInv
<1>10. ASSUME NEW w \in Workers, Restart(w) PROVE LedgerInv'
  BY <1>0, <1>10
  DEF LedgerInv, TypeOK, HeldInBound, HandlerOwnsClaim, ExclusiveHandling, Handling,
      FinishedIsComplete, Restart
<1>11. CASE UNCHANGED ledgerVars
  BY <1>0, <1>11
  DEF LedgerInv, HeldInBound, HandlerOwnsClaim, ExclusiveHandling, Handling,
      FinishedIsComplete, ledgerVars
<1> QED
  BY <1>1, <1>2, <1>3, <1>4, <1>5, <1>7, <1>8, <1>9, <1>10, <1>11
  DEF Next, WorkerStep

(* Two processes handle one event only during an overrun, whatever crashes, *)
(* restarts, redeliveries, take-overs and maintenance happen: claimEvent is *)
(* a lock for as long as no handler of the event has outlived its claim,    *)
(* and again once the handlers of an overrun have ended.                    *)
THEOREM Exclusion == Spec => []ExclusiveHandling
<1>1. LedgerInv /\ [Next]_ledgerVars => LedgerInv'
  BY InvStep
<1>2. LedgerInv => ExclusiveHandling
  BY DEF LedgerInv
<1> QED BY <1>1, <1>2, InitInv, PTL DEF Spec

(* completeEvent and releaseEvent, which name no owner, touch the claim of  *)
(* another process only during an overrun of the event.                     *)
THEOREM Ownership == Spec => []HandlerOwnsClaim
<1>1. LedgerInv /\ [Next]_ledgerVars => LedgerInv'
  BY InvStep
<1>2. LedgerInv => HandlerOwnsClaim
  BY DEF LedgerInv
<1> QED BY <1>1, <1>2, InitInv, PTL DEF Spec

(* A message whose handling ended in order is not handled again while its   *)
(* row is retained, whatever else overruns.                                 *)
THEOREM HandledOnce == Spec => NoRehandling
<1>1. ASSUME LedgerInv, [Next]_ledgerVars, NEW m \in Messages, NEW w \in Workers,
             ~Handling(w, m), Handling(w, m)'
      PROVE  finished[m] > Retention
  <2>1. Claim(w) /\ job[w] = m
    BY <1>1
    DEF LedgerInv, TypeOK, Handling, Next, WorkerStep, Tick, Receive, Maintain, Claim,
        Duplicate, Complete, Fail, Crash, Restart, Leave, ledgerVars
  <2>2. processed[m].status # "complete"
    BY <2>1 DEF Claim, ClaimExpired
  <2>3. finished[m] \in Nat /\ Retention \in Nat
    BY <1>1, LedgerAssumption DEF LedgerInv, TypeOK, Events, Ages
  <2>4. FinishedIsComplete
    BY <1>1 DEF LedgerInv
  <2>5. ASSUME finished[m] <= Retention PROVE processed[m].status = "complete"
    <3>1. processed[m] = [status |-> "complete", age |-> finished[m]]
      BY <2>4, <2>5 DEF FinishedIsComplete
    <3> QED BY <3>1
  <2> QED BY <2>2, <2>3, <2>5
<1>2. LedgerInv /\ [Next]_ledgerVars =>
        [\A m \in Messages : \A w \in Workers :
           ~Handling(w, m) /\ Handling(w, m)' => finished[m] > Retention]_ledgerVars
  BY <1>1
<1>3. LedgerInv /\ [Next]_ledgerVars => LedgerInv'
  BY InvStep
<1> QED BY <1>2, <1>3, InitInv, PTL DEF Spec, NoRehandling

(* Without any bound on handlers: stale ones too leave a complete row as    *)
(* it is.                                                                   *)
THEOREM CompletionIsFinal == Spec => CompleteIsFinal
<1>1. ASSUME TypeOK, [Next]_ledgerVars, NEW m \in Messages,
             processed[m].status = "complete", processed[m].age <= Retention
      PROVE  processed'[m].status = "complete"
  <2>1. m \in Events /\ m \notin Checkpoints
    BY LedgerAssumption DEF Events
  <2>2. ~Stale(m) /\ ~ClaimExpired(m)
    BY <1>1, <2>1, LedgerAssumption DEF Stale, ClaimExpired, TypeOK, Row, Ages
  <2> QED BY <1>1, <2>1, <2>2
      DEF TypeOK, Row, Next, WorkerStep, Tick, Receive, Maintain, Claim, Duplicate,
          Complete, Completed, Fail, Released, Crash, Restart, Leave, ledgerVars
<1>2. TypeOK /\ [Next]_ledgerVars =>
        [\A m \in Messages : processed[m].status = "complete" =>
           \/ processed'[m].status = "complete"
           \/ processed[m].age > Retention]_ledgerVars
  BY <1>1, LedgerAssumption DEF TypeOK, Row, Ages, Events
<1> QED BY <1>2, TypeCorrect, PTL DEF Spec, CompleteIsFinal

-----------------------------------------------------------------------------
(* The ledger with its clock implements the one without.                    *)

(* A process that handles nothing else is at no event of the ledger.        *)
LEMMA ViewsStay ==
  ASSUME UNCHANGED <<processed>>, HandlesView' = HandlesView
  PROVE  UNCHANGED Claims!claimVars
  BY DEF Claims!claimVars, ClaimView, ClaimOf

(* What happens to the views when process w drops its event.                *)
LEMMA ViewLeaves ==
  ASSUME TypeOK, NEW w \in Workers, NEW p, p # "handling", phase[w] = "handling", Leave(w, p)
  PROVE  Claims!Leave(w)
<1>1. job[w] \in Events /\ job[w] # NoEvent
  BY LedgerAssumption DEF TypeOK, Events
<1>2. HandlesView' = [HandlesView EXCEPT ![w] = NoEvent]
  BY DEF HandlesView, Leave, TypeOK
<1> QED BY <1>1, <1>2 DEF Claims!Leave, HandlesView

LEMMA TickImplements ==
  ASSUME TypeOK, Tick
  PROVE  [Claims!ClaimNext]_(Claims!claimVars)
<1> DEFINE S == {e \in Events : ClaimOf(processed[e]) = "held" /\ ClaimOf(processed'[e]) = "lapsed"}
<1>1. TypeOK
  OBVIOUS
<1>2. HandlesView' = HandlesView
  BY DEF Tick, HandlesView
<1>3. ASSUME NEW e \in Events
      PROVE  ClaimOf(processed'[e]) = IF e \in S THEN "lapsed" ELSE ClaimOf(processed[e])
  <2>1. /\ processed[e].status \in {"absent", "claimed", "complete"}
        /\ processed[e].age \in Nat
    BY <1>1, LedgerAssumption DEF TypeOK, Row, Ages
  <2>2. CASE processed[e].status = "absent"
    <3>1. processed'[e] = Absent
      BY <2>2 DEF Tick
    <3> QED BY <2>2, <3>1 DEF ClaimOf, Absent
  <2>3. CASE processed[e].status # "absent"
    <3>1. processed'[e] = [status |-> processed[e].status, age |-> Older(processed[e].age)]
      BY <2>3 DEF Tick
    <3>2. processed'[e].status = processed[e].status
      BY <3>1
    <3>3. processed'[e].age = Older(processed[e].age)
      BY <3>1
    <3>4. processed[e].age >= ClaimTtl => processed'[e].age >= ClaimTtl
      BY <2>1, <3>3, LedgerAssumption DEF Older
    <3>5. ClaimOf(processed'[e]) =
            IF ClaimOf(processed[e]) = "held" /\ processed'[e].age >= ClaimTtl
            THEN "lapsed" ELSE ClaimOf(processed[e])
      BY <2>1, <2>3, <3>2, <3>4 DEF ClaimOf
    <3> QED BY <3>5
  <2> QED BY <2>2, <2>3
<1>5. Claims!Lapse(S)
  <2>1. \A e \in S : ClaimView[e] = "held"
    BY DEF ClaimView
  <2>2. ClaimView' = [e \in Claims!Events |-> IF e \in S THEN "lapsed" ELSE ClaimView[e]]
    BY <1>3 DEF ClaimView, Claims!Events, Events
  <2> HIDE DEF S
  <2> QED BY <1>2, <2>1, <2>2 DEF Claims!Lapse
<1>6. S \in SUBSET Claims!Events
  BY DEF Claims!Events, Events
<1> QED BY <1>5, <1>6 DEF Claims!ClaimNext

LEMMA MaintainImplements ==
  ASSUME TypeOK, NEW w \in Workers, Maintain(w)
  PROVE  [Claims!ClaimNext]_(Claims!claimVars)
<1> DEFINE F == {e \in Events : processed[e].status = "complete" /\ Stale(e)}
<1>1. TypeOK
  OBVIOUS
<1>2. HandlesView' = HandlesView
  BY <1>1 DEF Maintain, HandlesView, TypeOK
<1>3. CASE processed' = processed
  BY <1>2, <1>3, ViewsStay
<1>4. CASE processed' = [e \in Events |-> IF Stale(e) THEN Absent ELSE processed[e]]
  <2>1. ASSUME NEW e \in Events
        PROVE  ClaimOf(processed'[e]) = IF ClaimOf(processed[e]) = "lapsed" \/ e \in F THEN "free" ELSE ClaimOf(processed[e])
    <3>1. /\ processed[e].status \in {"absent", "claimed", "complete"}
          /\ processed[e].age \in Nat
      BY <1>1, LedgerAssumption DEF TypeOK, Row, Ages
    <3>2. Stale(e) <=> ClaimOf(processed[e]) = "lapsed" \/ e \in F
      BY <3>1 DEF Stale, ClaimExpired, ClaimOf
    <3>3. CASE Stale(e)
      <4>1. processed'[e].status = "absent"
        BY <1>4, <3>3 DEF Absent
      <4> QED BY <3>2, <3>3, <4>1 DEF ClaimOf
    <3>4. CASE ~Stale(e)
      <4>1. processed'[e] = processed[e]
        BY <1>4, <3>4
      <4> QED BY <3>2, <3>4, <4>1 DEF ClaimOf
    <3> QED BY <3>3, <3>4
  <2>2. \A e \in F : ClaimView[e] = "complete"
    BY DEF ClaimView, ClaimOf
  <2>3. F \in SUBSET Claims!Events
    BY DEF Claims!Events, Events
  <2>4. ClaimView' = [e \in Claims!Events |->
          IF ClaimView[e] = "lapsed" \/ e \in F THEN "free" ELSE ClaimView[e]]
    BY <2>1 DEF ClaimView, Claims!Events, Events
  <2> HIDE DEF F
  <2> QED BY <1>2, <2>2, <2>3, <2>4 DEF Claims!Sweep, Claims!ClaimNext
<1> QED BY <1>3, <1>4 DEF Maintain

LEMMA ClaimImplements ==
  ASSUME TypeOK, NEW w \in Workers, Claim(w)
  PROVE  [Claims!ClaimNext]_(Claims!claimVars)
<1> DEFINE e == job[w]
<1>1. TypeOK
  OBVIOUS
<1>2. e \in Events /\ e \in Claims!Events
  BY <1>1 DEF Claim, TypeOK, Claims!Events, Events
<1>3. HandlesView[w] = NoEvent /\ HandlesView' = [HandlesView EXCEPT ![w] = e]
  BY <1>1 DEF Claim, HandlesView, TypeOK
<1>4. ClaimOf(processed[e]) \in {"free", "lapsed"}
  BY <1>1, <1>2 DEF Claim, ClaimOf, ClaimExpired
<1>5. ClaimView' = [ClaimView EXCEPT ![e] = "held"]
  <2>1. ClaimOf(processed'[e]) = "held"
    <3>1. processed'[e] = [status |-> "claimed", age |-> 0]
      BY <1>1, <1>2 DEF Claim, Fresh, TypeOK
    <3>2. processed'[e].status = "claimed" /\ ~(processed'[e].age >= ClaimTtl)
      BY <3>1, LedgerAssumption
    <3> QED BY <3>2 DEF ClaimOf
  <2>2. \A f \in Events : f # e => ClaimOf(processed'[f]) = ClaimOf(processed[f])
    BY <1>1 DEF Claim, ClaimOf, TypeOK
  <2> QED BY <1>2, <2>1, <2>2 DEF ClaimView
<1>6. Claims!Take(w, e)
  BY <1>2, <1>3, <1>4, <1>5 DEF Claims!Take, ClaimView
<1> QED BY <1>2, <1>6 DEF Claims!ClaimNext

(* The row of an event is closed the same way by the event's completion and *)
(* its release.                                                             *)
LEMMA ViewCloses ==
  ASSUME TypeOK, NEW e \in Events, NEW status \in {"free", "complete"},
         processed[e].status = "claimed" =>
           /\ processed'[e].status = IF status = "free" THEN "absent" ELSE "complete",
         processed[e].status # "claimed" => processed'[e] = processed[e],
         \A f \in Events : f # e => processed'[f] = processed[f]
  PROVE  ClaimView' = Claims!Closed(e, status)
<1>1. processed[e].status \in {"absent", "claimed", "complete"}
  BY DEF TypeOK, Row
<1>2. ClaimOf(processed'[e]) = IF ClaimOf(processed[e]) \in {"held", "lapsed"} THEN status ELSE ClaimOf(processed[e])
  BY <1>1 DEF ClaimOf
<1>3. \A f \in Events : f # e => ClaimOf(processed'[f]) = ClaimOf(processed[f])
  BY DEF ClaimOf
<1> QED BY <1>2, <1>3 DEF Claims!Closed, ClaimView

LEMMA CompleteImplements ==
  ASSUME TypeOK, NEW w \in Workers, Complete(w)
  PROVE  [Claims!ClaimNext]_(Claims!claimVars)
<1> DEFINE e == job[w]
           status == IF e \in Checkpoints THEN "free" ELSE "complete"
<1>1. TypeOK /\ phase[w] = "handling" /\ Leave(w, "idle") /\ processed' = Completed(e)
  BY DEF Complete
<1>2. e \in Events /\ HandlesView[w] = e
  BY <1>1 DEF TypeOK, HandlesView
<1>3. Claims!Leave(w)
  BY <1>1, ViewLeaves
<1>4. processed[e].status = "claimed" =>
        processed'[e].status = IF status = "free" THEN "absent" ELSE "complete"
  BY <1>1, <1>2 DEF Completed, Absent, Fresh, TypeOK
<1>5. processed[e].status # "claimed" => processed'[e] = processed[e]
  BY <1>1 DEF Completed
<1>6. \A f \in Events : f # e => processed'[f] = processed[f]
  BY <1>1 DEF Completed, TypeOK
<1>7. ClaimView' = Claims!Closed(e, status)
  <2> HIDE DEF e
  <2> QED BY <1>1, <1>2, <1>4, <1>5, <1>6, ViewCloses
<1> QED BY <1>2, <1>3, <1>7 DEF Claims!Complete, Claims!ClaimNext

LEMMA FailImplements ==
  ASSUME TypeOK, NEW w \in Workers, Fail(w)
  PROVE  [Claims!ClaimNext]_(Claims!claimVars)
<1> DEFINE e == job[w]
<1>1. TypeOK /\ phase[w] = "handling" /\ Leave(w, "down") /\ processed' = Released(e)
  BY DEF Fail
<1>2. e \in Events /\ HandlesView[w] = e
  BY <1>1 DEF TypeOK, HandlesView
<1>3. Claims!Leave(w)
  BY <1>1, ViewLeaves
<1>4. processed[e].status = "claimed" => processed'[e].status = "absent"
  BY <1>1, <1>2 DEF Released, Absent, TypeOK
<1>5. processed[e].status # "claimed" => processed'[e] = processed[e]
  BY <1>1 DEF Released
<1>6. \A f \in Events : f # e => processed'[f] = processed[f]
  BY <1>1 DEF Released, TypeOK
<1>7. ClaimView' = Claims!Closed(e, "free")
  <2> HIDE DEF e
  <2> QED BY <1>1, <1>2, <1>4, <1>5, <1>6, ViewCloses
<1> QED BY <1>2, <1>3, <1>7 DEF Claims!Release, Claims!ClaimNext

LEMMA CrashImplements ==
  ASSUME TypeOK, NEW w \in Workers, Crash(w)
  PROVE  [Claims!ClaimNext]_(Claims!claimVars)
<1>1. TypeOK /\ Leave(w, "down") /\ UNCHANGED processed
  BY DEF Crash
<1>2. UNCHANGED ClaimView
  BY <1>1 DEF ClaimView, ClaimOf
<1>3. CASE phase[w] = "handling"
  BY <1>1, <1>2, <1>3, ViewLeaves DEF Claims!Abandon, Claims!ClaimNext
<1>4. CASE phase[w] # "handling"
  <2>1. HandlesView' = HandlesView
    BY <1>1, <1>4 DEF HandlesView, Leave, TypeOK
  <2> QED BY <1>1, <2>1, ViewsStay
<1> QED BY <1>3, <1>4

LEMMA StepImplements ==
  TypeOK /\ [Next]_ledgerVars => [Claims!ClaimNext]_(Claims!claimVars)
<1> SUFFICES ASSUME TypeOK, [Next]_ledgerVars
             PROVE  [Claims!ClaimNext]_(Claims!claimVars)
  OBVIOUS
<1>1. CASE Tick
  BY <1>1, TickImplements
<1>2. ASSUME NEW w \in Workers, NEW e \in Events, Receive(w, e)
      PROVE  [Claims!ClaimNext]_(Claims!claimVars)
  <2>1. HandlesView' = HandlesView /\ UNCHANGED <<processed>>
    BY <1>2 DEF Receive, HandlesView, TypeOK
  <2> QED BY <2>1, ViewsStay
<1>3. ASSUME NEW w \in Workers, Duplicate(w)
      PROVE  [Claims!ClaimNext]_(Claims!claimVars)
  <2>1. HandlesView' = HandlesView /\ UNCHANGED <<processed>>
    BY <1>3 DEF Duplicate, Leave, HandlesView, TypeOK
  <2> QED BY <2>1, ViewsStay
<1>4. ASSUME NEW w \in Workers, Restart(w)
      PROVE  [Claims!ClaimNext]_(Claims!claimVars)
  <2>1. HandlesView' = HandlesView /\ UNCHANGED <<processed>>
    BY <1>4 DEF Restart, HandlesView, TypeOK
  <2> QED BY <2>1, ViewsStay
<1>5. CASE UNCHANGED ledgerVars
  <2>1. HandlesView' = HandlesView /\ UNCHANGED <<processed>>
    BY <1>5 DEF ledgerVars, HandlesView
  <2> QED BY <2>1, ViewsStay
<1> QED
  BY <1>1, <1>2, <1>3, <1>4, <1>5, MaintainImplements, ClaimImplements,
     CompleteImplements, FailImplements, CrashImplements
  DEF Next, WorkerStep

(* The table with its clock, its maintenance and its take-overs does to a   *)
(* claim only what ClaimLedger allows, whatever the time constants and      *)
(* however long handlers run.                                               *)
THEOREM LedgerImplementsClaims == Spec => ImplementsClaims
<1>1. Init => Claims!ClaimInit
  BY DEF Init, Claims!ClaimInit, ClaimView, HandlesView, ClaimOf, Absent, Claims!Events,
         Events
<1> QED BY <1>1, InitTypeOK, TypeStep, StepImplements, PTL
    DEF Spec, ImplementsClaims, Claims!ClaimSpec

=============================================================================
