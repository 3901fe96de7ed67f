---------------------------- MODULE EventLedger ----------------------------
(***************************************************************************)
(* The processed_events table of runtime-state.mjs, as the runtime         *)
(* processes share it: the realtime and the supplement `serve` loops and   *)
(* the daily-memory process each hold a connection of their own to one     *)
(* SQLite file.  One statement is atomic; maintainState runs in a BEGIN    *)
(* IMMEDIATE transaction and is atomic too; nothing larger is.             *)
(*                                                                         *)
(* Time is relative.  A timestamp t of the table is represented by its     *)
(* age now - t, which grows with Tick up to Horizon, a value past every    *)
(* threshold the code compares an age with; so time needs no bound.        *)
(***************************************************************************)
EXTENDS Naturals

CONSTANTS
  Workers,              \* runtime processes that handle events
  Messages,             \* message events, named by message id and create time
  Checkpoints,          \* supplement_checkpoint events
  NoEvent,              \* the job of a process that handles no event
  ClaimTtl,             \* claimTtlMs
  MaintenanceInterval,  \* MAINTENANCE_INTERVAL_MS
  Retention,            \* min(PROCESSED_EVENT_RETENTION_MS, stateRetentionMs)
  Horizon,              \* ages saturate here
  MaxFaults             \* bound on crashes, failed handlings and overruns in a run

ASSUME LedgerAssumption ==
  /\ ClaimTtl \in Nat \ {0}
  /\ MaintenanceInterval \in Nat \ {0}
  /\ Retention \in Nat \ {0}
  /\ Horizon \in Nat
  /\ Horizon >= ClaimTtl
  /\ Horizon >= MaintenanceInterval
  /\ Horizon > Retention
  /\ MaxFaults \in Nat
  /\ Messages \cap Checkpoints = {}
  /\ NoEvent \notin Messages \cup Checkpoints

VARIABLES
  processed,         \* the table: [status, age] of each event's row
  sinceMaintenance,  \* age of the STATE_RETENTION row of executions
  phase,             \* what each process is doing
  job,               \* the event each process is at
  held,              \* age of the claim with which a process is handling job
  overrun,           \* ghost: events a live handler of which outlived its claim
  finished,          \* ghost: age of the last handling that ended in order
  faults             \* ghost: crashes, failed handlings and overruns so far

ledgerVars ==
  <<processed, sinceMaintenance, phase, job, held, overrun, finished, faults>>

Events == Messages \cup Checkpoints
Ages == 0 .. Horizon
Phases == {"idle", "arrived", "claiming", "handling", "down"}

Row == [status : {"absent", "claimed", "complete"}, age : Ages]
Absent == [status |-> "absent", age |-> 0]
Fresh(status) == [status |-> status, age |-> 0]
Older(age) == IF age < Horizon THEN age + 1 ELSE age

(* Mutants: a claim never lapses; a claim lapses one unit early. *)
ClaimNeverExpired(e) == FALSE
ClaimExpiredEarly(e) ==
  processed[e].status = "claimed" /\ processed[e].age + 1 >= ClaimTtl

(* claim_expires_at <= now, for claim_expires_at = claimed_at + claimTtlMs *)
ClaimExpired(e) == processed[e].status = "claimed" /\ processed[e].age >= ClaimTtl

TypeOK ==
  /\ processed \in [Events -> Row]
  /\ sinceMaintenance \in Ages
  /\ phase \in [Workers -> Phases]
  /\ job \in [Workers -> Events \cup {NoEvent}]
  /\ held \in [Workers -> Ages]
  /\ overrun \subseteq Events
  /\ finished \in [Events -> Ages]
  /\ faults \in 0 .. MaxFaults
  /\ \A w \in Workers : job[w] = NoEvent <=> phase[w] \in {"idle", "down"}

(* A new database: no row, and an age of Horizon stands for "never". *)
Init ==
  /\ processed = [e \in Events |-> Absent]
  /\ sinceMaintenance = Horizon
  /\ phase = [w \in Workers |-> "idle"]
  /\ job = [w \in Workers |-> NoEvent]
  /\ held = [w \in Workers |-> 0]
  /\ overrun = {}
  /\ finished = [e \in Events |-> Horizon]
  /\ faults = 0

-----------------------------------------------------------------------------

Handling(w, e) == phase[w] = "handling" /\ job[w] = e

(* An overrun lasts until the last of the event's handlers has ended: a     *)
(* stale one may have closed the row of the one that took over, which lets  *)
(* a third one in.                                                          *)
OverrunWithout(w) ==
  {e \in overrun : \E v \in Workers \ {w} : Handling(v, e)}

(* Mutant: the event a process was at is not forgotten. *)
LeaveKeepingJob(w, p) ==
  /\ phase' = [phase EXCEPT ![w] = p]
  /\ job' = job
  /\ held' = [held EXCEPT ![w] = 0]
  /\ overrun' = OverrunWithout(w)

(* Process w turns to phase p and drops what it was doing. *)
Leave(w, p) ==
  /\ phase' = [phase EXCEPT ![w] = p]
  /\ job' = [job EXCEPT ![w] = NoEvent]
  /\ held' = [held EXCEPT ![w] = 0]
  /\ overrun' = OverrunWithout(w)

(* The events of which, with the next unit of time, a handler comes to      *)
(* outlive its claim.  Nothing in the code ends a handler at its TTL.       *)
Outliving ==
  {job[w] : w \in {v \in Workers :
     phase[v] = "handling" /\ Older(held[v]) >= ClaimTtl}} \ overrun

(* Time passes.  Overruns that begin are a fault and bounded as such. *)
Tick ==
  /\ Outliving # {} => faults < MaxFaults
  /\ processed' = [e \in Events |->
       IF processed[e].status = "absent" THEN Absent
       ELSE [status |-> processed[e].status, age |-> Older(processed[e].age)]]
  /\ sinceMaintenance' = Older(sinceMaintenance)
  /\ held' = [w \in Workers |->
       IF phase[w] = "handling" THEN Older(held[w]) ELSE held[w]]
  /\ overrun' = overrun \cup Outliving
  /\ finished' = [e \in Events |-> Older(finished[e])]
  /\ faults' = IF Outliving = {} THEN faults ELSE faults + 1
  /\ UNCHANGED <<phase, job>>

(* The serve loop takes the next event off its input.  An event may be      *)
(* delivered any number of times, by either source.                         *)
Receive(w, e) ==
  /\ phase[w] = "idle"
  /\ phase' = [phase EXCEPT ![w] = "arrived"]
  /\ job' = [job EXCEPT ![w] = e]
  /\ UNCHANGED <<processed, sinceMaintenance, held, overrun, finished, faults>>

(* Mutants: claims are deleted at any age; retention is one unit short. *)
StaleAnyClaim(e) ==
  \/ e \in Checkpoints /\ processed[e].status = "complete"
  \/ processed[e].status = "claimed"
  \/ processed[e].status = "complete" /\ processed[e].age > Retention
StaleEarly(e) ==
  \/ e \in Checkpoints /\ processed[e].status = "complete"
  \/ ClaimExpired(e)
  \/ processed[e].status = "complete" /\ processed[e].age >= Retention

(* What maintainState deletes: checkpoint rows left complete, expired       *)
(* claims, and complete rows past their retention.                          *)
Stale(e) ==
  \/ e \in Checkpoints /\ processed[e].status = "complete"
  \/ ClaimExpired(e)
  \/ processed[e].status = "complete" /\ processed[e].age > Retention

(* The first step of claimEvent: maintainState, which does its work at most *)
(* once per MaintenanceInterval.                                            *)
Maintain(w) ==
  /\ phase[w] = "arrived"
  /\ phase' = [phase EXCEPT ![w] = "claiming"]
  /\ IF sinceMaintenance >= MaintenanceInterval
     THEN /\ processed' = [e \in Events |->
               IF Stale(e) THEN Absent ELSE processed[e]]
          /\ sinceMaintenance' = 0
     ELSE UNCHANGED <<processed, sinceMaintenance>>
  /\ UNCHANGED <<job, held, overrun, finished, faults>>

(* The second step of claimEvent: insert the row, or take over an expired   *)
(* claim.                                                                   *)
Claim(w) ==
  LET e == job[w] IN
  /\ phase[w] = "claiming"
  /\ processed[e].status = "absent" \/ ClaimExpired(e)
  /\ processed' = [processed EXCEPT ![e] = Fresh("claimed")]
  /\ phase' = [phase EXCEPT ![w] = "handling"]
  /\ held' = [held EXCEPT ![w] = 0]
  /\ UNCHANGED <<sinceMaintenance, job, overrun, finished, faults>>

(* claimEvent changed no row: the event is answered "duplicate event".      *)
Duplicate(w) ==
  LET e == job[w] IN
  /\ phase[w] = "claiming"
  /\ ~(processed[e].status = "absent" \/ ClaimExpired(e))
  /\ Leave(w, "idle")
  /\ UNCHANGED <<processed, sinceMaintenance, finished, faults>>

(* Mutant: every event is completed the way a checkpoint is, by deletion. *)
CompletedByDeletion(e) ==
  IF processed[e].status # "claimed" THEN processed
  ELSE [processed EXCEPT ![e] = Absent]

(* completeEvent and releaseEvent name the event, never the claim's owner.  *)
Completed(e) ==
  IF processed[e].status # "claimed" THEN processed
  ELSE [processed EXCEPT ![e] =
          IF e \in Checkpoints THEN Absent ELSE Fresh("complete")]

Released(e) ==
  IF processed[e].status # "claimed" THEN processed
  ELSE [processed EXCEPT ![e] = Absent]

(* The handler came to its end; whether completeEvent changed a row is      *)
(* not looked at.  It ended in order if no handler of the event overran.    *)
Complete(w) ==
  LET e == job[w] IN
  /\ phase[w] = "handling"
  /\ processed' = Completed(e)
  /\ finished' = [finished EXCEPT ![e] = IF e \in overrun THEN @ ELSE 0]
  /\ Leave(w, "idle")
  /\ UNCHANGED <<sinceMaintenance, faults>>

(* The handler threw: #handle releases the event and rethrows, which ends   *)
(* the serve loop and with it the process.                                  *)
Fail(w) ==
  /\ phase[w] = "handling"
  /\ faults < MaxFaults
  /\ processed' = Released(job[w])
  /\ Leave(w, "down")
  /\ faults' = faults + 1
  /\ UNCHANGED <<sinceMaintenance, finished>>

(* The process is killed, or the machine goes down: the table stays as is.  *)
Crash(w) ==
  /\ phase[w] \in {"arrived", "claiming", "handling"}
  /\ faults < MaxFaults
  /\ Leave(w, "down")
  /\ faults' = faults + 1
  /\ UNCHANGED <<processed, sinceMaintenance, finished>>

(* launchd, or the next scheduled run, starts the process again.            *)
Restart(w) ==
  /\ phase[w] = "down"
  /\ phase' = [phase EXCEPT ![w] = "idle"]
  /\ UNCHANGED <<processed, sinceMaintenance, job, held, overrun, finished, faults>>

-----------------------------------------------------------------------------

WorkerStep(w) ==
  \/ \E e \in Events : Receive(w, e)
  \/ Maintain(w)
  \/ Claim(w)
  \/ Duplicate(w)
  \/ Complete(w)
  \/ Fail(w)
  \/ Crash(w)
  \/ Restart(w)

Next == Tick \/ \E w \in Workers : WorkerStep(w)

Spec == Init /\ [][Next]_ledgerVars

(* A process that is up goes on, a dead one is started again, and a message *)
(* that is not complete is delivered again and again: the supplement run    *)
(* lists it until a checkpoint passes it, and none does before that.        *)
Progress(w) ==
  Maintain(w) \/ Claim(w) \/ Duplicate(w) \/ Complete(w) \/ Restart(w)

Redeliver(m) ==
  /\ processed[m].status # "complete"
  /\ \E w \in Workers : Receive(w, m)

Fairness ==
  /\ WF_ledgerVars(Tick)
  /\ \A w \in Workers : WF_ledgerVars(Progress(w))
  /\ \A m \in Messages : SF_ledgerVars(Redeliver(m))

FairSpec == Spec /\ Fairness

-----------------------------------------------------------------------------
(* The ledger as its users see it: without ages.                            *)

ClaimOf(row) ==
  IF row.status = "absent" THEN "free"
  ELSE IF row.status = "complete" THEN "complete"
  ELSE IF row.age >= ClaimTtl THEN "lapsed" ELSE "held"

ClaimView == [e \in Events |-> ClaimOf(processed[e])]
HandlesView == [w \in Workers |-> IF phase[w] = "handling" THEN job[w] ELSE NoEvent]

Claims == INSTANCE ClaimLedger WITH
  Bounded <- FALSE,
  claim   <- ClaimView,
  handles <- HandlesView

(* The timed ledger does nothing to a claim that the untimed one does not   *)
(* allow: what is proved of handlers over the latter holds over the table.  *)
ImplementsClaims == Claims!ClaimSpec

-----------------------------------------------------------------------------

(* Two live processes handle one event only during an overrun: from the     *)
(* moment a handler outlives the claim that claimEvent gave it, which       *)
(* nothing renews, until the last handler of the event has ended.           *)
ExclusiveHandling ==
  \A e \in Events \ overrun : \A v, w \in Workers :
    Handling(v, e) /\ Handling(w, e) => v = w

(* Outside of an overrun a live handler owns the row it claimed: what       *)
(* completeEvent and releaseEvent, which name no owner, will change is not  *)
(* the claim of another process, and maintenance did not delete it.         *)
HandlerOwnsClaim ==
  \A w \in Workers : phase[w] = "handling" /\ job[w] \notin overrun =>
    processed[job[w]] = [status |-> "claimed", age |-> held[w]]

(* A message whose handling ran to its end in order is not handled again    *)
(* within the retention period, however often and by whichever source it is *)
(* delivered, and whatever handlers of other events overran.                *)
NoRehandling ==
  [][\A m \in Messages : \A w \in Workers :
       ~Handling(w, m) /\ Handling(w, m)' => finished[m] > Retention]_ledgerVars

(* A complete row leaves the table only past its retention, whatever stale  *)
(* handlers do to it.                                                       *)
CompleteIsFinal ==
  [][\A m \in Messages :
       processed[m].status = "complete" =>
         \/ processed'[m].status = "complete"
         \/ processed[m].age > Retention]_ledgerVars

(* Crashes, failures and take-overs lose no message: it becomes complete.   *)
EventuallyComplete ==
  \A m \in Messages : <>(processed[m].status = "complete")

=============================================================================
