--------------------------- MODULE Confirmations ---------------------------
(***************************************************************************)
(* Private confirmations: the confirmations and confirmation_events tables *)
(* of runtime-state.mjs, and handleConfirmationReply of service.mjs, which *)
(* serves the principal's "confirm <id>" and "reject <id>" messages.  Each *)
(* such message is an event of ClaimLedger: it may be delivered again, and *)
(* to another process.                                                     *)
(*                                                                         *)
(* An action may need two confirmations: the one the model asks for, and a *)
(* second one (requires_yes) when the platform then calls it high-risk.    *)
(* A confirmation is the pair of the action and its requires_yes.          *)
(*                                                                         *)
(* The message that asks for a confirmation may be read again after a      *)
(* failure, and then the model may decide otherwise: its handler executes  *)
(* the same command directly, on the same row of executions, while the     *)
(* confirmation is open.  Message replies with an idempotency key, which   *)
(* executeCommand repeats while their row says "running", are not among    *)
(* the actions.  A run lasts less than the retention period, so no row is  *)
(* deleted.                                                                *)
(***************************************************************************)
EXTENDS Naturals, ClaimLedger

CONSTANTS
  Actions,   \* commands that wait for a confirmation
  Risky,     \* those that the platform performs only with --yes
  Askers,    \* handlers of the messages that ask for the actions
  None,      \* no answer, and no command being executed
  MaySwitch, \* whether production may be switched off during the run
  MaxFaults  \* bound on crashes and failed calls in one run

ASSUME ConfirmationAssumption ==
  /\ Risky \subseteq Actions
  /\ None \notin (Actions \X BOOLEAN) \X BOOLEAN
  /\ None \notin Actions \X {"checked", "recorded"}
  /\ MaySwitch \in BOOLEAN
  /\ MaxFaults \in Nat

VARIABLES
  status,     \* status of each confirmation's row
  payload,    \* the confirmations whose action_json is kept
  seen,       \* confirmation_events: the replies already resolved
  execution,  \* status of the executions row of each action
  asking,     \* the command each asking handler executes, and how far it is
  due,        \* the confirmations that were still open at their expires_at
  shown,      \* the confirmations the principal has been sent
  reply,      \* what each reply of the principal says: <<confirmation, yes>>
  stage,      \* where each process is in handleConfirmationReply
  at,         \* its local variables there
  performed,  \* ghost: how often each action has been performed on a confirmation
  own,        \* ghost: how often for an asking handler, which decided it itself
  doubtful,   \* ghost: actions that had effect when reported as failed, or that two
              \* handlers took up because one's check was stale when it recorded
  announced,  \* ghost: the actions publicly announced as executed
  faults      \* ghost: crashes and failed calls so far

rowVars == <<status, payload, seen>>
askVars == <<due, shown, reply>>
ghostVars == <<performed, own, doubtful, announced>>
confirmationVars ==
  <<claimVars, rowVars, execution, asking, askVars, stage, at, ghostVars, faults>>

Ids == Actions \X BOOLEAN
ActionOf(id) == id[1]
RequiresYes(id) == id[2]
Last(a) == <<a, a \in Risky>>   \* the confirmation that settles action a

Stages == {"idle", "claimed", "resolve", "check", "record", "guard", "report",
           "followup", "show", "notify", "clear", "closing", "down"}
Results == {"none", "failed", "frozen", "confirmation-required", "complete",
            "missing"}
MaxCount == 2   \* the counts saturate here: more than one is too many
Bump(n) == IF n < MaxCount THEN n + 1 ELSE n

Commands == Actions \X {"checked", "recorded"}

Locals == [action : BOOLEAN, result : Results]
Fresh == [action |-> FALSE, result |-> "none"]

(* The confirmation that process w answers, and the answer.                 *)
Id(w) == reply[handles[w]][1]
Approves(w) == reply[handles[w]][2]

TypeOK ==
  /\ ClaimTypeOK
  /\ status \in [Ids -> {"absent", "pending", "approved", "rejected", "expired"}]
  /\ payload \subseteq Ids
  /\ seen \subseteq Messages
  /\ execution \in [Actions -> {"absent", "running", "failed", "frozen",
                                "confirmation-required", "complete"}]
  /\ asking \in [Askers -> Commands \cup {None}]
  /\ due \subseteq Ids
  /\ shown \subseteq Ids
  /\ reply \in [Messages -> (Ids \X BOOLEAN) \cup {None}]
  /\ stage \in [Workers -> Stages]
  /\ at \in [Workers -> Locals]
  /\ performed \in [Actions -> 0 .. MaxCount]
  /\ own \in [Actions -> 0 .. MaxCount]
  /\ doubtful \subseteq Actions
  /\ announced \subseteq Actions
  /\ faults \in 0 .. MaxFaults
  /\ \A w \in Workers :
       /\ handles[w] = NoEvent <=> stage[w] \in {"idle", "down"}
       /\ handles[w] # NoEvent => handles[w] \in Messages /\ reply[handles[w]] # None

Init ==
  /\ ClaimInit
  /\ status = [id \in Ids |-> "absent"]
  /\ payload = {}
  /\ seen = {}
  /\ execution = [a \in Actions |-> "absent"]
  /\ asking = [h \in Askers |-> None]
  /\ due = {}
  /\ shown = {}
  /\ reply = [m \in Messages |-> None]
  /\ stage = [w \in Workers |-> "idle"]
  /\ at = [w \in Workers |-> Fresh]
  /\ performed = [a \in Actions |-> 0]
  /\ own = [a \in Actions |-> 0]
  /\ doubtful = {}
  /\ announced = {}
  /\ faults = 0

Go(w, s, locals) ==
  /\ stage' = [stage EXCEPT ![w] = s]
  /\ at' = [at EXCEPT ![w] = locals]

With(w, locals, s) == Go(w, s, locals) /\ UNCHANGED claimVars

-----------------------------------------------------------------------------
(* The handler of the message that asks for the action, and the principal.  *)

(* createConfirmation, unless the row is there from an earlier attempt.     *)
Create(id) ==
  IF status[id] = "absent"
  THEN /\ status' = [status EXCEPT ![id] = "pending"]
       /\ payload' = payload \cup {id}
  ELSE UNCHANGED <<status, payload>>

(* The model wants a confirmation.                                          *)
Ask(a) ==
  /\ status[<<a, FALSE>>] = "absent"
  /\ Create(<<a, FALSE>>)
  /\ UNCHANGED <<claimVars, seen, execution, asking, askVars, stage, at, ghostVars, faults>>

(* Or the model does not, at another reading: executeCommand for the asking *)
(* message, without --yes.  First the check of the row of executions.       *)
AskChecks(h, a) ==
  /\ asking[h] = None
  /\ execution[a] \notin {"running", "complete"}
  /\ asking' = [asking EXCEPT ![h] = <<a, "checked">>]
  /\ UNCHANGED <<claimVars, rowVars, execution, askVars, stage, at, ghostVars, faults>>

(* recordExecution: "running", whatever the row has come to say since.      *)
Runs(a) ==
  /\ execution' = [execution EXCEPT ![a] = "running"]
  /\ doubtful' = IF execution[a] \in {"running", "complete"} THEN doubtful \cup {a}
                 ELSE doubtful
  /\ UNCHANGED <<performed, own, announced>>

AskRecords(h) ==
  /\ \E a \in Actions :
       /\ asking[h] = <<a, "checked">>
       /\ asking' = [asking EXCEPT ![h] = <<a, "recorded">>]
       /\ Runs(a)
  /\ UNCHANGED <<claimVars, rowVars, askVars, stage, at, faults>>

(* The platform performs the command of an asking handler.                  *)
PerformsOwn(a) ==
  /\ a \notin Risky
  /\ own' = [own EXCEPT ![a] = Bump(@)]
  /\ UNCHANGED <<performed, announced>>

(* The call and the report of its result: nobody sees what is between them. *)
AskWithholds(h) ==
  /\ \E a \in Actions :
       /\ asking[h] = <<a, "recorded">>
       /\ \/ /\ \E result \in {"frozen", "failed"} :
                  execution' = [execution EXCEPT ![a] = result]
             /\ UNCHANGED <<status, payload>>
          \/ /\ a \in Risky
             /\ execution' = [execution EXCEPT ![a] = "confirmation-required"]
             /\ Create(<<a, TRUE>>)
  /\ asking' = [asking EXCEPT ![h] = None]
  /\ UNCHANGED <<claimVars, seen, askVars, stage, at, ghostVars, faults>>

AskPerforms(h) ==
  /\ \E a \in Actions :
       /\ asking[h] = <<a, "recorded">>
       /\ PerformsOwn(a)
       /\ \E result \in {"complete", "failed"} :
            /\ execution' = [execution EXCEPT ![a] = result]
            /\ doubtful' = IF result = "failed" THEN doubtful \cup {a} ELSE doubtful
  /\ asking' = [asking EXCEPT ![h] = None]
  /\ UNCHANGED <<claimVars, rowVars, askVars, stage, at, faults>>

(* A crash, before or after the call.                                       *)
AskDies(h) ==
  /\ faults < MaxFaults
  /\ asking[h] # None
  /\ asking' = [asking EXCEPT ![h] = None]
  /\ faults' = faults + 1
  /\ \/ UNCHANGED ghostVars
     \/ /\ \E a \in Actions : asking[h] = <<a, "recorded">> /\ PerformsOwn(a)
        /\ UNCHANGED doubtful
  /\ UNCHANGED <<claimVars, rowVars, execution, askVars, stage, at>>

(* sendPrivateConfirmation succeeds, at the first or a later attempt.       *)
Show(id) ==
  /\ status[id] # "absent"
  /\ id \notin shown
  /\ shown' = shown \cup {id}
  /\ UNCHANGED <<claimVars, rowVars, execution, asking, due, reply, stage, at, ghostVars,
                 faults>>

(* The principal answers, as often and as contradictorily as he likes.      *)
Reply(m, id, yes) ==
  /\ id \in shown
  /\ reply[m] = None
  /\ reply' = [reply EXCEPT ![m] = <<id, yes>>]
  /\ UNCHANGED <<claimVars, rowVars, execution, asking, due, shown, stage, at, ghostVars,
                 faults>>

(* The ten minutes are over; only for an open confirmation does it matter.  *)
ComeDue(id) ==
  /\ status[id] = "pending"
  /\ id \notin due
  /\ due' = due \cup {id}
  /\ UNCHANGED <<claimVars, rowVars, execution, asking, shown, reply, stage, at, ghostVars,
                 faults>>

-----------------------------------------------------------------------------
(* The handler of a reply.                                                  *)

Receive(w, m) ==
  /\ stage[w] = "idle"
  /\ reply[m] # None
  /\ Take(w, m)
  /\ Go(w, "claimed", Fresh)
  /\ UNCHANGED <<rowVars, execution, asking, askVars, ghostVars, faults>>

(* Mutant: the reply is not completed. *)
DisabledUncompleted(w) ==
  /\ MaySwitch
  /\ stage[w] = "claimed"
  /\ UNCHANGED claimVars
  /\ Go(w, "idle", Fresh)
  /\ UNCHANGED <<rowVars, execution, asking, askVars, ghostVars, faults>>

(* Production is off: the reply is consumed unread.                         *)
Disabled(w) ==
  /\ MaySwitch
  /\ stage[w] = "claimed"
  /\ Complete(w)
  /\ Go(w, "idle", Fresh)
  /\ UNCHANGED <<rowVars, execution, asking, askVars, ghostVars, faults>>

(* getConfirmation: the handler keeps the action it read.                   *)
Lookup(w) ==
  /\ stage[w] = "claimed"
  /\ With(w, [Fresh EXCEPT !.action = Id(w) \in payload], "resolve")
  /\ UNCHANGED <<rowVars, execution, asking, askVars, ghostVars, faults>>

(* Mutants: any reply that is new is accepted; any reply is. *)
OpenWhateverStatus(w) == handles[w] \notin seen
OpenAlways(w) == TRUE

(* resolveConfirmation, one transaction.                                    *)
Open(w) == handles[w] \notin seen /\ status[Id(w)] = "pending"

InTime(w) == Id(w) \notin due

ResolveAccepted(w) ==
  /\ stage[w] = "resolve"
  /\ Open(w)
  /\ InTime(w)
  /\ status' = [status EXCEPT ![Id(w)] = IF Approves(w) THEN "approved" ELSE "rejected"]
  /\ seen' = seen \cup {handles[w]}
  /\ IF ~Approves(w) THEN With(w, at[w], "notify")
     ELSE IF at[w].action THEN With(w, at[w], "check")
     ELSE With(w, [at[w] EXCEPT !.result = "missing"], "notify")
  /\ UNCHANGED <<payload, execution, asking, askVars, ghostVars, faults>>

ResolveLate(w) ==
  /\ stage[w] = "resolve"
  /\ Open(w)
  /\ ~InTime(w)
  /\ status' = [status EXCEPT ![Id(w)] = "expired"]
  /\ payload' = payload \ {Id(w)}
  /\ seen' = seen \cup {handles[w]}
  /\ With(w, at[w], "closing")
  /\ UNCHANGED <<execution, asking, askVars, ghostVars, faults>>

(* DUPLICATE_EVENT or ALREADY_RESOLVED. *)
ResolveRefused(w) ==
  /\ stage[w] = "resolve"
  /\ ~Open(w)
  /\ With(w, at[w], "closing")
  /\ UNCHANGED <<rowVars, execution, asking, askVars, ghostVars, faults>>

-----------------------------------------------------------------------------
(* executeCommand for the approved action, as in TwinService.               *)

Check(w) ==
  /\ stage[w] = "check"
  /\ IF execution[ActionOf(Id(w))] \in {"running", "complete"}
     THEN With(w, at[w], "notify")
     ELSE With(w, at[w], "record")
  /\ UNCHANGED <<rowVars, execution, asking, askVars, ghostVars, faults>>

Record(w) ==
  /\ stage[w] = "record"
  /\ Runs(ActionOf(Id(w)))
  /\ With(w, at[w], "guard")
  /\ UNCHANGED <<rowVars, asking, askVars, faults>>

(* Frozen, failed in the preview or the call, or refused for want of --yes. *)
GuardWithholds(w) ==
  /\ stage[w] = "guard"
  /\ \E result \in {"frozen", "failed"} \cup
       (IF ActionOf(Id(w)) \in Risky /\ ~RequiresYes(Id(w))
        THEN {"confirmation-required"} ELSE {}) :
       With(w, [at[w] EXCEPT !.result = result], "report")
  /\ UNCHANGED <<rowVars, execution, asking, askVars, ghostVars, faults>>

(* The call takes effect, though it may be reported as failed.              *)
GuardPerforms(w) ==
  /\ stage[w] = "guard"
  /\ ActionOf(Id(w)) \in Risky => RequiresYes(Id(w))
  /\ performed' = [performed EXCEPT ![ActionOf(Id(w))] = Bump(@)]
  /\ \E result \in {"complete", "failed"} :
       /\ With(w, [at[w] EXCEPT !.result = result], "report")
       /\ doubtful' = IF result = "failed" THEN doubtful \cup {ActionOf(Id(w))}
                      ELSE doubtful
  /\ UNCHANGED <<rowVars, execution, asking, askVars, own, announced, faults>>

Report(w) ==
  /\ stage[w] = "report"
  /\ execution' = [execution EXCEPT ![ActionOf(Id(w))] = at[w].result]
  /\ With(w, at[w], IF at[w].result = "confirmation-required" /\ ~RequiresYes(Id(w))
                    THEN "followup" ELSE "notify")
  /\ UNCHANGED <<rowVars, asking, askVars, ghostVars, faults>>

-----------------------------------------------------------------------------
(* The rest of the handler.                                                 *)

(* requestConfirmation again, with requires_yes: the row, then the message. *)
Followup(w) ==
  /\ stage[w] = "followup"
  /\ Create(<<ActionOf(Id(w)), TRUE>>)
  /\ With(w, at[w], "show")
  /\ UNCHANGED <<seen, execution, asking, askVars, ghostVars, faults>>

ShowFollowup(w) ==
  /\ stage[w] = "show"
  /\ shown' = shown \cup {<<ActionOf(Id(w)), TRUE>>}
  /\ With(w, at[w], "notify")
  /\ UNCHANGED <<rowVars, execution, asking, due, reply, ghostVars, faults>>

(* Mutants: an approval, or an execution row, counts as an executed action. *)
TellsApproved(w) == Approves(w)
TellsExecutedUnlessFailed(w) == Approves(w) /\ at[w].result \in {"complete", "none"}
TellsExecuted(w) == Approves(w) /\ at[w].result = "complete"

(* The public notice of the outcome; that it may fail changes nothing.      *)
Notify(w) ==
  /\ stage[w] = "notify"
  /\ announced' \in {announced,
                     announced \cup (IF TellsExecuted(w) THEN {ActionOf(Id(w))} ELSE {})}
  /\ With(w, at[w], "clear")
  /\ UNCHANGED <<rowVars, execution, asking, askVars, performed, own, doubtful, faults>>

Clear(w) ==
  /\ stage[w] = "clear"
  /\ payload' = payload \ {Id(w)}
  /\ With(w, at[w], "closing")
  /\ UNCHANGED <<status, seen, execution, asking, askVars, ghostVars, faults>>

Close(w) ==
  /\ stage[w] = "closing"
  /\ Complete(w)
  /\ Go(w, "idle", Fresh)
  /\ UNCHANGED <<rowVars, execution, asking, askVars, ghostVars, faults>>

(* The second private message cannot be sent: #handle releases the event.   *)
ShowFails(w) ==
  /\ stage[w] = "show"
  /\ faults < MaxFaults
  /\ Release(w)
  /\ Go(w, "down", Fresh)
  /\ faults' = faults + 1
  /\ UNCHANGED <<rowVars, execution, asking, askVars, ghostVars>>

Crash(w) ==
  /\ faults < MaxFaults
  /\ Abandon(w)
  /\ Go(w, "down", Fresh)
  /\ faults' = faults + 1
  /\ UNCHANGED <<rowVars, execution, asking, askVars, ghostVars>>

-----------------------------------------------------------------------------
(* expireConfirmations: when a process opens the database, and once a day.  *)

(* Mutant: everything is cleared. *)
KeptNothing == {}
Kept == {id \in payload : status[id] = "pending" /\ id \notin due}

ExpireConfirmations ==
  /\ status' = [id \in Ids |->
       IF status[id] = "pending" /\ id \in due THEN "expired" ELSE status[id]]
  /\ payload' = Kept

Restart(w) ==
  /\ stage[w] = "down"
  /\ ExpireConfirmations
  /\ Go(w, "idle", Fresh)
  /\ UNCHANGED <<claimVars, seen, execution, asking, askVars, ghostVars, faults>>

MaintainState ==
  /\ ExpireConfirmations
  /\ UNCHANGED <<claimVars, seen, execution, asking, askVars, stage, at, ghostVars, faults>>

ClaimsAge ==
  /\ \/ \E S \in SUBSET Messages \ {{}} : Lapse(S)
     \/ Sweep({})
  /\ UNCHANGED <<rowVars, execution, asking, askVars, stage, at, ghostVars, faults>>

-----------------------------------------------------------------------------

Handle(w) ==
  \/ Lookup(w) \/ ResolveAccepted(w) \/ ResolveLate(w) \/ ResolveRefused(w)
  \/ Check(w) \/ Record(w) \/ GuardWithholds(w) \/ GuardPerforms(w) \/ Report(w)
  \/ Followup(w) \/ ShowFollowup(w) \/ Notify(w) \/ Clear(w) \/ Close(w)

Asks(h) ==
  \/ \E a \in Actions : AskChecks(h, a)
  \/ AskRecords(h) \/ AskWithholds(h) \/ AskPerforms(h) \/ AskDies(h)

Next ==
  \/ \E a \in Actions : Ask(a)
  \/ \E h \in Askers : Asks(h)
  \/ \E id \in Ids : Show(id) \/ ComeDue(id)
  \/ \E m \in Messages, id \in Ids, yes \in BOOLEAN : Reply(m, id, yes)
  \/ \E w \in Workers :
       \/ \E m \in Messages : Receive(w, m)
       \/ Disabled(w) \/ Handle(w) \/ ShowFails(w) \/ Crash(w) \/ Restart(w)
  \/ MaintainState
  \/ ClaimsAge

Spec == Init /\ [][Next]_confirmationVars

-----------------------------------------------------------------------------

AnswerTo(a) ==
  CASE status[Last(a)] \in {"absent", "pending"} -> "none"
    [] status[Last(a)] = "approved" -> "approved"
    [] OTHER -> "refused"

Promise == INSTANCE ConfirmedAction WITH
  Guarded <- Risky,
  answer  <- [a \in Actions |-> AnswerTo(a)],
  done    <- {a \in Actions : performed[a] > 0},
  own     <- {a \in Actions : own[a] > 0}

(* Crashes, redeliveries, contradicting replies and processes that overlap  *)
(* do not break the promise of a confirmation.                              *)
KeepsPromise == Promise!PromiseSpec

(* An action is performed once, on its confirmation or for the asking       *)
(* message: a high-risk one always, another one unless a call that had      *)
(* effect was reported as failed or two handlers checked its row at once.   *)
PerformedOnce ==
  \A a \in Actions : performed[a] + own[a] > 1 => a \in doubtful \ Risky

(* An approval that is accepted finds its action: maintenance, which clears *)
(* it, cannot come between the reading of the row and the answer.           *)
ApprovedHasAction == \A w \in Workers : at[w].result # "missing"

(* The chat is told that an action was executed only if it was.             *)
AnnouncedIsPerformed == \A a \in announced : performed[a] > 0

(* privacy.md: the stored action is cleared as soon as it expires.          *)
ExpiredIsCleared == due \cap payload = {}

(* privacy.md: the action is stored so that it survives a crash.            *)
ApprovedIsAttempted ==
  \A m \in Messages :
    claim[m] = "complete" /\ m \in seen /\ status[reply[m][1]] = "approved" =>
      execution[ActionOf(reply[m][1])] # "absent"

=============================================================================
