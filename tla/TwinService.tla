---------------------------- MODULE TwinService ----------------------------
(***************************************************************************)
(* DigitalTwinService.#handle of service.mjs for message events, with the  *)
(* executeCommand and lark-guard calls it makes, and the confirmations and *)
(* notices it sends to the principal, over the claims of ClaimLedger.      *)
(* Several processes share one database: the table of executions, the      *)
(* reply-retry rows kept in the same table, and the frozen flag.  Each     *)
(* action ends at the next await or database statement, where another      *)
(* process may come in or this one may die.                                *)
(*                                                                         *)
(* The replies to confirmations and the capability requests that #handle   *)
(* also serves are left to other modules; a run lasts less than the        *)
(* retention period, so nothing complete is forgotten.                     *)
(***************************************************************************)
EXTENDS Naturals, FiniteSets, ClaimLedger

CONSTANTS
  Controls,    \* the messages in which the principal asks to freeze
  Commands,    \* commands the model may ask for, named by their hash
  Texts,       \* replies the model may give
  None,        \* no command
  MaxRounds,   \* config.max_ai_action_rounds
  MaxAsks,     \* bound on the confirmations one decision asks for
  MaxFaults,   \* bound on crashes, failed calls and overruns in one run
  MaxFreezes   \* bound on the operator's freezes in one run

ASSUME ServiceAssumption ==
  /\ Controls \subseteq Messages
  /\ Commands \cap Texts = {}
  /\ None \notin Commands \cup Texts
  /\ MaxRounds \in 1 .. 3
  /\ MaxAsks \in Nat
  /\ MaxFaults \in Nat
  /\ MaxFreezes \in Nat

VARIABLES
  executions,  \* status of the executions row of each message's command
  retry,       \* status of each message's reply-retry row
  frozen,      \* runtime_control.frozen
  stage,       \* where each process is in #handle
  at,          \* its local variables there
  effects,     \* ghost: how often the platform has performed each command
  unsure,      \* ghost: commands performed whose result was not "complete"
  delivered,   \* ghost: the messages that have been replied to
  ignored,     \* ghost: messages completed while production was disabled
  outlived,    \* ghost: messages a live handler of which outlived its claim
  late,        \* ghost: what each process sent since the last freeze
  faults,      \* ghost: crashes, failed calls and overruns so far
  freezes      \* ghost: freezes by the operator so far

tableVars == <<executions, retry>>
worldVars == <<effects, unsure, delivered, late>>
pastVars == <<ignored, outlived>>
boundVars == <<faults, freezes>>
serviceVars ==
  <<claimVars, tableVars, frozen, stage, at, worldVars, pastVars, boundVars>>

Slots == Commands \cup Texts
Stages == {"idle", "claimed", "round", "deciding", "asking", "check", "record", "guard",
           "report", "confirming", "answering", "noticed", "sent", "closing", "down"}
Results == {"frozen", "failed", "confirmation-required", "complete"}
MaxCount == 2   \* effects and late saturate here: more than one is too many
Bump(n) == IF n < MaxCount THEN n + 1 ELSE n

Locals == [retrying : BOOLEAN,             \* retryingReply
           draft    : BOOLEAN,             \* processEvent saw frozen
           answer   : BOOLEAN,             \* there is a response to send
           rounds   : 0 .. MaxRounds,      \* actionRounds
           asks     : 0 .. 2 * MaxAsks,    \* confirmations left to send
           todo     : SUBSET Commands,     \* commands left in this round
           fresh    : BOOLEAN,             \* one of them was not a duplicate
           last     : BOOLEAN,             \* confirmations end the loop after them
           slot     : Slots \cup {None},   \* the command being executed
           halt     : BOOLEAN,             \* executeCommand saw frozen
           result   : Results]             \* what the guard returned

Fresh == [retrying |-> FALSE, draft |-> FALSE, answer |-> FALSE, rounds |-> 0,
          asks |-> 0, todo |-> {}, fresh |-> FALSE, last |-> FALSE, slot |-> None,
          halt |-> FALSE, result |-> "failed"]

TypeOK ==
  /\ ClaimTypeOK
  /\ executions \in [Messages -> [Slots -> {"absent", "running"} \cup Results]]
  /\ retry \in [Messages -> {"absent", "pending", "complete"}]
  /\ frozen \in BOOLEAN
  /\ stage \in [Workers -> Stages]
  /\ at \in [Workers -> Locals]
  /\ effects \in [Messages -> [Commands -> 0 .. MaxCount]]
  /\ unsure \subseteq Messages \X Commands
  /\ delivered \subseteq Messages
  /\ ignored \subseteq Messages
  /\ outlived \subseteq Messages
  /\ late \in [Workers -> 0 .. MaxCount]
  /\ faults \in 0 .. MaxFaults
  /\ freezes \in 0 .. MaxFreezes
  /\ \A w \in Workers : handles[w] = NoEvent <=> stage[w] \in {"idle", "down"}

Init ==
  /\ ClaimInit
  /\ executions = [m \in Messages |-> [s \in Slots |-> "absent"]]
  /\ retry = [m \in Messages |-> "absent"]
  /\ frozen = FALSE
  /\ stage = [w \in Workers |-> "idle"]
  /\ at = [w \in Workers |-> Fresh]
  /\ effects = [m \in Messages |-> [c \in Commands |-> 0]]
  /\ unsure = {}
  /\ delivered = {}
  /\ ignored = {}
  /\ outlived = {}
  /\ late = [w \in Workers |-> 0]
  /\ faults = 0
  /\ freezes = 0

-----------------------------------------------------------------------------

Go(w, s, locals) ==
  /\ stage' = [stage EXCEPT ![w] = s]
  /\ at' = [at EXCEPT ![w] = locals]

With(w, locals, s) == Go(w, s, locals) /\ UNCHANGED claimVars

(* Mutants: the catch completes the event; it forgets the event. *)
ThrowCompleting(w) ==
  /\ Complete(w)
  /\ Go(w, "down", Fresh)
ThrowForgetting(w) ==
  /\ UNCHANGED claimVars
  /\ Go(w, "down", Fresh)

(* The handler throws: the catch of #handle releases the event, and the     *)
(* serve loop dies of the error.                                            *)
Throw(w) ==
  /\ Release(w)
  /\ Go(w, "down", Fresh)

-----------------------------------------------------------------------------
(* Start of the handler.                                                    *)

(* claimEvent succeeds.  The production switch was read just before; what   *)
(* it said decides between Disabled and Start.                              *)
Receive(w, m) ==
  /\ stage[w] = "idle"
  /\ Take(w, m)
  /\ Go(w, "claimed", Fresh)
  /\ UNCHANGED <<tableVars, frozen, worldVars, pastVars, boundVars>>

Disabled(w) ==
  /\ stage[w] = "claimed"
  /\ Complete(w)
  /\ Go(w, "idle", Fresh)
  /\ ignored' = ignored \cup {handles[w]}
  /\ UNCHANGED <<tableVars, frozen, worldVars, outlived, boundVars>>

(* Mutant: whether a reply is pending is not looked up. *)
StartAnew(w) ==
  /\ stage[w] = "claimed"
  /\ With(w, Fresh, "round")
  /\ UNCHANGED <<tableVars, frozen, worldVars, pastVars, boundVars>>

Start(w) ==
  /\ stage[w] = "claimed"
  /\ With(w, [Fresh EXCEPT !.retrying = retry[handles[w]] = "pending"], "round")
  /\ UNCHANGED <<tableVars, frozen, worldVars, pastVars, boundVars>>

(* What is on its way when a freeze comes: the confirmations of a decision. *)
SentAtFreeze == [w \in Workers |-> IF stage[w] = "asking" THEN 1 ELSE 0]

(* processEvent on a control message of the principal. *)
Control(w) ==
  /\ stage[w] = "round"
  /\ handles[w] \in Controls
  /\ frozen' = TRUE
  /\ late' = IF frozen THEN late ELSE SentAtFreeze
  /\ With(w, at[w], "closing")
  /\ UNCHANGED <<tableVars, effects, unsure, delivered, pastVars, boundVars>>

(* processEvent on any other message reads the frozen flag, once, and waits *)
(* for the model.                                                           *)
Consult(w) ==
  /\ stage[w] = "round"
  /\ handles[w] \notin Controls
  /\ With(w, [at[w] EXCEPT !.draft = frozen], "deciding")
  /\ UNCHANGED <<tableVars, frozen, worldVars, pastVars, boundVars>>

-----------------------------------------------------------------------------
(* The model has answered: one of these three.                              *)

(* What follows a decision: the confirmations it asks for, its commands one *)
(* after the other, and what is sent at the end.                            *)
Proceed(w, l) ==
  IF l.asks > 0 THEN With(w, l, "asking")
  ELSE IF l.todo # {} THEN \E c \in l.todo : With(w, [l EXCEPT !.slot = c], "check")
  ELSE With(w, l, "answering")

Decide(w, l) ==
  /\ Proceed(w, l)
  /\ late' = IF frozen /\ l.asks > 0 THEN [late EXCEPT ![w] = Bump(@)] ELSE late
  /\ UNCHANGED <<tableVars, frozen, effects, unsure, delivered, pastVars>>

(* A draft has no commands, and those of a retried reply are struck out.    *)
MayCommand(w) == ~at[w].draft /\ ~at[w].retrying

(* A draft, a retried reply, or a decision without commands to execute,     *)
(* which may ask for confirmations: the loop ends.                          *)
DecideAnswer(w) ==
  /\ stage[w] = "deciding"
  /\ \E answer \in IF at[w].draft THEN {FALSE} ELSE BOOLEAN :
     \E asks \in IF MayCommand(w) THEN 0 .. MaxAsks ELSE {0} :
       LET missing == at[w].retrying /\ ~at[w].draft /\ ~answer IN
       /\ missing => faults < MaxFaults
       /\ faults' = IF missing THEN faults + 1 ELSE faults
       /\ Decide(w, [at[w] EXCEPT !.answer = answer, !.asks = asks, !.todo = {}])
  /\ UNCHANGED freezes

(* Mutant: a retried reply keeps the commands the model asks for with it. *)
MayAct(w) == ~at[w].draft
MayExecute(w) == MayCommand(w)

(* Commands to execute one after the other, with or without others that the *)
(* principal is to confirm; the requests for these are sent twice, before   *)
(* and after the look at the rounds, and end the loop.                      *)
DecideCommands(w) ==
  /\ stage[w] = "deciding"
  /\ MayExecute(w)
  /\ at[w].rounds < MaxRounds
  /\ \E todo \in SUBSET Commands \ {{}}, asks \in 0 .. MaxAsks, answer \in BOOLEAN :
       /\ answer => asks > 0
       /\ Decide(w, [at[w] EXCEPT !.rounds = @ + 1, !.todo = todo, !.fresh = FALSE,
                                  !.asks = 2 * asks, !.last = asks > 0,
                                  !.answer = answer])
  /\ UNCHANGED boundVars

(* More commands after the last round: actionLimitDecision answers instead. *)
DecideTooMany(w) ==
  /\ stage[w] = "deciding"
  /\ MayCommand(w)
  /\ at[w].rounds = MaxRounds
  /\ \E asks \in 0 .. MaxAsks :
       Decide(w, [at[w] EXCEPT !.answer = TRUE, !.asks = asks, !.todo = {}])
  /\ UNCHANGED boundVars

(* sendConfirmation for the next of them.  No private message looks at the  *)
(* frozen flag, and each is a call during which a freeze may come.          *)
SendConfirmation(w) ==
  /\ stage[w] = "asking"
  /\ Proceed(w, [at[w] EXCEPT !.asks = @ - 1])
  /\ UNCHANGED <<tableVars, frozen, worldVars, pastVars, boundVars>>

-----------------------------------------------------------------------------
(* executeCommand, for the command or the reply in at[w].slot.              *)

(* What the command loop does with a result: the next command, the next     *)
(* round, or the reply, when other confirmations are under way or when      *)
(* every command was a duplicate; or a request of its own if the platform   *)
(* wants the command confirmed.                                             *)
AfterCommand(w, result) ==
  LET l == [at[w] EXCEPT !.todo = @ \ {at[w].slot}, !.slot = None,
                         !.fresh = @ \/ result # "duplicate"]
  IN  CASE result = "confirmation-required" ->
             With(w, [l EXCEPT !.todo = {}, !.answer = TRUE], "confirming")
        [] result # "confirmation-required" /\ l.todo # {} ->
             \E c \in l.todo : With(w, [l EXCEPT !.slot = c], "check")
        [] OTHER ->
             IF l.last THEN With(w, l, "answering")
             ELSE IF l.fresh THEN With(w, l, "round")
             ELSE With(w, [l EXCEPT !.answer = TRUE], "answering")

(* Mutant: a reply that was not delivered passes for one that was. *)
AfterAnyReply(w, result) == With(w, [at[w] EXCEPT !.slot = None], "sent")

(* A reply was delivered, or it was not and the handler throws.             *)
AfterReply(w, result) ==
  IF result \in {"complete", "duplicate"}
  THEN With(w, [at[w] EXCEPT !.slot = None], "sent")
  ELSE Throw(w)

After(w, result) ==
  IF at[w].slot \in Commands THEN AfterCommand(w, result) ELSE AfterReply(w, result)

(* Mutant: a row left "running" by a dead process does not count. *)
PerformedIfComplete(w) == executions[handles[w]][at[w].slot] = "complete"

(* A command that is complete, or that was begun and never reported, is not *)
(* executed again; a reply that was begun is, since its idempotency key     *)
(* makes that harmless.                                                     *)
Performed(w) ==
  LET status == executions[handles[w]][at[w].slot] IN
  \/ status = "complete"
  \/ status = "running" /\ at[w].slot \in Commands

(* Mutant: the flag is the one processEvent read for the decision. *)
FlagOfDecision(w) == at[w].draft
FlagAtCheck(w) == frozen

Check(w) ==
  /\ stage[w] = "check"
  /\ IF Performed(w)
     THEN After(w, "duplicate")
     ELSE With(w, [at[w] EXCEPT !.halt = FlagAtCheck(w)], "record")
  /\ UNCHANGED <<tableVars, frozen, worldVars, pastVars, boundVars>>

Record(w) ==
  /\ stage[w] = "record"
  /\ executions' = [executions EXCEPT ![handles[w]][at[w].slot] = "running"]
  /\ With(w, at[w], "guard")
  /\ UNCHANGED <<retry, frozen, worldVars, pastVars, boundVars>>

(* The platform performs the command of w.  A reply carries an idempotency  *)
(* key, so a message is replied to once.                                    *)
Perform(w, result) ==
  LET m == handles[w]
      s == at[w].slot
  IN  /\ late' = IF frozen THEN [late EXCEPT ![w] = Bump(@)] ELSE late
      /\ IF s \in Commands
         THEN /\ effects' = [effects EXCEPT ![m][s] = Bump(@)]
              /\ unsure' = IF result = "complete" THEN unsure
                           ELSE unsure \cup {<<m, s>>}
              /\ UNCHANGED delivered
         ELSE /\ delivered' = delivered \cup {m}
              /\ UNCHANGED <<effects, unsure>>

(* The guard's preview, its look at the flag it was given, and the call.    *)
(* "failed" may mean that the call was killed at its timeout, after it had  *)
(* its effect.                                                              *)
Guard(w) ==
  /\ stage[w] = "guard"
  /\ \/ \E result \in {"failed"} \cup
                      (IF at[w].halt THEN {"frozen"} ELSE {"confirmation-required"}) :
          /\ result = "failed" => faults < MaxFaults
          /\ faults' = IF result = "failed" THEN faults + 1 ELSE faults
          /\ result = "confirmation-required" => at[w].slot \in Commands
          /\ With(w, [at[w] EXCEPT !.result = result], "report")
          /\ UNCHANGED worldVars
     \/ \E result \in {"complete", "failed"} :
          /\ ~at[w].halt
          /\ result = "failed" => faults < MaxFaults
          /\ faults' = IF result = "failed" THEN faults + 1 ELSE faults
          /\ Perform(w, result)
          /\ With(w, [at[w] EXCEPT !.result = result], "report")
  /\ UNCHANGED <<tableVars, frozen, pastVars, freezes>>

Report(w) ==
  /\ stage[w] = "report"
  /\ executions' = [executions EXCEPT ![handles[w]][at[w].slot] = at[w].result]
  /\ After(w, at[w].result)
  /\ UNCHANGED <<retry, frozen, worldVars, pastVars, boundVars>>

(* The request for a command that the platform wants confirmed. *)
ConfirmRisk(w) ==
  /\ stage[w] = "confirming"
  /\ late' = IF frozen THEN [late EXCEPT ![w] = Bump(@)] ELSE late
  /\ With(w, at[w], "answering")
  /\ UNCHANGED <<tableVars, frozen, effects, unsure, delivered, pastVars, boundVars>>

-----------------------------------------------------------------------------
(* The notice, the reply, and the end of the handler.                       *)

(* sendNotification: the principal is told privately that the message needs *)
(* attention.  A draft asks for it too, so every message handled under a    *)
(* freeze may send one, and late does not count them.                       *)
Notify(w) ==
  /\ stage[w] = "answering"
  /\ at[w].retrying => at[w].answer
  /\ With(w, at[w], "noticed")
  /\ UNCHANGED <<tableVars, frozen, worldVars, pastVars, boundVars>>

(* The reply-retry row is written before the reply is attempted.            *)
BeginReply(w) ==
  /\ stage[w] \in {"answering", "noticed"}
  /\ at[w].answer
  /\ retry' = [retry EXCEPT ![handles[w]] = "pending"]
  /\ \E text \in Texts : With(w, [at[w] EXCEPT !.slot = text], "check")
  /\ UNCHANGED <<executions, frozen, worldVars, pastVars, boundVars>>

ReplySent(w) ==
  /\ stage[w] = "sent"
  /\ retry' = [retry EXCEPT ![handles[w]] = "complete"]
  /\ With(w, at[w], "closing")
  /\ UNCHANGED <<executions, frozen, worldVars, pastVars, boundVars>>

(* Nothing to send; if this was to retry a reply, that is an error.         *)
NoReply(w) ==
  /\ stage[w] \in {"answering", "noticed"}
  /\ ~at[w].answer
  /\ IF at[w].retrying THEN Throw(w) ELSE With(w, at[w], "closing")
  /\ UNCHANGED <<tableVars, frozen, worldVars, pastVars, boundVars>>

Close(w) ==
  /\ stage[w] = "closing"
  /\ Complete(w)
  /\ Go(w, "idle", Fresh)
  /\ UNCHANGED <<tableVars, frozen, worldVars, pastVars, boundVars>>

(* Hydration, the model or a private message fails; the latter may have     *)
(* been sent for all that.                                                  *)
Fail(w) ==
  /\ stage[w] \in {"round", "deciding", "asking", "confirming", "answering"}
  /\ faults < MaxFaults
  /\ Throw(w)
  /\ late' = IF frozen /\ stage[w] = "confirming"
             THEN [late EXCEPT ![w] = Bump(@)] ELSE late
  /\ faults' = faults + 1
  /\ UNCHANGED <<tableVars, frozen, effects, unsure, delivered, pastVars, freezes>>

Crash(w) ==
  /\ faults < MaxFaults
  /\ Abandon(w)
  /\ Go(w, "down", Fresh)
  /\ faults' = faults + 1
  /\ UNCHANGED <<tableVars, frozen, worldVars, pastVars, freezes>>

Restart(w) ==
  /\ stage[w] = "down"
  /\ Go(w, "idle", Fresh)
  /\ UNCHANGED <<claimVars, tableVars, frozen, worldVars, pastVars, boundVars>>

-----------------------------------------------------------------------------
(* The operator's `freeze` and `resume` commands, and time.                 *)

Freeze ==
  /\ freezes < MaxFreezes
  /\ ~frozen
  /\ frozen' = TRUE
  /\ late' = SentAtFreeze
  /\ freezes' = freezes + 1
  /\ UNCHANGED <<claimVars, tableVars, stage, at, effects, unsure, delivered,
                 pastVars, faults>>

Resume ==
  /\ frozen
  /\ frozen' = FALSE
  /\ late' = [w \in Workers |-> 0]
  /\ UNCHANGED <<claimVars, tableVars, stage, at, effects, unsure, delivered,
                 pastVars, boundVars>>

(* Claims lapse, under live handlers too: nothing ends a handler at the TTL *)
(* of its claim.  Overruns that begin are a fault and bounded as such.      *)
Outliving(S) == {m \in S : \E w \in Workers : handles[w] = m}

ClaimsAge ==
  /\ \/ \E S \in SUBSET Messages \ {{}} :
          /\ Lapse(S)
          /\ Outliving(S) # {} => faults < MaxFaults
          /\ faults' = IF Outliving(S) = {} THEN faults ELSE faults + 1
          /\ outlived' = outlived \cup Outliving(S)
     \/ Sweep({}) /\ UNCHANGED <<outlived, faults>>
  /\ UNCHANGED <<tableVars, frozen, stage, at, worldVars, ignored, freezes>>

-----------------------------------------------------------------------------

Handle(w) ==
  \/ Start(w) \/ Control(w) \/ Consult(w)
  \/ DecideAnswer(w) \/ DecideCommands(w) \/ DecideTooMany(w) \/ SendConfirmation(w)
  \/ Check(w) \/ Record(w) \/ Guard(w) \/ Report(w) \/ ConfirmRisk(w)
  \/ Notify(w) \/ BeginReply(w) \/ ReplySent(w) \/ NoReply(w) \/ Close(w)

Next ==
  \/ \E w \in Workers :
       \/ \E m \in Messages : Receive(w, m)
       \/ Disabled(w) \/ Handle(w) \/ Fail(w) \/ Crash(w) \/ Restart(w)
  \/ Freeze \/ Resume \/ ClaimsAge

Spec == Init /\ [][Next]_serviceVars

(* Processes run and are restarted, a lapsed claim lapses, the operator     *)
(* ends a freeze, and a message that is not complete is delivered again.    *)
Fairness ==
  /\ \A w \in Workers : WF_serviceVars(Handle(w)) /\ WF_serviceVars(Restart(w))
  /\ WF_serviceVars(Resume)
  /\ WF_serviceVars(ClaimsAge)
  /\ \A m \in Messages : SF_serviceVars(\E w \in Workers : Receive(w, m))

FairSpec == Spec /\ Fairness

-----------------------------------------------------------------------------

(* A command is performed twice on a message only if a call that had its    *)
(* effect was reported as failed, or a handler of the message outlived its  *)
(* claim: never because of a crash between the call and the report, a       *)
(* redelivery, or a second reading of the message.                          *)
RepeatNeedsFailure ==
  \A m \in Messages : \A c \in Commands :
    effects[m][c] > 1 => <<m, c>> \in unsure \/ m \in outlived

(* A message does not become complete owing a reply it has begun, unless    *)
(* production was switched off or a handler outlived its claim meanwhile.   *)
ReplyBeforeComplete ==
  \A m \in Messages :
    claim[m] = "complete" /\ retry[m] = "pending" => m \in ignored \cup outlived

(* A reply marked as done was delivered, through whatever duplicates and    *)
(* retries it got there.                                                    *)
DoneIsDelivered ==
  \A m \in Messages : retry[m] = "complete" => m \in delivered

(* Once the reply of a message is begun, and until it is delivered, no      *)
(* command takes effect for it: not by a retry after a failure or a crash   *)
(* either, and only through a handler that outlived its claim.              *)
NoCommandBehindReply ==
  [][\A m \in Messages :
       retry[m] = "pending" => effects'[m] = effects[m] \/ m \in outlived]_serviceVars

(* After a freeze each process sends at most one thing more: the call it    *)
(* had begun, the request for a confirmation that this call comes back      *)
(* with, or the requests of one decision it was waiting for or sending;     *)
(* however many rounds and commands it still has.  Only notices go on.      *)
FreezeLetsOneThrough == \A w \in Workers : late[w] <= 1

(* privacy.md:  a freeze stops replies and writes at once.                  *)
FreezeIsImmediate == \A w \in Workers : late[w] = 0

(* A reply that was begun is delivered, or the message is dropped because   *)
(* production is off; failures, crashes and freezes only delay it.          *)
ReplyEventuallySent ==
  \A m \in Messages :
    retry[m] = "pending" ~> retry[m] = "complete" \/ m \in ignored \cup outlived

=============================================================================
