---------------------------- MODULE Capabilities ----------------------------
(***************************************************************************)
(* Capabilities: what one message may look up, prepare and have submitted. *)
(* The loop of #handle in service.mjs with its lookups and actions, the    *)
(* gateways of capability-gateway.mjs and capability-action-gateway.mjs    *)
(* behind the filter of twin-runtime.mjs, and the principal's answers to   *)
(* capability confirmations (handleCapabilityConfirmationReply).           *)
(*                                                                         *)
(* A prepared action lives in the memory of the process that prepared it,  *)
(* for 15 minutes; its confirmation lives in the database and can be       *)
(* answered for 10.  What may be used is decided by the configuration of   *)
(* the message at hand, the pack and the server as they were when the      *)
(* process started, and the login of the business system at the call.      *)
(***************************************************************************)
EXTENDS Naturals, FiniteSets, ClaimLedger, BaseConsole, CapabilityPacks

CONSTANTS
  Docs, Order, Web,  \* a read capability and an action of the pack; the web search
  Packs,         \* the pack, and what its server says: [pack, server]
  WebApproved,   \* config.public_web_search_approved
  Asks,          \* the messages that are not answers of the principal
  ByPrincipal,   \* those of them that the principal sends
  MaxActions,    \* bound on the actions prepared in one run
  MaxRounds,     \* config.max_ai_action_rounds
  MaxIncidents,  \* bound on crashes, failures, and acts of the operator
  None           \* no answer, no process

ASSUME CapabilityAssumption ==
  /\ Readers = Workers
  /\ Cardinality({Docs, Order, Web}) = 3
  /\ ByPrincipal \subseteq Asks /\ Asks \subseteq Messages
  /\ \A i \in Packs : <<Order, "prepare">> \in DOMAIN i.pack.uses
  /\ WebApproved \in BOOLEAN
  /\ MaxActions \in Nat \ {0}
  /\ MaxRounds \in 1 .. 3
  /\ MaxIncidents \in Nat
  /\ None \notin Workers \cup ((1 .. MaxActions) \X BOOLEAN)

VARIABLES
  installed,  \* the pack and its server
  login,      \* whether the business system passes the readiness check
  frozen,     \* runtime_state.frozen
  compiled,   \* the capabilities each process has an adapter for
  pending,    \* the prepared actions in the memory of each process
  late,       \* the processes with a lookup that timed out and goes on
  job,        \* what each process does for the message it handles
  age,        \* 5-minute steps since each action was prepared
  status,     \* status of each action's confirmation row
  shown,      \* the confirmations the principal has been sent
  reply,      \* what each answer of the principal says: <<action, yes>>
  retry,      \* messages whose reply is recorded as pending
  submits,    \* ghost: how often each action was submitted
  said,       \* ghost: the actions announced as executed
  maker,      \* ghost: the process that prepared each action, while it lives
  settled,    \* ghost: for a whole TTL the console has not allowed orders
  stray,      \* ghost: a tool that writes was called otherwise than to submit
  incidents   \* ghost: incidents so far

memoryVars == <<compiled, pending, late>>
rowVars == <<status, retry>>
worldVars == <<installed, login, frozen>>
principalVars == <<shown, reply>>
ghostVars == <<submits, said, maker, settled, stray>>
vars == <<claimVars, consoleVars, worldVars, memoryVars, job, age, rowVars,
          principalVars, ghostVars, incidents>>

Ids == 1 .. MaxActions
Zone(c) == IF c = Web THEN "public" ELSE "internal"

(* In steps of 5 minutes.  Mutant: the action is kept no longer than 5.     *)
ShortTTL == 1
PendingTTL == 3
ConfirmationTTL == 2

Stages == {"down", "idle", "claimed", "deciding", "looking", "performing", "preparing",
           "asking", "closing", "replying", "resolving", "submitting", "telling",
           "finishing"}
Fresh == [stage |-> "idle", on |-> FALSE, caps |-> {}, draft |-> FALSE, informed |-> FALSE,
          carries |-> FALSE, looked |-> "none", zone |-> "none", rounds |-> 0, id |-> 0,
          done |-> FALSE, barred |-> FALSE, failed |-> FALSE, zones |-> {}]

In(p, stage) == job[p].stage = stage
Go(p, j) == job' = [job EXCEPT ![p] = j]
To(p, stage) == Go(p, [job[p] EXCEPT !.stage = stage])
Incident == incidents < MaxIncidents /\ incidents' = incidents + 1

Pack == installed.pack
Server == installed.server
Tool(c, use) == Pack.uses[<<c, use>>]
Readable == {u \in ReadUses : <<Docs, u>> \in DOMAIN Pack.uses}

TypeOK ==
  /\ ClaimTypeOK /\ ConsoleTypeOK
  /\ installed \in Packs /\ {login, frozen} \subseteq BOOLEAN
  /\ compiled \in [Workers -> SUBSET (Named(Pack) \cup {Web})]
  /\ pending \in [Workers -> SUBSET Ids]
  /\ late \subseteq Workers
  /\ \A p \in Workers :
       /\ job[p].stage \in Stages
       /\ job[p].caps \subseteq Ceiling
       /\ job[p].rounds \in 0 .. MaxRounds
       /\ job[p].looked \in {"none", "complete", "incomplete"}
       /\ handles[p] = NoEvent <=> job[p].stage \in {"idle", "down"}
       /\ In(p, "down") => pending[p] = {} /\ p \notin fresh
  /\ age \in [Ids -> 0 .. PendingTTL]
  /\ status \in [Ids -> {"absent", "pending", "approved", "rejected", "expired"}]
  /\ shown \subseteq Ids
  /\ reply \in [Messages -> (Ids \X BOOLEAN) \cup {None}]
  /\ retry \subseteq Asks
  /\ submits \in [Ids -> 0 .. 2]
  /\ said \subseteq Ids
  /\ maker \in [Ids -> Workers \cup {None}]
  /\ {settled, stray} \subseteq BOOLEAN
  /\ incidents \in 0 .. MaxIncidents

Init ==
  /\ ClaimInit /\ ConsoleInit
  /\ installed \in Packs /\ login = TRUE /\ frozen = FALSE
  /\ compiled = [p \in Workers |-> {}]
  /\ pending = [p \in Workers |-> {}]
  /\ late = {}
  /\ job = [p \in Workers |-> [Fresh EXCEPT !.stage = "down"]]
  /\ age = [id \in Ids |-> 0]
  /\ status = [id \in Ids |-> "absent"]
  /\ shown = {}
  /\ reply = [m \in Messages |-> None]
  /\ retry = {}
  /\ submits = [id \in Ids |-> 0]
  /\ said = {}
  /\ maker = [id \in Ids |-> None]
  /\ settled = FALSE /\ stray = FALSE
  /\ incidents = 0

-----------------------------------------------------------------------------
(* A process starts: createRuntime, and its end.                            *)

(* validateInstalledCapabilityPolicy: what is allowed must be installed.    *)
PolicyHolds ==
  Ceiling \subseteq Named(Pack) \cup (IF WebApproved THEN {Web} ELSE {})

(* With the database it opens, expireConfirmations.                         *)
Start(p) ==
  /\ In(p, "down")
  /\ ValidPack(Pack) /\ PolicyHolds /\ Loads(console)
  /\ compiled' = [compiled EXCEPT ![p] = Compiled(Pack, Server, login) \cup
                                         (IF WebApproved THEN {Web} ELSE {})]
  /\ Keep(p, Load(console))
  /\ status' = [id \in Ids |->
       IF status[id] = "pending" /\ age[id] >= ConfirmationTTL THEN "expired" ELSE status[id]]
  /\ To(p, "idle")
  /\ UNCHANGED <<claimVars, worldVars, pending, late, age, retry, principalVars, ghostVars,
                 incidents>>

(* The process ends, and its memory with it.                                *)
Ends(p) ==
  /\ Go(p, [Fresh EXCEPT !.stage = "down"])
  /\ Forget(p)
  /\ compiled' = [compiled EXCEPT ![p] = {}]
  /\ pending' = [pending EXCEPT ![p] = {}]
  /\ late' = late \ {p}
  /\ maker' = [id \in Ids |-> IF maker[id] = p THEN None ELSE maker[id]]
  /\ UNCHANGED <<worldVars, age, rowVars, principalVars, submits, said, settled, stray>>

Crash(p) ==
  /\ ~In(p, "down")
  /\ Incident
  /\ Ends(p)
  /\ IF handles[p] = NoEvent THEN UNCHANGED claimVars ELSE Abandon(p)

(* What #handle throws releases the message and ends the process.           *)
Throws(p) ==
  /\ Incident
  /\ Release(p)
  /\ Ends(p)

(* TwinRuntime.handle: the configuration is refreshed for the message, and  *)
(* used for all of it.                                                      *)
Receive(p, m) ==
  /\ In(p, "idle")
  /\ m \in Asks \/ reply[m] # None
  /\ CanRefresh(p)
  /\ Take(p, m)
  /\ Keep(p, Refreshed(p))
  /\ Go(p, [Fresh EXCEPT !.stage = "claimed", !.on = Refreshed(p).on,
                         !.caps = Refreshed(p).caps, !.barred = settled])
  /\ UNCHANGED <<worldVars, memoryVars, age, rowVars, principalVars, ghostVars, incidents>>

(* The console cannot be read: the process ends before it claims anything.  *)
CannotRefresh(p) ==
  /\ In(p, "idle")
  /\ ~CanRefresh(p)
  /\ Ends(p)
  /\ UNCHANGED <<claimVars, incidents>>

Closes(p) ==
  /\ Complete(p)
  /\ Go(p, Fresh)

Disabled(p) ==
  /\ In(p, "claimed") /\ ~job[p].on
  /\ Closes(p)
  /\ UNCHANGED <<consoleVars, worldVars, memoryVars, age, rowVars, principalVars, ghostVars,
                 incidents>>

-----------------------------------------------------------------------------
(* The loop of a message that is not an answer.                             *)

Local(p, j) ==
  /\ Go(p, j)
  /\ UNCHANGED <<claimVars, consoleVars, worldVars, memoryVars, age, rowVars, principalVars,
                 ghostVars, incidents>>

(* processEvent reads the freeze, and asks the model.                       *)
AskModel(p) ==
  /\ In(p, "claimed") /\ job[p].on
  /\ handles[p] \in Asks
  /\ Local(p, [job[p] EXCEPT !.stage = "deciding", !.draft = frozen,
                             !.informed = job[p].looked # "none"])

(* Whether the loop lets the decision's requests through: a message whose   *)
(* reply is retried has none, a lookup or action that failed was the last.  *)
MayRequest(p) ==
  /\ handles[p] \notin retry
  /\ job[p].looked # "incomplete"
  /\ job[p].rounds < MaxRounds

Available(p, c) == c \in job[p].caps /\ c \in compiled[p]

(* The zone of the first request binds the message.                         *)
SameZone(p, c) == job[p].zone \in {"none", Zone(c)}

Requests(p, c) ==
  [job[p] EXCEPT !.rounds = @ + 1, !.zone = IF @ = "none" THEN Zone(c) ELSE @]

Denied(j) == [j EXCEPT !.stage = "claimed", !.looked = "incomplete", !.failed = TRUE]

(* A lookup, with commands of the same decision or without.  A second one   *)
(* of a message is not made.                                                *)
RequestLookup(p, c, carries) ==
  /\ In(p, "deciding") /\ MayRequest(p)
  /\ job[p].looked = "none"
  /\ carries => ~job[p].draft
  /\ IF SameZone(p, c) /\ Available(p, c)
     THEN Local(p, [Requests(p, c) EXCEPT !.stage = "looking", !.carries = carries,
                                          !.zones = @ \cup {Zone(c)}])
     ELSE Local(p, Denied(Requests(p, c)))

(* Calls of the pack's tools by the adapters: the check, then the tool.     *)
Calls(tools) == stray' = (stray \/ \E t \in tools : RiskAt(Server, t) = "write")
CheckTools == {Pack.uses[s] : s \in Checked(Pack)}

LookupTools(p) ==
  IF job[p].zone = "public" THEN {}
  ELSE CheckTools \cup (IF login THEN {Tool(Docs, u) : u \in Readable} ELSE {})

(* It completes, only if the business system lets it; or it fails, or times *)
(* out and goes on.                                                         *)
Found(p) ==
  IF job[p].carries THEN [job[p] EXCEPT !.looked = "complete", !.stage = "performing"]
  ELSE [job[p] EXCEPT !.looked = "complete", !.stage = "claimed"]

LookupEnds(p) ==
  /\ In(p, "looking")
  /\ \/ /\ job[p].zone = "public" \/ login \/ Checked(Pack) = {}
        /\ Go(p, Found(p))
        /\ UNCHANGED late
     \/ Go(p, Denied(job[p])) /\ UNCHANGED late
     \/ Go(p, Denied(job[p])) /\ late' = late \cup {p}
  /\ Calls(LookupTools(p))
  /\ UNCHANGED <<claimVars, consoleVars, worldVars, compiled, pending, age, rowVars,
                 principalVars, submits, said, maker, settled, incidents>>

(* The answer to a lookup that has timed out is dropped.                    *)
(* Mutant: it is taken as the answer of the lookup. *)
LateAnswerTaken(p) == IF In(p, "claimed") THEN [job[p] EXCEPT !.looked = "complete"] ELSE job[p]
AfterLateAnswer(p) == job[p]

LateAnswer(p) ==
  /\ p \in late
  /\ late' = late \ {p}
  /\ Go(p, AfterLateAnswer(p))
  /\ UNCHANGED <<claimVars, consoleVars, worldVars, compiled, pending, age, rowVars,
                 principalVars, ghostVars, incidents>>

(* Commands that need no confirmation, decided without knowledge of what    *)
(* was looked up; otherwise they are turned into confirmations, which end   *)
(* the loop (Finish).                                                       *)
MayPerform(p) == ~job[p].draft /\ job[p].looked = "none"

RequestCommands(p) ==
  /\ In(p, "deciding") /\ MayRequest(p) /\ MayPerform(p)
  /\ Local(p, [job[p] EXCEPT !.stage = "performing", !.rounds = @ + 1])

Performed(p) ==
  /\ In(p, "performing")
  /\ Local(p, [job[p] EXCEPT !.stage = "claimed", !.carries = FALSE])

(* An action, which only the principal may request.                         *)
RequestAction(p) ==
  /\ In(p, "deciding") /\ MayRequest(p)
  /\ handles[p] \in ByPrincipal /\ ~job[p].draft
  /\ IF SameZone(p, Order) /\ Available(p, Order)
     THEN Local(p, [Requests(p, Order) EXCEPT !.stage = "preparing",
                                              !.zones = @ \cup {"internal"}])
     ELSE Local(p, Denied(Requests(p, Order)))

PrepareTools ==
  CheckTools \cup (IF login THEN {Tool(Order, "prepare")} ELSE {})

PrepareFails(p) ==
  /\ In(p, "preparing")
  /\ Go(p, Denied(job[p]))
  /\ Calls(PrepareTools)
  /\ UNCHANGED <<claimVars, consoleVars, worldVars, memoryVars, age, rowVars, principalVars,
                 submits, said, maker, settled, incidents>>

Overdue(p) == {id \in pending[p] : age[id] >= PendingTTL}

(* The prepared action is remembered, overdue ones are forgotten, and the   *)
(* confirmation's row is written before anything else can happen.           *)
Prepare(p, id) ==
  /\ In(p, "preparing")
  /\ status[id] = "absent" /\ \A i \in Ids : i < id => status[i] # "absent"
  /\ login \/ Checked(Pack) = {}
  /\ pending' = [pending EXCEPT ![p] = (@ \ Overdue(p)) \cup {id}]
  /\ status' = [status EXCEPT ![id] = "pending"]
  /\ maker' = [maker EXCEPT ![id] = p]
  /\ Calls(PrepareTools)
  /\ Go(p, [job[p] EXCEPT !.stage = "asking", !.id = id])
  /\ UNCHANGED <<claimVars, consoleVars, worldVars, compiled, late, age, retry, principalVars,
                 submits, said, settled, incidents>>

(* The private message arrives; or it fails, the action is cancelled, and   *)
(* the error ends the process (DeliveryFails).  A message that is reported  *)
(* as failed may have arrived.                                              *)
Deliver(p) ==
  /\ In(p, "asking")
  /\ shown' = shown \cup {job[p].id}
  /\ To(p, "closing")
  /\ UNCHANGED <<claimVars, consoleVars, worldVars, memoryVars, age, rowVars, reply,
                 ghostVars, incidents>>

ReportedAsFailed(p) ==
  /\ In(p, "asking")
  /\ job[p].id \notin shown
  /\ shown' = shown \cup {job[p].id}
  /\ UNCHANGED <<claimVars, consoleVars, worldVars, memoryVars, job, age, rowVars, reply,
                 ghostVars, incidents>>

DeliveryFails(p) == In(p, "asking") /\ Throws(p)

(* The decision has no requests, or they are dropped.                       *)
Finish(p) ==
  /\ In(p, "deciding")
  /\ Local(p, [job[p] EXCEPT !.stage = "closing"])

(* The reply is recorded as pending before it is sent; one that fails ends  *)
(* the process, and is sent again when the message is.                      *)
RecordReply(p) ==
  /\ In(p, "closing")
  /\ ~job[p].draft \/ job[p].failed
  /\ retry' = retry \cup {handles[p]}
  /\ To(p, "replying")
  /\ UNCHANGED <<claimVars, consoleVars, worldVars, memoryVars, age, status, principalVars,
                 ghostVars, incidents>>

Replied(p) ==
  /\ In(p, "replying")
  /\ retry' = retry \ {handles[p]}
  /\ Closes(p)
  /\ UNCHANGED <<consoleVars, worldVars, memoryVars, age, status, principalVars, ghostVars,
                 incidents>>

ReplyFails(p) == In(p, "replying") /\ Throws(p)

(* A draft, or a decision without a reply.                                  *)
NoReply(p) ==
  /\ In(p, "closing") /\ handles[p] \notin retry
  /\ Closes(p)
  /\ UNCHANGED <<consoleVars, worldVars, memoryVars, age, rowVars, principalVars, ghostVars,
                 incidents>>

-----------------------------------------------------------------------------
(* An answer of the principal.                                              *)

Answered(p) == reply[handles[p]][1]
Approves(p) == reply[handles[p]][2]

Open(p) == status[Answered(p)] = "pending"
InTime(p) == age[Answered(p)] < ConfirmationTTL

AnswerReadable(p) == In(p, "claimed") /\ job[p].on /\ handles[p] \notin Asks

(* confirm of the gateway, up to the adapter.                               *)
(* Mutant: the configuration of the message is not asked. *)
SubmittableUnlessGone(p, id) ==
  /\ id \in pending[p] /\ age[id] < PendingTTL
  /\ Order \in compiled[p]
Submittable(p, id) ==
  /\ id \in pending[p] /\ age[id] < PendingTTL
  /\ Available(p, Order)

(* What an accepted answer leads to.                                      *)
AfterAnswer(p, id) ==
  CASE Approves(p) /\ ~frozen /\ Submittable(p, id) -> "submitting"
    [] frozen                                       -> "finishing"
    [] OTHER                                        -> "telling"

(* resolveConfirmation accepts; the freeze is read, and the action leaves   *)
(* the memory, whatever becomes of it.                                      *)
Resolve(p) ==
  LET id == Answered(p) IN
  /\ AnswerReadable(p) /\ Open(p) /\ InTime(p)
  /\ status' = [status EXCEPT ![id] = IF Approves(p) THEN "approved" ELSE "rejected"]
  /\ pending' = [pending EXCEPT ![p] = @ \ {id}]
  /\ Go(p, [job[p] EXCEPT !.stage = AfterAnswer(p, id), !.id = id])
  /\ UNCHANGED <<claimVars, consoleVars, worldVars, compiled, late, age, retry, principalVars,
                 ghostVars, incidents>>

ResolveRefused(p) ==
  /\ AnswerReadable(p) /\ ~(Open(p) /\ InTime(p))
  /\ status' = [status EXCEPT ![Answered(p)] = IF Open(p) THEN "expired" ELSE @]
  /\ To(p, "finishing")
  /\ UNCHANGED <<claimVars, consoleVars, worldVars, memoryVars, age, retry, principalVars,
                 ghostVars, incidents>>

(* confirm of the adapter: the check, then the tool that writes.  It may    *)
(* have written and still be reported as failed.                            *)
Submit(p) ==
  /\ In(p, "submitting")
  /\ login \/ Checked(Pack) = {}
  /\ submits' = [submits EXCEPT ![job[p].id] = IF @ < 2 THEN @ + 1 ELSE @]
  /\ \E ok \in BOOLEAN : Go(p, [job[p] EXCEPT !.stage = "telling", !.done = ok])
  /\ Calls(CheckTools)
  /\ UNCHANGED <<claimVars, consoleVars, worldVars, memoryVars, age, rowVars, principalVars,
                 said, maker, settled, incidents>>

SubmitFails(p) ==
  /\ In(p, "submitting")
  /\ To(p, "telling")
  /\ Calls(CheckTools)
  /\ UNCHANGED <<claimVars, consoleVars, worldVars, memoryVars, age, rowVars, principalVars,
                 submits, said, maker, settled, incidents>>

(* The public notice, which may fail unnoticed.                             *)
Tell(p) ==
  /\ In(p, "telling")
  /\ said' \in {said, said \cup (IF job[p].done THEN {job[p].id} ELSE {})}
  /\ To(p, "finishing")
  /\ UNCHANGED <<claimVars, consoleVars, worldVars, memoryVars, age, rowVars, principalVars,
                 submits, maker, settled, stray, incidents>>

AnswerCloses(p) ==
  /\ In(p, "finishing")
  /\ Closes(p)
  /\ UNCHANGED <<consoleVars, worldVars, memoryVars, age, rowVars, principalVars, ghostVars,
                 incidents>>

-----------------------------------------------------------------------------
(* The principal, the operator, and time.                                   *)

Reply(m, id, yes) ==
  /\ m \in Messages \ Asks
  /\ id \in shown /\ reply[m] = None
  /\ reply' = [reply EXCEPT ![m] = <<id, yes>>]
  /\ UNCHANGED <<claimVars, consoleVars, worldVars, memoryVars, job, age, rowVars, shown,
                 ghostVars, incidents>>

Forbids(c) == ~Loads(c) \/ ~c.on \/ Order \notin Load(c).caps

EditConsole(c) ==
  /\ Incident
  /\ Edit(c)
  /\ settled' = (settled /\ Forbids(c))
  /\ UNCHANGED <<claimVars, worldVars, memoryVars, job, age, rowVars, principalVars,
                 submits, said, maker, stray>>

Operate ==
  /\ Incident
  /\ \/ frozen' = ~frozen /\ UNCHANGED login
     \/ login' = ~login /\ UNCHANGED frozen
  /\ UNCHANGED <<claimVars, consoleVars, installed, memoryVars, job, age, rowVars,
                 principalVars, ghostVars>>

(* A TTL after the console was narrowed no process keeps what it read       *)
(* before.                                                                  *)
Settle ==
  /\ ~settled /\ Forbids(console)
  /\ \A p \in fresh : ~cache[p].on \/ Order \notin cache[p].caps
  /\ settled' = TRUE
  /\ UNCHANGED <<claimVars, consoleVars, worldVars, memoryVars, job, age, rowVars,
                 principalVars, submits, said, maker, stray, incidents>>

GrowStale(p) ==
  /\ GrowsStale(p)
  /\ UNCHANGED <<claimVars, worldVars, memoryVars, job, age, rowVars, principalVars,
                 ghostVars, incidents>>

Age(id) ==
  /\ status[id] # "absent" /\ age[id] < PendingTTL
  /\ age' = [age EXCEPT ![id] = @ + 1]
  /\ UNCHANGED <<claimVars, consoleVars, worldVars, memoryVars, job, rowVars, principalVars,
                 ghostVars, incidents>>

(* The timer of a prepared action.                                          *)
Expire(p, id) ==
  /\ id \in Overdue(p)
  /\ pending' = [pending EXCEPT ![p] = @ \ {id}]
  /\ UNCHANGED <<claimVars, consoleVars, worldVars, compiled, late, job, age, rowVars,
                 principalVars, ghostVars, incidents>>

ClaimsAge ==
  /\ \E S \in SUBSET Messages \ {{}} : Lapse(S)
  /\ UNCHANGED <<consoleVars, worldVars, memoryVars, job, age, rowVars, principalVars,
                 ghostVars, incidents>>

-----------------------------------------------------------------------------

Loop(p) ==
  \/ Disabled(p) \/ AskModel(p)
  \/ \E c \in {Docs, Web}, carries \in BOOLEAN : RequestLookup(p, c, carries)
  \/ LookupEnds(p) \/ RequestCommands(p) \/ Performed(p)
  \/ RequestAction(p) \/ PrepareFails(p)
  \/ \E id \in Ids : Prepare(p, id)
  \/ Deliver(p) \/ Finish(p) \/ RecordReply(p) \/ Replied(p) \/ NoReply(p)

Answer(p) ==
  \/ Resolve(p) \/ ResolveRefused(p) \/ Submit(p) \/ SubmitFails(p)
  \/ Tell(p) \/ AnswerCloses(p)

Next ==
  \/ \E p \in Workers :
       \/ Start(p) \/ Crash(p) \/ CannotRefresh(p)
       \/ \E m \in Messages : Receive(p, m)
       \/ Loop(p) \/ Answer(p)
       \/ LateAnswer(p) \/ ReportedAsFailed(p) \/ DeliveryFails(p) \/ ReplyFails(p)
       \/ GrowStale(p)
       \/ \E id \in Ids : Expire(p, id)
  \/ \E m \in Messages, id \in Ids, yes \in BOOLEAN : Reply(m, id, yes)
  \/ \E c \in Consoles : EditConsole(c)
  \/ \E id \in Ids : Age(id)
  \/ Operate \/ Settle \/ ClaimsAge

Spec == Init /\ [][Next]_vars

-----------------------------------------------------------------------------

(* What writes in the business system is called only to submit an action    *)
(* that the principal has approved in time, once for each, and only a       *)
(* submitted action is announced as executed: whatever the pack declares,   *)
(* the server advertises, and crashes and repeated messages do.             *)
SubmittedOnce ==
  /\ ~stray
  /\ \A id \in Ids : submits[id] <= (IF status[id] = "approved" THEN 1 ELSE 0)
  /\ \A id \in said : submits[id] = 1

(* business-capabilities.md: narrowing fails closed.  When for a TTL before *)
(* a message the console has not allowed the action, the message neither    *)
(* prepares nor submits one, though it was prepared and confirmed before.   *)
NarrowingHolds ==
  \A p \in Workers : job[p].barred => job[p].stage \notin {"preparing", "submitting"}

(* One message reaches one trust zone; after a lookup that failed, however  *)
(* late it is answered, nothing is prepared or performed for it; and what   *)
(* the model decides with the evidence of a lookup is not performed without *)
(* a confirmation.                                                          *)
EvidenceIsSound ==
  \A p \in Workers :
    /\ Cardinality(job[p].zones) <= 1
    /\ job[p].stage \in {"preparing", "performing"} => ~job[p].failed
    /\ In(p, "performing") => ~job[p].informed

(* A confirmation that can still be accepted finds its action in the memory *)
(* of the process that prepared it, for as long as that lives.              *)
ApprovalFindsAction ==
  \A id \in Ids :
    status[id] = "pending" /\ age[id] < ConfirmationTTL /\ maker[id] # None =>
      id \in pending[maker[id]]

=============================================================================
