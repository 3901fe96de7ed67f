# Verification of the Feishu digital twin

TLA+ modules of the program under `src/`, the configurations that TLC checks
them with, and theorems about them that TLAPS proves. Paths below are relative
to `src/` of the repository.

## 1. The system

The digital twin answers Feishu messages on behalf of its owner (the
*principal*). Short-lived and long-lived Node processes share one SQLite file;
they do not talk to each other otherwise. Everything that can go wrong between
them goes through that file, the pipe between two processes, or the Feishu
platform, which is reached by one `lark-cli` subprocess per call.

| part | code | state | operations |
|---|---|---|---|
| event ledger | `runtime/src/runtime-state.mjs` | `processed_events`: claimed or complete, `claimed_at`, `claim_expires_at`; `maintenance` | `claimEvent`, `completeEvent`, `releaseEvent`, `maintainState` (first step of a claim, once a day) |
| twin service | `runtime/src/service.mjs`, `process-event.mjs`, `executor/src/lark-guard.mjs`, `runtime/bin/runtime-command.mjs` | `executions`, reply-retry rows in the same table, `runtime_control.frozen`, the locals of `#handle` | `serve`: one event after the other; `#handle`: claim, context, model, commands in rounds, reply; `freeze`, `resume` |
| confirmations | `runtime-state.mjs`, `service.mjs` (`handleConfirmationReply`, `notifyCommandConfirmations`), `confirmation-channel.mjs` | `confirmations`: status, expiry, `action_json`, message reference | create, show, resolve, expire, clear, second confirmation of a high-risk action |
| supplement intake | `intake/src/intake-command.mjs`, `lark-im-reader.mjs`, `product/src/service-host.mjs` | `supplement_checkpoints`; the pipe | window, list pages, emit lines and a checkpoint event; the checkpoint moves over complete messages only |
| realtime intake | `intake/src/realtime-event-source.mjs`, `inbound-normalizer.mjs` | cache of chat contexts | subscribe, normalise, emit |
| daily memory | `service.mjs` (`runDailyMemory`), `daily-memory-postcondition.mjs`, `runtime-state.mjs` | `daily_memory_locks`; the feedback of one run | claim and renew the lock, rounds of search, write and fetch, verify what was written |
| capability lookups and actions | `runtime/src/capability-gateway.mjs`, `capability-action-gateway.mjs`, `private-capability-pack.mjs` | the pending actions of one process (15 minutes, in memory), the adapters compiled when it started | validate and compile a pack, look up with a timeout, prepare, confirm, cancel |
| base console | `runtime/src/base-console.mjs`, `config-loader.mjs` | cached snapshot of the Base | refresh after a TTL; the production switch; narrowing of capabilities |
| service host | `product/src/service-host.mjs` | marker files; launchd's jobs and service definitions | start a role when it is due, mark it; install, start, stop, watch the jobs |
| supervisor | `bin/supervisor-core.mjs` | two child processes, the race of what ends it | readiness, startup timeout, exits, signal, termination of both |
| lifecycle | `product/src/cli.mjs`, `installation.mjs` | version pointer, configuration, packs, frozen flag, jobs | setup, init, configure, config update, service commands, enable, freeze, upgrade, rollback, uninstall, and the recovery of each |
| provisioning | `product/src/cli.mjs` | spaces, folders, Bases, tables and records on the platform | look up by name, create, read back, report whether a retry is safe |
| result log, continuity, public snapshot | `ops/*.mjs` | log files, evidence files | rotate, gate, scan |
| model adapter, prompt, context | `runtime/src/codex-runner.mjs`, `prompt.mjs`, `intake/src/context-policy.mjs`, ... | none | one subprocess per decision; pure projections |

How the parts meet. `runRealtime` and `runSupplement` of the service host each
pipe an intake process into a `serve` process of its own, so that **two**
processes handle messages, often the same ones. Each runs `#handle` for one
event at a time. A claim in `processed_events` is all that keeps them apart; it
lasts five minutes, is not renewed, and rows are closed by event name, not by
owner. A handler that throws releases its claim and ends its process; launchd
starts it again. Scheduled commands (daily memory, maintenance) and the
operator's `freeze`/`resume` open the same database while the others run.

What is hard here, and hence what the properties are about (`hazards` in
`PROJECT.json` has each one with its line):

- claims that expire under a live handler, and handlers that close rows that
  are no longer theirs;
- deletion of old rows in the middle of another event's claim;
- crashes between the platform call and the report of its result, between the
  approval of a confirmation and its action, between a reply and its row;
- calls that are reported as failed after they had their effect;
- flags and rows that are read, and used several awaits later (the freeze);
- contradicting, repeated and late answers to one confirmation;
- messages that become listable late, runs that break in the middle, and a
  checkpoint that must not pass what is not complete;
- a daily run that outlives its lock, dies while it creates a document, or is
  started by hand beside the host's; markers that are written before or after;
- prepared actions in the memory of one process against confirmations in the
  database, two time limits, and an answer handled by the other process;
- packs that say one thing and servers that say another; a console that is
  cached; a lookup that is answered after its timeout;
- commands of the product that fail or are killed between two steps, while the
  services they stop and start fail by themselves; creations whose outcome is
  not known;
- liveness: redelivery after a crash, a reply that was begun, a chat that must
  catch up.

What makes each part correct. *Ledger*: exclusive handling until a handler
outlives its claim, no handling after completion, no loss. *Service*: no command
twice without a reported failure, a begun reply is delivered and nothing else is
done behind it, a freeze holds. *Confirmations*: an action is performed on its
confirmation at most once, only after a timely approval, and is announced only
if it happened; a high-risk one is performed no other way. *Supplement*: no gap
behind the checkpoint. *Daily memory*: no run creates a document beside
another's, a day that is marked has one that was read back, a day that is due is
attempted. *Capabilities*: what writes is called only to submit an action that
was approved in time, once; narrowing holds; evidence of one zone stays with it.
*Supervisor and host*: the pipeline gets ready or ends, with both children.
*Lifecycle*: what is live was verified, a failed command puts back what it
found, nobody's approval is presumed. *Provisioning*: nothing is created twice.

## 2. The modules

    ClaimLedger                the table without its clock: what handlers rely on
      ^ implemented by         EventLedger (+ EventLedgerProofs)
      ^ extended by            TwinService (+ TwinServiceProofs),
                               Confirmations (+ ConfirmationsProofs),
                               Capabilities (+ CapabilitiesProofs),
                               SupplementIntake (+ SupplementIntakeProofs)
    ConfirmedAction            what a confirmation promises
      ^ implemented by         Confirmations
    BaseConsole, CapabilityPacks
      ^ extended by            Capabilities
    DailyMemory                one run for one date
      ^ extended by            ServiceHost (+ ServiceHostProofs), which starts and
                               marks the runs
    Supervisor                 the realtime pipeline
      ^ extended by            Services (launchd's jobs), which with
    Provisioning               (the resources of a setup) is
      ^ extended by            Lifecycle (+ OperationsProofs, LifecycleProofs)
    MC*                        constants, symmetries and worlds for TLC

A definition labelled "Mutant" is the form a plausible bug would give the
definition after it. No action uses it; it shows that the property named with
it in `PROJECT.json` can fail.

**EventLedger.** `processed` is the table; a row has a status and an age (time
since `claimed_at`, or since completion), so that `claim_expires_at <= now` is
`age >= ClaimTtl`. A process is idle, has received an event, has passed
maintenance (`phase = "claiming"`), handles it or is dead. `Maintain` and
`Claim` are two actions, since `claimEvent` is two transactions. `Complete` and
`Fail` close the row by event name, whoever holds it (`Completed`, `Released`).
Checkpoint events are completed by deletion. Nothing bounds the time a handler
waits for the model and the platform together, and nothing renews its claim, so
a handler may outlive its claim at any time. That is an overrun: the event is in
`overrun` from the moment a live handler's claim has expired until its last
handler has ended, since a stale handler may close the row of the one that took
over and so let a third one in. An overrun that begins counts as one of the
faults of a run. `held` is the age of a handler's claim, `finished` that of the
last handling that ended while its event was not overrun.

**ClaimLedger.** The same without ages: a claim is free, held, lapsed or
complete. `Bounded` lets an instance leave out claims that lapse under their
handler, to keep it small; no theorem assumes it. The modules below use its
operators as the first conjunct of their own actions.

**TwinService.** `#handle` for messages, cut at every await and every database
statement, because there another process may come in or this one may die: claim,
production switch, reply-retry row, `processEvent` (with the frozen flag read
before the model is asked), the rounds of commands, `executeCommand` (`Check`
reads the execution row and the flag, `Record` marks it running, `Guard`
previews and calls, `Report` writes the result), the reply and its row,
completion. The model's answer is any answer the contract allows: commands, a
reply, and up to `MaxAsks` confirmations to request. The requests are sent one
by one (`SendConfirmation`, in a round with commands twice, as the two loops of
`service.mjs:1051` and `1176` do), and the platform may want a command confirmed
itself (`ConfirmRisk`); neither looks at the frozen flag, and neither does the
notice to the principal before a reply (`Notify`). A call may have its effect
and be reported as failed, which is what a timeout of the subprocess does. The
operator's `Freeze` and `Resume` come at any time. `late` counts what a process
sent since the freeze, the requests of one decision as one thing and the notices
not at all; `outlived` are the messages a live handler of which outlived its
claim. A run of the model lasts less than the retention period.

**Confirmations.** A message asks for an action and its confirmation is created
and shown; answers come as messages that are handled by the processes: look up,
resolve (one transaction), execute as above, second confirmation when the
platform calls the action high-risk, notify, clear, complete. `due` holds the
confirmations whose time has run out; expiry is found by the answer itself, by
maintenance or by a process that opens the database. A message that asked for a
confirmation may be read again after a failure, and then the model may decide
otherwise: its handler, one of `Askers`, executes the same command directly, on
the same row of `executions`, while the confirmation is open (`AskChecks`,
`AskRecords`, `AskWithholds`, `AskPerforms`, `AskDies`). Only what is not
high-risk takes effect that way; a high-risk command comes back with a request
for its second confirmation. `performed` counts effects on a confirmation, `own`
those for an asking handler, and `doubtful` has the actions that had an effect
when they were reported as failed, or that two handlers took up because the
check of one was stale when it recorded. `MaySwitch` says whether production may
be switched off, which completes answers unread. Rows past their retention are
not deleted here.

**ConfirmedAction.** Per action: an answer is final, the action is performed on
its confirmation at most once and only if approved; unless it is guarded
(high-risk), it may also be performed on the model's own decision.

**SupplementIntake.** One chat, two `serve` processes, a clock. A message is
sent, becomes listable up to `Delay` later, is listed by every run whose window
covers it, and is a line in the pipe with the checkpoint behind it. A run may
break while listing or while its lines are handled; its remaining lines are lost
with the pipe. The checkpoint moves to the end of the window only if every
listed message is complete. `MaintainState` deletes rows of messages past
`Retention`, and with them a checkpoint that is older: after an outage that long
the chat is like a new one. `handled` are the messages some process completed,
whether or not the row is still there, and `base` is how far back the windows
have reached since the chat last had no checkpoint.

**DailyMemory.** `runDailyMemory` for one date: the row of
`daily_memory_locks` is claimed, renewed before each write and before the model
is asked, and may expire in between. What the feedback of a run says is
summarised in its record: the last complete exact-title search (`found`), the
last complete write (`wrote`), its verification (`read`). The model chooses a
draft, nothing, or a round with one significant command; the checks of
`daily-memory-postcondition.mjs` are the guards (`Write`, `Verified`). A create
may take effect and be reported as failed, and may go on without its process
(`orphans`). The folder's search is taken to list what exists.

**ServiceHost.** The host of the daily-memory role over those runs: it is
started every minute, starts a run if the day's time has come and the marker
does not say that the day is done, and writes the marker when run and logger
ended with code 0. Runs by hand, an upgrade (which asks for new evidence), the
switch, a freeze, midnight, and the host's death are its environment.

**CapabilityPacks.** Pure: what `validatePrivateCapabilityPack` accepts, what
the server's hints say of a tool, and which capabilities `compile...` gives an
adapter. **BaseConsole.** Reading, validating and caching the console; edits at
any time. **Capabilities.** One process's handler over both: lookups within one
trust zone, commands decided without evidence, prepared actions with their
15-minute timer, the confirmation row with its 10 minutes, the principal's
answer (`AfterAnswer` has the three ways an accepted one can go), submission.
The login of the business system, the freeze and the console change at any
time. `stray` records a call of a tool that writes at any place other than a
submission.

**Supervisor.** The two children and what settles the race that ends the run;
**Services.** launchd's jobs: loaded, running, leaving; what start, stop,
bootstrap and bootout do to them, and what the jobs do by themselves. A job
that was booted out stays until its process ends.

**Provisioning.** `setup --create-missing-resources`: for each missing thing, in
order, look it up by its name, create it if there is none, read it back. What
was created may not be listed yet. `safe` is the `retry_safe` of the last error.

**Lifecycle.** A command is a script, a sequence of steps `<<what, roles>>`; a
step that fails leads to the command's recovery script, and a step that fails in
a recovery to what is left of it (`Recovery`, `Salvage`). So the handler of a
command is one sequence (`SetupScript`, `SwitchScript`, `ServiceScripts`, ...)
and the steps are shared by the commands as the functions of `cli.mjs` and
`service-host.mjs` are. The step that failed has changed nothing, except that
`init` and the removal of an installation may stop half way (`HalfDone`). A
command may be killed between any two steps (`Kill`). `vetted` records what a
doctor passed, `approved` the packs whose internal capabilities an operator
approved. Left out: what a configuration contains (each names its own packs and
resources and allows the internal capabilities or not), the copied version
trees, commands that are refused at their start, the approval of a message
scope, and setup's last look at all the records.

## 3. What the runs show

| run | question | bounds |
|---|---|---|
| `ledger` | exclusion and ownership outside of overruns, no second handling, finality of completion, refinement of ClaimLedger, and every message becomes complete | 2 processes, 1 message, 1 checkpoint event, TTL 2, maintenance every 3, retention 3, 2 faults, overruns among them |
| `service` | repetition only after a reported failure or an overrun, replies before completion, delivery, freeze, nothing performed behind a reply | 2 processes, a chat message, 1 command, 1 reply, 2 rounds, 1 confirmation per decision, 2 faults, overruns among them, 1 freeze, unbounded handlers |
| `service_live` | a begun reply is delivered | 2 processes, a chat message and a control message that freezes, 1 command, 1 reply, 1 round, 1 confirmation per decision, 2 faults, bounded handlers |
| `service_freeze_now` | *refuted*: a freeze is immediate | 2 processes, a chat message, 1 round, no confirmations, no faults, 1 freeze |
| `confirm_risky` | one answer counts, performed once, announced truthfully, refinement of ConfirmedAction | 2 processes, 2 answers, a high-risk action with 2 confirmations and another one, one at a time, 1 asking handler, 1 fault, bounded handlers |
| `confirm_crash` | *refuted*: a stored action survives a crash | 1 process, 1 answer, an action that is not high-risk, 1 fault |
| `confirm_expiry` | *refuted*: a stored action is cleared as soon as it expires | the same |
| `supplement` | no gap behind the checkpoint, and the intake catches up | 2 messages, new or known chat, lookback 1, overlap 1, delay 1, retention 1, time 1..3, 1 fault, unbounded handlers |
| `supplement_lost` | *refuted*: what was listed is never lost | 1 message, new chat, lookback 2, retention 5 (nothing is deleted), time 1..5, 1 fault |
| `daily` | no document beside another run's, marked days have a document that was read back, due days are attempted | 2 processes, 2 days, 3 rounds, 1 repeated question, 2 incidents |
| `capabilities` | submitted once and only if approved, narrowing, evidence, a confirmation in time finds its action | 1 process, 1 message of the principal, 2 answers, 2 actions, 3 rounds, 6 pairs of pack and server, 4 consoles, 2 incidents |
| `operations` | what is live was verified, recoveries restore, no second resource, definitions of loaded jobs, approvals, the pipeline settles | 2 roles, 2 versions, 2 configurations (one allows internal capabilities), a table and a record, 1 command after any number of setups that do not get their resources, 2 faults |

Why the bounds are enough. Two processes is what the program runs; the ledger's
safety is proved for any number. A claim needs a TTL of two to tell "held" from
"about to lapse", and the retention and maintenance interval one more than that
so that the deletions happen in every order. One command with two rounds reaches
duplicates, repeated rounds and changed minds; two faults reach a failure during
the recovery from a failure, and an overrun of which the stale handler or the
one that took over crashes. `service_live` leaves overruns out, since after one
the message may be completed by the other handler and its reply dropped, which
the property excepts, and has a control message instead. One request per
decision is enough, since `late` counts those of a decision as one. Two answers
are needed for a contradiction; a third only repeats one of them.
`confirm_risky` has both kinds of action, of which a behaviour touches one
(`OneActionAtATime`): no action looks at the state of another, so that two at a
time would show nothing more. In the supplement, time 3 lets the window of a new
chat slide past its first message, a checkpoint move twice, and one be deleted
with a message behind it that no run has reached. Counters of effects saturate
at two, since more than one is already wrong. Processes and answers are
interchangeable where a run has no liveness property, hence the symmetries.
`faults` and `freezes` bound how often the environment misbehaves in a run.

In `daily`, two processes are a host's run and one by hand, or two after the
host died; two days let a run outlive its own; three rounds are a search, a
write and a fetch, and two incidents reach a create that fails after it took
effect and a crash of the next run. In `capabilities` one process is enough,
since an action lives in one process only and the other would find nothing; a
restart makes another of it. The pairs of pack and server are the ways in which
their words can contradict each other. Two actions let a repeated message
prepare a second one, two answers contradict each other. In `operations`, one
command after a world that earlier commands leave (a new place, in use, at
rest, only initialised, with the packs of a setup that was killed) covers a
pair of commands; the rarer worlds begin with one fault used up. The realtime
role is the one that is kept running; one other role stands for the timed ones.

Deadlock is checked in every run but two. A `capabilities` run may stop when
its console forbids what is left to do and the bounded incidents are used up,
and an `operations` run when the installation is at rest and its command has
been given: the real systems wait there for people.

### Fairness

Weak fairness of the processes' own steps (`Progress`, `Handle`, `RunStep`):
JavaScript's event loop and the operating system go on, `lark-cli` and the model
are killed at a timeout. Weak fairness of `Restart`: launchd keeps the services
alive, and the host starts the supplement whenever it is due. Strong fairness of
the delivery of a message that is not complete, in EventLedger and TwinService:
the supplement run lists it again until a checkpoint passes it, and none does
before it is complete. That premise is what SupplementIntake checks (`NoSkip`,
`CatchesUp`) instead of assuming it, for chats that are supplemented, and
`supplement_lost` shows its limit. Weak fairness of `Resume`: an operator who
freezes ends the freeze. Weak fairness of maintenance and of time passing over
claims. There is none for faults, for answers, for freezes or for new messages.
In ServiceHost: launchd starts the host again and again (`HostStep`), a run at
work goes on, fails or is reaped, locks expire and orphaned calls end; the
operator need not do anything. In Lifecycle only the pipeline's own course is
fair: its startup timer runs out, children that were terminated end, and the
supervisor ends when both have; no command has to go on. In SupplementIntake the
claims of each message age (`ClaimsAge`), whatever becomes of the other's.
Confirmations has no fairness: an answer need not come, and what is refuted
there is a state. The ledger's liveness holds with overruns; a reply, though,
may be dropped when the message is completed by a handler that was stale, or for
one, so `ReplyEventuallySent` excepts such messages.

### Disagreements with the documents

- A freeze does not stop the call that a process has begun
  (`service.mjs:509`; `docs/security/privacy.md:61` says at once). The code
  reads the flag before it records, previews and calls. What holds is
  `FreezeLetsOneThrough`: each process sends one thing more, be it the call it
  had begun, the confirmation that the platform wants for this call, or the
  confirmations that one decision asks for, as many as they are. The private
  requests and notices (`service.mjs:580-592`, `1303-1314`) never look at the
  flag: a decision that was waited for when the freeze came still has its
  confirmations sent, in both loops, and notices go on during a freeze.
- An action approved before a crash is never attempted (`service.mjs:735`;
  `docs/security/privacy.md:51` names crash recovery as the reason to store
  it). The approval is committed first, the redelivered answer is a duplicate,
  and the opening of the database clears the action.
- A stored action outlives its ten minutes (`runtime-state.mjs:799`;
  `docs/security/privacy.md:51` says ten minutes at most, and cleared at once on
  expiry). Nothing runs when a confirmation expires: its action is cleared when
  a process next opens the database (355), at the maintenance of the day (499),
  or by a late answer (770-783). Expired, it cannot be executed.
- Before a chat has a checkpoint, a listed message whose handling failed can
  slide out of the window and be passed by a later checkpoint
  (`intake-command.mjs:179`; `docs/operations/runtime.md:13` says that cursor
  and window prevent omissions).

These have a run of their own. The following were met while modelling; the
modules contain what the code does, and the properties state what holds then.

- `createControlBaseRecord` (`cli.mjs:2017-2080`) lets the error of a failing
  read-back through, and the setup then reports `retry_safe: true` though the
  record may have been written;
  `docs/getting-started/global-configuration.md:141` says that it is false
  whenever the result of a creation is uncertain. `ReadBackFails` puts such
  records into `blind`, which `NoSecondResource` excepts.
- A first setup whose initialisation fails half way leaves a root that is not
  empty and has no `installation.json`; every later setup refuses it
  (`HalfDone`, root `partial`). `global-configuration.md:151` says that a failed
  new installation leaves nothing half initialised. `SetupRestores` is about
  recoveries that succeed.
- `docs/features/daily-memory.md:61` says that there is no second document: a
  run whose own create went unreported may create again after another search
  that does not list it yet, or in one decision with two creates.
  `NoForeignCreate` is about documents of other runs.
- A setup that narrows the configuration and is killed between the packs and
  the configuration (`cli.mjs:2887`) leaves the old configuration, which allows
  the capabilities, with packs that nobody approved, and a later `enable` passes
  its doctor; `docs/features/business-capabilities.md:59` says that a changed
  binding needs setup and a confirmation. `TrustIsApproved` says what holds for
  commands that end or recover.
- A realtime job that crashed once and was started again by launchd stays
  unhealthy, because its last exit code is read, until it is loaded again
  (`Healthy`).
- A checkpoint that lies behind the state retention is deleted
  (`runtime-state.mjs:530-533`). When the supplement has been down for longer
  than that, a known chat falls back to the lookback window and what came in the
  gap is skipped; `docs/operations/runtime.md:13` makes no such exception.
  `NoSkip` and `CatchesUp` are about messages since the chat last had no
  checkpoint.
- A message that asked for a confirmation and is read again after a failure may
  be decided otherwise, and its command, if not high-risk, executed directly
  beside the open confirmation (`service.mjs:1201`). Both look at one row of
  `executions`, but check and record it in two statements, and a reported
  failure frees it; so such an action may be performed twice, which
  `PerformedOnce` excepts (`doubtful`).
- Commands take no lock: a freeze that is given while a setup or `enable` runs
  is undone by the resume they end with. Commands are modelled one at a time.

## 4. What is proved

`EventLedgerProofs` proves for every set of processes, messages and checkpoint
events and for all time constants that satisfy `LedgerAssumption`:

- `TypeCorrect`: `Spec => []TypeOK`.
- `CompletionIsFinal`: a complete row leaves the table only past its retention,
  also when handlers outlast their claims.
- `LedgerImplementsClaims`: the table with its clock implements ClaimLedger.
  Every guarantee of the modules built on ClaimLedger therefore holds over the
  table.
- `Exclusion`, `Ownership`: outside of an overrun of an event, its handler is
  alone and its row is the handler's own.
- `HandledOnce`: a message whose handling ended in order is not handled again
  within its retention, whatever overran before or elsewhere.

Nothing is assumed of how long handlers take.

The argument. Exclusion alone is not inductive: nothing in it says that the row
of a live handler is a claimed row of the handler's own age. The inductive
invariant adds that: unless its event is overrun, a handling process owns a
claimed row whose age is the time since it claimed it (`held`) and is below the
TTL, two processes that handle the same event are the same, and a message that
was finished within the retention has a complete row of that age. So a claim
with a live handler is taken over or deleted by maintenance only during an
overrun, which is the case the induction turns on. An overrun ends with the last
handler of the event, and then nobody is left of whom the invariant would have
to be restored. For the refinement each action of EventLedger maps to an action
of ClaimLedger or to a stutter: `Tick` to `Lapse` of the claims that reach the
TTL, `Maintain` to `Sweep`, `Claim` to `Take`, `Complete` and `Fail` to
`Complete` and `Release`.

`TwinServiceProofs` proves for any processes, messages, commands, replies and
rounds, also when claims expire under their handlers, so that several processes
handle a message at once:

- `ServiceTypeCorrect`: `Spec => []TypeOK`, from the stronger fact that only
  messages are handled and that a process that executes has something to
  execute.
- `FreezeHolds`: `FreezeLetsOneThrough`. Its inductive invariant (`FreezeInv`)
  adds that a process that has sent something since the freeze, and is on its
  way to more, has read the flag after the freeze and carries it, or waits for a
  decision that will be a draft (`Silent`). The flag that `processEvent` read
  for the decision would not do for the calls: it may be older than the freeze.
  The theorem does not speak of notices.
- `RepliesAreDelivered`: `DoneIsDelivered`. Its invariant (`DeliveryInv`) follows
  the word of the call through the process, the executions row and the
  reply-retry row.

Its second part proves what the claims are for. Each property excepts the
messages in `outlived`, a live handler of which outlived its claim; that no
other message is touched by such an overrun is part of what is proved:

- `CommandsAreNotRepeated`: `RepeatNeedsFailure`. Under exclusion (`OneHandler`:
  a message that was not outlived has one handler, which holds its claim) the
  executions row of a command is in step with the handler that is at it: between
  `Check` and `Report` nobody else writes it, a row that says `running` or
  `complete` stops every later handler, and only a reported failure frees it
  (`RepeatInv`).
- `RepliesAreNotDropped`: `ReplyBeforeComplete`, and `NothingBehindReply`:
  `NoCommandBehindReply`. The reply-retry row is written before the reply and
  settled after it was delivered; a handler that has read the row, or written
  it, carries that knowledge until it completes the message (`ReplyInv`).

`ConfirmationsProofs` proves for any processes, asking handlers, replies and
actions, whether handlers overlap or not:

- `PromiseIsKept`: the module implements ConfirmedAction, for high-risk actions
  and others. The inductive invariant (`PromiseInv`): a process that may still
  perform an action holds a confirmation with status `approved`, no other
  process holds the same one, and the action has not been performed on it; what
  has been performed was approved; only a high-risk action has a second
  confirmation. The last part is what makes one confirmation settle each action.
  That an answer is accepted only while its row is pending is where the argument
  turns; neither the executions row nor the claims of the answers are needed.
- `OnlyOnce`: `PerformedOnce`, which counts the effects of asking handlers too.
  For a high-risk action it follows from the above. For any other, here the
  executions row is needed: as long as no call with effect was reported as
  failed and no check was stale, one handler at most, of an answer or of the
  asking message, has recorded the action and not reported it, the row says
  `running` meanwhile, and what has been performed leaves it at `running` or
  `complete`, so that no later check passes (`OnceFor`).

Its second part proves, under the same assumptions:

- `ApprovalFindsAction`: `ApprovedHasAction`. A confirmation that is pending
  keeps its action (`PendingIsKept`), so a handler that finds one pending when
  it answers must have read the action before: it was pending then, too, since
  no row becomes pending again (`Monotone`).
- `NoticesAreTrue`: `AnnouncedIsPerformed`, from the results handlers carry
  (`HandlerOK`).
- `ConfirmationsTyped`: `TypeOK`.

`SupplementIntakeProofs` proves, for any messages, lookback, retention, clock
bound, and a delay of listing up to the overlap, whether or not claims expire:

- `NothingIsSkipped`: `NoSkip`, for as long as the checkpoint is not deleted,
  and again after the chat has got another. The invariant says that a message is
  listed at the latest when its delay has passed, that the window of a run
  begins where the checkpoint, less the overlap, ends, and that a run whose pipe
  is full has listed all of its window that is older than the overlap. What is
  listed is complete when the checkpoint moves, and a complete row is of a
  message that was handled (`RowsAreTrue`), though maintenance may delete it
  later. The assumption `Delay <= Overlap` is where the two minutes of the code
  count.
- `IntakeTyped`: `TypeOK`.

`OperationsProofs` proves `NoSecondResourceHolds`: `NoSecondResource` from any
installation at rest, for any things, rows among them, configurations, versions
and roles, and any number of commands, failures and kills. Its invariant: what
was created and is not listed yet is in doubt, that is, a row no setup could
read back, or the last error called a retry unsafe, or a setup is reading it
back right now (`InDoubt`); and only a setup provisions, as the first of its
steps, which it begins only when the operator may retry (`ScriptInv`).

`CapabilitiesProofs` proves the safety properties of `Capabilities`, for any
processes, messages, actions, packs, servers and edits of the console. The one
assumption on a pack is that the action has a `prepare` tool; whether the pack
is valid does not matter, since what is called is decided by what the server
says of its tools (`ToolInv`).

- `SubmitsOnce`: `SubmittedOnce`. Between the answer that was accepted and the
  call stands one process, whose row was pending until then and says approved
  for ever (`OnceInv`); an adapter exists only where the server confirms the
  risk of each tool and lets the check read, so nothing else that writes is
  called.
- `NarrowingTakesEffect`: `NarrowingHolds`. No process keeps a snapshot that
  allows the action (`SettledInv`), a message keeps the configuration it
  started with, and it is asked at the preparing and at the submitting.
- `EvidenceStaysSound`: `EvidenceIsSound`, by what the record of a job keeps of
  its zone, of what it looked up and of what the model knew (`Sane`).
- `ApprovalsFindActions`: `ApprovalFindsAction`. The invariant is the property
  with its types: an action is forgotten after 15 minutes, a confirmation
  cannot be answered after 10, and what ends in between takes the row, or the
  process, with it.
- `CapabilitiesTyped`: `TypeOK`. A process that has ended has no message, no
  prepared action and nothing of the console (`PlacesInv`), a job keeps to the
  capabilities of its configuration.

`ServiceHostProofs` proves, for any runs and dates, up to
three rounds and two repeated questions:

- `NobodyCreatesBeside`: `NoForeignCreate`. The invariant follows the lock row:
  a run that is writing holds the lock of its date, and a create that goes on
  without its run holds it too, until the call ends, since nobody releases a
  dead owner's row but its expiry, which waits for the call (`LockInv`). Whoever
  holds the lock and found no document therefore still finds none, or only its
  own (`CreateInv`). The run's own second create is not excluded; see above.
- `MarkedDaysAreVerified`: `MarkedIsVerified`. A run that read back what it
  wrote has a date that is verified, one that ended well has such a date or a
  day without production, and the run the host waits for has the host's date,
  also over midnight (`MarkInv`).
- `ServiceHostTyped`: `TypeOK`.

`LifecycleProofs` proves the safety properties of the commands, for any roles,
versions, configurations and things, any number of commands, failures and
kills, from any place at rest whose data fit together (`SoundSpec`; an empty
place is one, by `EmptyIsSound`, and the invariant says that what a command
leaves when it ends is one again):

- `LiveIsAlwaysVerified`: `LiveIsVerified`; `LoadedJobsAreDefined`:
  `JobsHaveDefinitions`; `LifecycleTyped`: `LifecycleTypeOK`.
- `FailedSetupRestores`: `SetupRestores`; `TrustStaysApproved`:
  `TrustIsApproved`; `SwitchLeavesOneVersion`: `SwitchRestores`.

None of them can be inductive without knowing what a command has behind it, and
that is what it has ahead of it. `ScriptOK` says that the steps ahead are the
end of the command's script: for the fixed ones that every step and its
successor stand in it in that order and the last is its last; for a switch,
whose length depends on the roles, that a stop is followed by the start of the
same role. `PlaceOK` then says per step what is in force: which configuration,
packs, pointer and flag there are before and after the step that brings them,
and that the note holds what was found. `JobsOK` says the same of jobs and
definitions: a job that has been told to stop is still loaded, so definitions
go only when all jobs have gone, and a recovery that defines and starts roles
one by one has at each of them those before it. `Unspent` says that a setup that
provisions has not counted yet. For the switch, `SwitchOK` adds that the
pipeline runs the version the pointer names from the first restart after the
pointer moved on, and what it ran before until then.

The last proof needs the realtime role to be the first of `SERVICE_ROLES`, which
`RolesAssumption` therefore states. It is so in `service-host.mjs:18`, but
nothing there says that it matters. Were another role restarted first, and did
its restart fail, the pipeline could have crashed and been started from the new
version by then. The recovery restarts only the roles the switch had begun to
restart, so that the pipeline would stay on the new version under the old
pointer; with the order reversed TLC finds `SwitchRestores` violated.

Only model-checked: liveness (`EventuallyComplete`, `ReplyEventuallySent`,
`CatchesUp`, `DueIsAttempted`, `PipelineSettles`), which rests on fairness and
ENABLED and is out of the prover's reach, and the refuted claims. Every safety
property that a passing run checks has a theorem. Induction over data is out of
reach as well; no module here needs it, since the scripts are sequences
described by their neighbours.

## 5. What is not modelled, and why

- Processing of text: prompts, normalisation, context policy, redaction, cards,
  the topics and chats a daily memory leaves out. No state and no concurrency;
  a message is its name.
- The model adapter and `lark-cli`: their outcomes are nondeterministic.
- The chat cache and the access rules of the intake; the domains and rules of
  the Base console, which are narrowed as the capabilities are.
- Inputs of capabilities, with their constraints and limits.
- SQLite: a statement or transaction is atomic and durable, which WAL mode
  with the settings of `runtime-state.mjs` gives within one machine. For the
  same reason the status command's copy of the database and its WAL
  (`runtime-state.mjs:165`) is not modelled: it is about file contents.
- The deletion of old rows of `executions`, `confirmations` and complete events
  in TwinService and Confirmations: their runs last less than the retention
  period, which is days, while a message is redelivered and an answer counts
  within minutes. EventLedger and SupplementIntake have the deletions that
  concern them.
- The result log: one appender that rotates its own file by size; sequential.
- The continuity gate and the public snapshot: tools that look at files once;
  predicates over text, without state of their own.
- Commands of the product that only read (`status`, `doctor` by itself,
  profiles), the content of configurations, version trees, and two commands at
  once.

## 6. Order of the work, and what is left

Done: the ledger, the handler, confirmations, the supplement, the daily memory
and its host, capabilities with packs and console, supervisor, services,
provisioning and lifecycle, each with its run, and the proofs of section 4.

Left: two commands of the product at once, and the approval of a message scope.

A note for whoever changes Lifecycle: the arms of `Recovery` and `Salvage`
exclude each other. TLC takes the first arm of a CASE that is true, the
semantics any of them, so that overlapping arms would be checked as one thing
and proved as another.
