---------------------------- MODULE DailyMemory ----------------------------
(***************************************************************************)
(* runDailyMemory of service.mjs: one run writes the document of one date. *)
(* It holds the date's row of daily_memory_locks, which expires, asks the  *)
(* model in rounds for search, write and fetch commands, lets only those   *)
(* through that daily-memory-postcondition.mjs accepts, and must end with  *)
(* a document that was read back.                                          *)
(*                                                                         *)
(* Several runs may be at work, and die.  What a run's feedback says is    *)
(* summarised: the last complete exact-title search, the last complete     *)
(* write and its verification.  The search of the platform is taken to     *)
(* list what exists.                                                       *)
(***************************************************************************)
EXTENDS Naturals, FiniteSets

CONSTANTS
  Runs,       \* processes that execute the daily-memory command
  Dates,      \* target dates
  None,       \* no run, no date
  MaxRounds,  \* config.max_ai_action_rounds
  MaxRetries, \* how often the model is asked again after an empty decision
  MaxIncidents \* bound on crashes, failed calls, bad decisions, acts of the
             \* operator and midnights together

ASSUME DailyAssumption ==
  /\ None \notin Runs \cup Dates
  /\ MaxRounds \in 1 .. 3
  /\ MaxRetries \in 0 .. 2
  /\ MaxIncidents \in Nat

VARIABLES
  lock,      \* daily_memory_locks: the owner of each date's row, and whether
             \* expires_at is still to come
  docs,      \* documents of each date in the folder (saturates at two)
  orphans,   \* creates under way whose run has died
  run,       \* where each run is, and its locals
  enabled,   \* the production switch
  frozen,    \* runtime_control.frozen
  clash,     \* ghost: a create took effect beside another run's document
  verified,  \* ghost: dates whose document was read back with a body
  skipped,   \* ghost: dates a run found production disabled for
  incidents  \* ghost: how many of those there were

ghosts == <<clash, verified, skipped>>
platform == <<docs, orphans>>
operator == <<enabled, frozen>>
dailyVars == <<lock, platform, run, operator, ghosts, incidents>>

Phases == {"idle", "start", "top", "deciding", "writing", "fetching", "reread",
           "finally", "exited"}
Live == Phases \ {"idle", "exited"}

RunState ==
  [phase : Phases,
   date : Dates \cup {None},
   found : {"none", "open", "empty", "some"},         \* exactSearchFeedback
   wrote : {"no", "token", "lost"},                   \* completedWriteTarget
   read : {"none", "tried", "bad", "empty", "full"},  \* verifiedFetch
   draft : BOOLEAN,           \* processEvent saw frozen
   rounds : 0 .. MaxRounds,   \* actionRounds
   retries : 0 .. MaxRetries, \* emptyDailyDecisionRetries
   rereads : 0 .. 2,          \* retryIndex
   auto : BOOLEAN,            \* automaticDailyVerificationAttempted
   created : BOOLEAN,         \* ghost: it has created a document
   ok : BOOLEAN]              \* the exit code is 0

Fresh ==
  [phase |-> "idle", date |-> None, found |-> "none", wrote |-> "no",
   read |-> "none", draft |-> FALSE, rounds |-> 0, retries |-> 0, rereads |-> 0,
   auto |-> FALSE, created |-> FALSE, ok |-> FALSE]

DailyTypeOK ==
  /\ lock \in [Dates -> [owner : Runs \cup {None}, valid : BOOLEAN]]
  /\ docs \in [Dates -> 0 .. 2]
  /\ orphans \subseteq [by : Runs, date : Dates, created : BOOLEAN]
  /\ run \in [Runs -> RunState]
  /\ enabled \in BOOLEAN /\ frozen \in BOOLEAN
  /\ clash \in BOOLEAN
  /\ verified \subseteq Dates /\ skipped \subseteq Dates
  /\ incidents \in 0 .. MaxIncidents

DailyInit ==
  /\ lock = [d \in Dates |-> [owner |-> None, valid |-> FALSE]]
  /\ docs = [d \in Dates |-> 0]
  /\ orphans = {}
  /\ run = [r \in Runs |-> Fresh]
  /\ enabled = TRUE /\ frozen = FALSE
  /\ clash = FALSE /\ verified = {} /\ skipped = {}
  /\ incidents = 0

Incident == incidents < MaxIncidents /\ incidents' = incidents + 1

-----------------------------------------------------------------------------
(* The lock.                                                                *)

(* Mutant: a row is never taken over. *)
FreeIfAbsent(d) == lock[d].owner = None

FreeLock(d) == lock[d].owner = None \/ ~lock[d].valid

ClaimDailyMemoryRun(r, d) ==
  /\ FreeLock(d)
  /\ lock' = [lock EXCEPT ![d] = [owner |-> r, valid |-> TRUE]]

(* renewDailyMemoryRun changes a row.                                       *)
Holds(r) == LET l == lock[run[r].date] IN l.owner = r /\ l.valid
Renew(r) == lock' = [lock EXCEPT ![run[r].date].valid = TRUE]

ReleaseDailyMemoryRun(r) ==
  LET d == run[r].date IN
  lock' = IF lock[d].owner = r
          THEN [lock EXCEPT ![d] = [owner |-> None, valid |-> FALSE]]
          ELSE lock

-----------------------------------------------------------------------------
(* The life of a run.                                                       *)

In(r, p) == run[r].phase = p
Go(r, s) == run' = [run EXCEPT ![r] = s]
Goto(r, p) == Go(r, [run[r] EXCEPT !.phase = p])

(* The handler returns (ok) or throws; the finally of runDailyMemory is     *)
(* still to come.                                                           *)
Ends(r, ok) ==
  Go(r, [Fresh EXCEPT !.phase = "finally", !.date = run[r].date, !.ok = ok])
Throws(r) == Ends(r, FALSE)

Begin(r, d) ==
  /\ In(r, "idle")
  /\ ClaimDailyMemoryRun(r, d)
  /\ Go(r, [Fresh EXCEPT !.phase = "start", !.date = d])
  /\ UNCHANGED <<platform, operator, ghosts>>

(* Another run has the lock: the process fails.                             *)
Refused(r, d) ==
  /\ In(r, "idle")
  /\ ~FreeLock(d)
  /\ Go(r, [Fresh EXCEPT !.phase = "exited", !.date = d])
  /\ UNCHANGED <<lock, platform, operator, ghosts>>

(* With production disabled the event is completed, and the run is a        *)
(* success that has written nothing.                                        *)
Handle(r) ==
  /\ In(r, "start")
  /\ IF enabled
     THEN Goto(r, "top") /\ UNCHANGED skipped
     ELSE Ends(r, TRUE) /\ skipped' = skipped \cup {run[r].date}
  /\ UNCHANGED <<lock, platform, operator, clash, verified, incidents>>

Finish(r) ==
  /\ In(r, "finally")
  /\ ReleaseDailyMemoryRun(r)
  /\ Goto(r, "exited")
  /\ UNCHANGED <<platform, operator, ghosts, incidents>>

-----------------------------------------------------------------------------
(* The loop: the model decides.                                             *)

(* Mutant: a fetch that was tried is a verification. *)
TriedIsVerified(s) ==
  s.found \in {"empty", "some"} /\ s.wrote = "token" /\ s.read # "none"

(* dailyMemoryProgress.complete; assertDailyMemoryCompletion asks the same. *)
Verified(s) ==
  s.found \in {"empty", "some"} /\ s.wrote = "token" /\ s.read = "full"

Concludes(r) == Ends(r, Verified(run[r]))

(* The lock is renewed and the progress computed, which throws when an      *)
(* incomplete search follows a write; processEvent reads the frozen flag.   *)
AskModel(r) ==
  /\ In(r, "top")
  /\ IF Holds(r) /\ ~(run[r].wrote # "no" /\ run[r].found = "open")
     THEN Go(r, [run[r] EXCEPT !.phase = "deciding", !.draft = frozen])
     ELSE Throws(r)
  /\ IF Holds(r) THEN Renew(r) ELSE UNCHANGED lock
  /\ UNCHANGED <<platform, operator, ghosts, incidents>>

(* The model cannot be asked, or a command or request of its answer is one  *)
(* that a silent event may not make.                                        *)
Misdecide(r) ==
  /\ In(r, "deciding")
  /\ Incident
  /\ Throws(r)
  /\ UNCHANGED <<lock, platform, operator, ghosts>>

(* A draft, which a frozen twin always gives, and a decision without        *)
(* commands end the loop; the latter only if the run is verified, or the    *)
(* model has been asked again often enough.                                 *)
Unfetched(s) == s.wrote # "no" /\ ~Verified(s) /\ ~s.auto /\ s.read = "none"

DecideDraft(r) ==
  /\ In(r, "deciding")
  /\ Concludes(r)
  /\ UNCHANGED <<lock, platform, operator, ghosts, incidents>>

DecideNothing(r) ==
  LET s == run[r] IN
  /\ In(r, "deciding")
  /\ ~s.draft
  /\ ~Unfetched(s)
  /\ \/ Verified(s) /\ Concludes(r) /\ UNCHANGED incidents
     \/ ~Verified(s) /\ s.retries = MaxRetries /\ Concludes(r) /\ UNCHANGED incidents
     \/ /\ ~Verified(s) /\ s.retries < MaxRetries /\ Incident
        /\ Go(r, [s EXCEPT !.phase = "top", !.retries = @ + 1])
  /\ UNCHANGED <<lock, platform, operator, ghosts>>

-----------------------------------------------------------------------------
(* Rounds: one command that matters to the run, beside others that read.    *)

(* Mutant: rounds without a limit. *)
RoundWithoutLimit(r) == In(r, "deciding") /\ ~run[r].draft

Round(r) == In(r, "deciding") /\ ~run[r].draft /\ run[r].rounds < MaxRounds
Used(r) == [run[r] EXCEPT !.phase = "top", !.rounds = @ + 1]

OutOfRounds(r) ==
  /\ In(r, "deciding")
  /\ ~run[r].draft
  /\ run[r].rounds = MaxRounds
  /\ Concludes(r)
  /\ UNCHANGED <<lock, platform, operator, ghosts, incidents>>

(* Only commands that the executions table has as complete: the loop ends.  *)
Duplicates(r) ==
  /\ Round(r)
  /\ run[r].rounds > 0
  /\ Concludes(r)
  /\ UNCHANGED <<lock, platform, operator, ghosts, incidents>>

(* The guard does not execute (frozen), or the command fails.               *)
NotExecuted(r) ==
  /\ Round(r)
  /\ IF frozen THEN UNCHANGED incidents ELSE Incident
  /\ Go(r, Used(r))
  /\ UNCHANGED <<lock, platform, operator, ghosts>>

(* The exact-title search.  A later search may show that another document   *)
(* is newer than the one that was written.                                  *)
Search(r) ==
  LET s == run[r]
      targets == IF s.wrote = "token" /\ docs[s.date] > 1 THEN {"token", "lost"}
                 ELSE {s.wrote}
  IN
  /\ Round(r)
  /\ ~frozen
  /\ \E target \in targets :
       Go(r, [Used(r) EXCEPT !.wrote = target,
                             !.found = IF docs[s.date] > 0 THEN "some" ELSE "empty"])
  /\ UNCHANGED <<lock, platform, operator, ghosts, incidents>>

(* It has more pages: that is no result.                                    *)
SearchPartly(r) ==
  /\ Round(r)
  /\ ~frozen
  /\ Incident
  /\ Go(r, [Used(r) EXCEPT !.found = "open"])
  /\ UNCHANGED <<lock, platform, operator, ghosts>>

(* Mutant: a write needs no lock. *)
WriteUnlocked(r, needs) ==
  /\ IF run[r].found = needs THEN Go(r, [Used(r) EXCEPT !.phase = "writing"])
                             ELSE Throws(r)
  /\ UNCHANGED lock

(* The lock is renewed before a write, and the search must allow it.        *)
Write(r, needs) ==
  /\ IF Holds(r) THEN Renew(r) ELSE UNCHANGED lock
  /\ IF Holds(r) /\ run[r].found = needs
     THEN Go(r, [Used(r) EXCEPT !.phase = "writing"])
     ELSE Throws(r)

Creating(r) == In(r, "writing") /\ run[r].found = "empty"
Updating(r) == In(r, "writing") /\ run[r].found = "some"

StartWrite(r) ==
  /\ Round(r)
  /\ ~frozen
  /\ Write(r, "empty") \/ Write(r, "some")
  /\ UNCHANGED <<platform, operator, ghosts, incidents>>

Land(d, own) ==
  /\ docs' = [docs EXCEPT ![d] = IF @ < 2 THEN @ + 1 ELSE 2]
  /\ clash' = (clash \/ (docs[d] > 0 /\ ~own))

(* The answer has the token of the new document, or lacks it.               *)
Created(r) ==
  /\ Creating(r)
  /\ Land(run[r].date, run[r].created)
  /\ \E target \in {"token", "lost"} :
       /\ IF target = "lost" THEN Incident ELSE UNCHANGED incidents
       /\ Go(r, [run[r] EXCEPT !.phase = "top", !.wrote = target, !.read = "none",
                               !.created = TRUE])
  /\ UNCHANGED <<lock, orphans, operator, verified, skipped>>

(* The newest document is overwritten.                                      *)
Updated(r) ==
  /\ Updating(r)
  /\ Go(r, [run[r] EXCEPT !.phase = "top", !.wrote = "token", !.read = "none"])
  /\ UNCHANGED <<lock, platform, operator, ghosts, incidents>>

(* The call fails, or is killed, before or after it took effect.            *)
WriteFails(r) ==
  /\ In(r, "writing")
  /\ Incident
  /\ \/ /\ Creating(r)
        /\ Land(run[r].date, run[r].created)
        /\ Go(r, [run[r] EXCEPT !.phase = "top", !.created = TRUE])
     \/ Goto(r, "top") /\ UNCHANGED <<docs, clash>>
  /\ UNCHANGED <<lock, orphans, operator, verified, skipped>>

(* The fetch of what was written: the model's, or, once, the runtime's own. *)
StartFetch(r) ==
  /\ Round(r)
  /\ run[r].wrote # "no"
  /\ Go(r, [Used(r) EXCEPT !.phase = "fetching"])
  /\ UNCHANGED <<lock, platform, operator, ghosts, incidents>>

FetchUnasked(r) ==
  /\ In(r, "deciding")
  /\ ~run[r].draft
  /\ Unfetched(run[r])
  /\ IF run[r].wrote = "lost" \/ run[r].rounds = MaxRounds
     THEN Throws(r)
     ELSE Go(r, [Used(r) EXCEPT !.phase = "fetching", !.auto = TRUE])
  /\ UNCHANGED <<lock, platform, operator, ghosts, incidents>>

Fetched(r) ==
  /\ In(r, "fetching")
  /\ ~frozen
  /\ Go(r, [run[r] EXCEPT !.phase = "top", !.read = "full", !.rereads = 0])
  /\ verified' = IF run[r].wrote = "token" THEN verified \cup {run[r].date} ELSE verified
  /\ UNCHANGED <<lock, platform, operator, clash, skipped, incidents>>

(* Something else is read, or an empty body, which is read again.           *)
FetchedBadly(r) ==
  LET s == run[r] IN
  /\ In(r, "fetching")
  /\ ~frozen
  /\ Incident
  /\ \/ Go(r, [s EXCEPT !.phase = "top", !.read = "bad", !.rereads = 0])
     \/ IF s.wrote = "token" /\ s.rereads < 2
        THEN Go(r, [s EXCEPT !.read = "empty", !.phase = "reread"])
        ELSE Go(r, [s EXCEPT !.phase = "top", !.read = "empty", !.rereads = 0])
  /\ UNCHANGED <<lock, platform, operator, ghosts>>

FetchFails(r) ==
  /\ In(r, "fetching")
  /\ IF frozen THEN UNCHANGED incidents ELSE Incident
  /\ Go(r, [run[r] EXCEPT !.phase = "top", !.rereads = 0,
                          !.read = IF @ = "none" THEN "tried" ELSE @])
  /\ UNCHANGED <<lock, platform, operator, ghosts>>

(* An empty body is read again, after a pause under a renewed lock.         *)
Reread(r) ==
  /\ In(r, "reread")
  /\ IF Holds(r)
     THEN Renew(r) /\ Go(r, [run[r] EXCEPT !.phase = "fetching", !.rereads = @ + 1])
     ELSE Throws(r) /\ UNCHANGED lock
  /\ UNCHANGED <<platform, operator, ghosts, incidents>>

-----------------------------------------------------------------------------
(* Crashes, and what time brings.                                           *)

(* The row of the lock stays; a create may go on without its run.           *)
Crash(r) ==
  LET s == run[r] IN
  /\ s.phase \in Live
  /\ Incident
  /\ Go(r, [Fresh EXCEPT !.phase = "exited", !.date = s.date])
  /\ orphans' = IF Creating(r)
                THEN orphans \cup {[by |-> r, date |-> s.date, created |-> s.created]}
                ELSE orphans
  /\ UNCHANGED <<lock, docs, operator, ghosts>>

OrphanEnds(o) ==
  /\ o \in orphans
  /\ orphans' = orphans \ {o}
  /\ Land(o.date, o.created) \/ UNCHANGED <<docs, clash>>
  /\ UNCHANGED <<lock, run, operator, verified, skipped, incidents>>

(* Thirty minutes pass without a renewal.  A call to the platform, which is *)
(* killed after 30 seconds, does not take as long.                          *)
LockExpires(d) ==
  /\ lock[d].valid
  /\ \A r \in Runs : In(r, "writing") => run[r].date # d
  /\ \A o \in orphans : o.date # d
  /\ lock' = [lock EXCEPT ![d].valid = FALSE]
  /\ UNCHANGED <<platform, run, operator, ghosts, incidents>>

-----------------------------------------------------------------------------

RunGoesOn(r) ==
  \/ Handle(r) \/ Finish(r) \/ AskModel(r)
  \/ DecideDraft(r) \/ DecideNothing(r) \/ OutOfRounds(r) \/ Duplicates(r)
  \/ Search(r) \/ StartWrite(r) \/ Created(r) \/ Updated(r)
  \/ StartFetch(r) \/ FetchUnasked(r) \/ Fetched(r) \/ Reread(r)
  \/ NotExecuted(r) \/ FetchFails(r)

RunFails(r) ==
  \/ Misdecide(r) \/ SearchPartly(r) \/ WriteFails(r) \/ FetchedBadly(r) \/ Crash(r)

DailyStep ==
  \E r \in Runs : RunGoesOn(r) \/ RunFails(r)

TimePasses == (\E d \in Dates : LockExpires(d)) \/ (\E o \in orphans : OrphanEnds(o))

-----------------------------------------------------------------------------

(* No run creates a document for a date that has one of another run: not    *)
(* when a run outlives its lock, dies while it creates, or is started by    *)
(* hand beside the host's.                                                  *)
NoForeignCreate == ~clash

=============================================================================
