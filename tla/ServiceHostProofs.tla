------------------------- MODULE ServiceHostProofs -------------------------
(***************************************************************************)
(* Proofs about DailyMemory and ServiceHost, for any processes, dates and  *)
(* limits: the types, that no run creates a document beside another run's, *)
(* and that a day marked as done has a document that was read back.        *)
(***************************************************************************)
EXTENDS ServiceHost, TLAPS

-----------------------------------------------------------------------------
(* Types.                                                                   *)

(* What a run keeps besides its type: only an idle process has no date, and *)
(* a body is read again at most twice.                                      *)
Proper(s) ==
  /\ s \in RunState
  /\ s.phase # "idle" => s.date \in Dates
  /\ s.phase = "reread" => s.rereads < 2

TypeInv ==
  /\ TypeOK
  /\ \A r \in Runs : Proper(run[r])
  /\ host.doing = "running" => host.slot \in Runs

(* What the runs of dates that share a lock must agree on.  A run that is   *)
(* writing holds the lock of its date; so does a run that died while it     *)
(* created, until the call ends, and no other create of that date, nor the  *)
(* same process at work on it again, is beside it.                          *)
LockInv ==
  /\ \A r \in Runs : In(r, "writing") => Holds(r)
  /\ \A o \in orphans :
       /\ lock[o.date].owner = o.by /\ lock[o.date].valid
       /\ run[o.by].phase \in Live => run[o.by].date # o.date
  /\ \A o, p \in orphans : o.date = p.date => o = p

(* Whoever holds the lock and found no document still finds none, or only   *)
(* its own; so does a create that goes on without its run.                  *)
CreateInv ==
  /\ \A r \in Runs : run[r].phase \in Live /\ Holds(r) /\ run[r].found = "empty" =>
       docs[run[r].date] = 0 \/ run[r].created
  /\ \A o \in orphans : docs[o.date] = 0 \/ o.created
  /\ ~clash

(* A run that read what it wrote, or that ended well, has a date that is    *)
(* verified or skipped; the run that the host waits for has the host's      *)
(* date.                                                                    *)
Done == verified \cup skipped
MarkInv ==
  /\ \A r \in Runs : run[r].wrote = "token" /\ run[r].read = "full" => run[r].date \in verified
  /\ \A r \in Runs : run[r].ok => run[r].date \in Done
  /\ host.doing = "running" =>
       /\ host.date \in Dates
       /\ run[host.slot].phase # "idle" /\ run[host.slot].date = host.date
  /\ MarkedIsVerified

LEMMA Limits ==
  /\ MaxRounds \in Nat /\ MaxRetries \in Nat
  /\ 0 \in 0 .. MaxRounds /\ 0 \in 0 .. MaxRetries /\ 0 \in 0 .. 2
  BY DailyAssumption

LEMMA FreshOK == Fresh \in RunState /\ Proper(Fresh)
<1>1. Fresh \in RunState
  BY Limits DEF Fresh, RunState, Phases
<1> QED BY <1>1 DEF Proper, Fresh

LEMMA RunTypes ==
  ASSUME TypeInv, NEW r \in Runs
  PROVE  run[r] \in RunState /\ Proper(run[r]) /\ run \in [Runs -> RunState]
  BY DEF TypeInv, TypeOK, DailyTypeOK

LEMMA GoIs ==
  ASSUME TypeInv, NEW r \in Runs, NEW s, Go(r, s)
  PROVE  run'[r] = s /\ DOMAIN run' = Runs /\ \A q \in Runs : q # r => run'[q] = run[q]
  BY RunTypes DEF Go

(* Where a run goes without changing its locals.                            *)
LEMMA GotoIs ==
  ASSUME TypeInv, NEW r \in Runs, NEW p \in Phases \ {"idle", "reread"}, Goto(r, p),
         run[r].date \in Dates
  PROVE  Proper(run'[r]) /\ run'[r].date = run[r].date
<1>1. run'[r] = [run[r] EXCEPT !.phase = p] /\ run[r] \in RunState
  BY GoIs, RunTypes DEF Goto
<1>2. run'[r] \in RunState /\ run'[r].phase = p /\ run'[r].date = run[r].date
  BY <1>1 DEF RunState
<1> QED BY <1>2 DEF Proper

(* How a run ends.                                                          *)
LEMMA EndsIs ==
  ASSUME TypeInv, NEW r \in Runs, NEW ok \in BOOLEAN, Ends(r, ok),
         run[r].date \in Dates
  PROVE  /\ Proper(run'[r]) /\ run'[r].date = run[r].date /\ run'[r].ok = ok
         /\ run'[r].phase = "finally" /\ run'[r].found = "none" /\ run'[r].wrote = "no"
<1>1. run'[r] = [Fresh EXCEPT !.phase = "finally", !.date = run[r].date, !.ok = ok]
  BY GoIs DEF Ends
<1>2. run'[r] \in RunState
  BY <1>1, FreshOK DEF RunState, Phases
<1>3. /\ run'[r].phase = "finally" /\ run'[r].date = run[r].date /\ run'[r].ok = ok
      /\ run'[r].found = "none" /\ run'[r].wrote = "no"
  BY <1>1 DEF Fresh
<1> QED BY <1>2, <1>3 DEF Proper

(* A round that is used.                                                    *)
LEMMA UsedIs ==
  ASSUME TypeInv, NEW r \in Runs, run[r].rounds # MaxRounds, run[r].phase # "idle"
  PROVE  /\ Used(r) \in RunState
         /\ Used(r).phase = "top" /\ Used(r).date = run[r].date
         /\ Used(r).found = run[r].found /\ Used(r).wrote = run[r].wrote
         /\ Used(r).read = run[r].read /\ Used(r).created = run[r].created
         /\ Used(r).ok = run[r].ok
         /\ run[r].date \in Dates
<1>1. run[r] \in RunState /\ Proper(run[r])
  BY RunTypes
<1>2. run[r].rounds \in 0 .. MaxRounds
  BY <1>1 DEF RunState
<1>3. run[r].rounds + 1 \in 0 .. MaxRounds
  BY <1>2, Limits
<1>4. Used(r) = [run[r] EXCEPT !.phase = "top", !.rounds = run[r].rounds + 1]
  BY DEF Used
<1>5. Used(r) \in RunState
  BY <1>1, <1>3, <1>4 DEF RunState, Phases
<1>6. /\ Used(r).phase = "top" /\ Used(r).date = run[r].date
      /\ Used(r).found = run[r].found /\ Used(r).wrote = run[r].wrote
      /\ Used(r).read = run[r].read /\ Used(r).created = run[r].created
      /\ Used(r).ok = run[r].ok
  BY <1>1, <1>4 DEF RunState
<1> QED BY <1>1, <1>5, <1>6 DEF Proper

(* What every step of a run does to it.  It stays at its date; it begins to *)
(* write, or to read again, only with the lock; it has found no document    *)
(* only if it knew so before or there is none; it forgets that it created   *)
(* only with what it found; and what it read, and how it ended, agrees with *)
(* what is verified or skipped.                                             *)
Moved(r) ==
  /\ Proper(run'[r]) /\ run'[r].date = run[r].date /\ run[r].phase \in Live
  /\ run'[r].phase # "idle"
  /\ run'[r].phase = "writing" => Holds(r)
  /\ run'[r].found = "empty" => run[r].found = "empty" \/ docs[run[r].date] = 0
  /\ run'[r].found = "empty" /\ run[r].created => run'[r].created
  /\ run'[r].wrote = "token" /\ run'[r].read = "full" =>
       (run[r].wrote = "token" /\ run[r].read = "full") \/ run[r].date \in verified'
  /\ run'[r].ok => run[r].ok \/ Verified(run[r]) \/ run[r].date \in skipped'

LEMMA AsksItself ==
  ASSUME NEW u \in RunState
  PROVE  [u EXCEPT !.phase = "fetching", !.auto = TRUE] \in RunState
<1>1. "fetching" \in Phases /\ TRUE \in BOOLEAN
  BY DEF Phases
<1> QED BY <1>1 DEF RunState

LEMMA EndMoves ==
  ASSUME TypeInv, NEW r \in Runs, NEW ok \in BOOLEAN, Ends(r, ok),
         run[r].phase \in Live, ok => Verified(run[r]) \/ run[r].date \in skipped'
  PROVE  Moved(r)
<1>1. run[r].date \in Dates
  BY RunTypes DEF Proper, Live
<1> QED BY <1>1, EndsIs DEF Moved

LEMMA MoveRun ==
  ASSUME TypeInv, NEW r \in Runs, RunGoesOn(r) \/ RunFails(r)
  PROVE  Moved(r)
<1> USE DEF In
<1>a. run[r] \in RunState /\ Proper(run[r])
  BY RunTypes
<1>b. ASSUME run[r].phase \in Live PROVE run[r].date \in Dates
  BY <1>a, <1>b DEF Proper, Live
<1>c. ASSUME run[r].phase \in Live, Throws(r) PROVE Moved(r)
  BY <1>c, EndMoves DEF Throws
<1>d. ASSUME run[r].phase \in Live, Concludes(r) PROVE Moved(r)
  <2>1. Verified(run[r]) \in BOOLEAN
    BY DEF Verified
  <2> QED BY <1>d, <2>1, EndMoves DEF Concludes
<1>e. ASSUME NEW p \in Phases \ {"idle", "reread", "writing"}, Goto(r, p),
             run[r].phase \in Live
      PROVE  Moved(r)
  <2>1. run'[r] = [run[r] EXCEPT !.phase = p]
    BY <1>e, GoIs DEF Goto
  <2>2. /\ run'[r].phase = p /\ run'[r].found = run[r].found
        /\ run'[r].wrote = run[r].wrote /\ run'[r].read = run[r].read
        /\ run'[r].created = run[r].created /\ run'[r].ok = run[r].ok
    BY <1>a, <2>1 DEF RunState
  <2> QED BY <1>b, <1>e, <2>2, GotoIs DEF Moved
<1>1. CASE Handle(r)
  <2>1. run[r].phase \in Live
    BY <1>1 DEF Handle, Live, Phases
  <2>2. CASE Goto(r, "top")
    BY <1>e, <2>1, <2>2 DEF Phases
  <2>3. CASE Ends(r, TRUE) /\ skipped' = skipped \cup {run[r].date}
    BY <2>1, <2>3, EndMoves
  <2> QED BY <1>1, <2>2, <2>3 DEF Handle
<1>2. CASE Finish(r)
  BY <1>2, <1>e DEF Finish, Live, Phases
<1>3. CASE AskModel(r)
  <2>1. run[r].phase \in Live
    BY <1>3 DEF AskModel, Live, Phases
  <2>2. CASE Go(r, [run[r] EXCEPT !.phase = "deciding", !.draft = frozen])
    <3>1. run'[r] = [run[r] EXCEPT !.phase = "deciding", !.draft = frozen]
      BY <2>2, GoIs
    <3>2. frozen \in BOOLEAN
      BY DEF TypeInv, TypeOK, DailyTypeOK
    <3>3. run'[r] \in RunState
      BY <1>a, <3>1, <3>2 DEF RunState, Phases
    <3>4. /\ run'[r].phase = "deciding" /\ run'[r].date = run[r].date
          /\ run'[r].found = run[r].found
          /\ run'[r].wrote = run[r].wrote /\ run'[r].read = run[r].read
          /\ run'[r].created = run[r].created /\ run'[r].ok = run[r].ok
      BY <1>a, <3>1 DEF RunState
    <3> QED BY <1>b, <2>1, <3>3, <3>4 DEF Moved, Proper
  <2> QED BY <1>3, <1>c, <2>1, <2>2 DEF AskModel
<1>4. CASE DecideDraft(r)
  BY <1>4, <1>d DEF DecideDraft, Live, Phases
<1>5. CASE DecideNothing(r)
  <2>1. run[r].phase \in Live
    BY <1>5 DEF DecideNothing, Live, Phases
  <2>2. CASE /\ run[r].retries < MaxRetries
             /\ Go(r, [run[r] EXCEPT !.phase = "top", !.retries = @ + 1])
    <3>1. run'[r] = [run[r] EXCEPT !.phase = "top", !.retries = run[r].retries + 1]
      BY <2>2, GoIs
    <3>2. run[r].retries \in 0 .. MaxRetries
      BY <1>a DEF RunState
    <3>3. run[r].retries + 1 \in 0 .. MaxRetries
      BY <2>2, <3>2, Limits
    <3>4. run'[r] \in RunState
      BY <1>a, <3>1, <3>3 DEF RunState, Phases
    <3>5. /\ run'[r].phase = "top" /\ run'[r].date = run[r].date
          /\ run'[r].found = run[r].found
          /\ run'[r].wrote = run[r].wrote /\ run'[r].read = run[r].read
          /\ run'[r].created = run[r].created /\ run'[r].ok = run[r].ok
      BY <1>a, <3>1 DEF RunState
    <3> QED BY <1>b, <2>1, <3>4, <3>5 DEF Moved, Proper
  <2> QED BY <1>5, <1>d, <2>1, <2>2 DEF DecideNothing
<1>6. CASE OutOfRounds(r)
  BY <1>6, <1>d DEF OutOfRounds, Live, Phases
<1>7. CASE Duplicates(r)
  BY <1>7, <1>d DEF Duplicates, Round, Live, Phases
<1>8. CASE Search(r)
  <2>1. run[r].phase \in Live /\ run[r].phase # "idle" /\ run[r].rounds # MaxRounds
    <3>1. In(r, "deciding") /\ run[r].rounds < MaxRounds
      BY <1>8 DEF Search, Round
    <3>2. run[r].rounds \in 0 .. MaxRounds
      BY <1>a DEF RunState
    <3> QED BY <3>1, <3>2, Limits DEF Live, Phases
  <2>2. PICK w \in {"lost", run[r].wrote} :
          /\ w = "lost" \/ w = run[r].wrote
          /\ Go(r, [Used(r) EXCEPT !.wrote = w,
                      !.found = IF docs[run[r].date] > 0 THEN "some" ELSE "empty"])
    BY <1>8 DEF Search
  <2> DEFINE f == IF docs[run[r].date] > 0 THEN "some" ELSE "empty"
  <2>3. run'[r] = [Used(r) EXCEPT !.wrote = w, !.found = f]
    BY <2>2, GoIs
  <2>4. f \in {"some", "empty"} /\ (f = "empty" => docs[run[r].date] = 0)
    <3>1. docs[run[r].date] \in 0 .. 2
      BY <1>b, <2>1 DEF TypeInv, TypeOK, DailyTypeOK
    <3> QED BY <3>1
  <2>5. w \in {"no", "token", "lost"}
    BY <1>a, <2>2 DEF RunState
  <2> HIDE DEF f
  <2>6. run'[r] \in RunState
    <3>1. Used(r) \in RunState /\ f \in {"some", "empty"}
      BY <2>1, <2>4, UsedIs
    <3> QED BY <3>1, <2>3, <2>5 DEF RunState
  <2>7. /\ run'[r].phase = "top" /\ run'[r].date = run[r].date
        /\ run'[r].found = f
        /\ run'[r].wrote = w /\ run'[r].read = run[r].read
        /\ run'[r].created = run[r].created /\ run'[r].ok = run[r].ok
    BY <2>1, <2>3, UsedIs DEF RunState
  <2> QED BY <1>b, <2>1, <2>2, <2>4, <2>6, <2>7 DEF Moved, Proper
<1>9. CASE StartWrite(r)
  <2>1. run[r].phase \in Live /\ run[r].phase # "idle" /\ run[r].rounds # MaxRounds
    <3>1. In(r, "deciding") /\ run[r].rounds < MaxRounds
      BY <1>9 DEF StartWrite, Round
    <3>2. run[r].rounds \in 0 .. MaxRounds
      BY <1>a DEF RunState
    <3> QED BY <3>1, <3>2, Limits DEF Live, Phases
  <2>2. CASE Holds(r) /\ Go(r, [Used(r) EXCEPT !.phase = "writing"])
    <3>1. run'[r] = [Used(r) EXCEPT !.phase = "writing"]
      BY <2>2, GoIs
    <3>2. run'[r] \in RunState
      <4>1. Used(r) \in RunState
        BY <2>1, <3>1, UsedIs
      <4> QED BY <3>1, <4>1, SMTT(30) DEF RunState, Phases
    <3>3. /\ run'[r].phase = "writing" /\ run'[r].date = run[r].date
          /\ run'[r].found = run[r].found
          /\ run'[r].wrote = run[r].wrote /\ run'[r].read = run[r].read
          /\ run'[r].created = run[r].created /\ run'[r].ok = run[r].ok
      BY <2>1, <3>1, UsedIs DEF RunState
    <3> QED BY <1>b, <2>1, <2>2, <3>2, <3>3 DEF Moved, Proper
  <2> QED BY <1>9, <1>c, <2>1, <2>2 DEF StartWrite, Write
<1>10. CASE Created(r)
  <2>1. PICK w \in {"token", "lost"} :
          Go(r, [run[r] EXCEPT !.phase = "top", !.wrote = w, !.read = "none",
                               !.created = TRUE])
    BY <1>10 DEF Created
  <2>2. run[r].phase \in Live
    BY <1>10 DEF Created, Creating, Live, Phases
  <2>3. run'[r] = [run[r] EXCEPT !.phase = "top", !.wrote = w, !.read = "none",
                                 !.created = TRUE]
    BY <2>1, GoIs
  <2>4. run'[r] \in RunState
    BY <1>a, <2>3 DEF RunState, Phases
  <2>5. /\ run'[r].phase = "top" /\ run'[r].date = run[r].date
        /\ run'[r].found = run[r].found /\ run'[r].read = "none"
        /\ run'[r].created = TRUE /\ run'[r].ok = run[r].ok
    BY <1>a, <2>3 DEF RunState
  <2> QED BY <1>b, <2>2, <2>4, <2>5 DEF Moved, Proper
<1>11. CASE Updated(r)
  <2>1. run[r].phase \in Live
    BY <1>11 DEF Updated, Updating, Live, Phases
  <2>2. run'[r] = [run[r] EXCEPT !.phase = "top", !.wrote = "token", !.read = "none"]
    BY <1>11, GoIs DEF Updated, Updating
  <2>3. run'[r] \in RunState
    BY <1>a, <2>2 DEF RunState, Phases
  <2>4. /\ run'[r].phase = "top" /\ run'[r].date = run[r].date
        /\ run'[r].found = run[r].found /\ run'[r].wrote = "token"
        /\ run'[r].read = "none" /\ run'[r].created = run[r].created
        /\ run'[r].ok = run[r].ok
    BY <1>a, <2>2 DEF RunState
  <2> QED BY <1>b, <2>1, <2>3, <2>4 DEF Moved, Proper
<1>12. CASE StartFetch(r)
  <2>1. run[r].phase \in Live /\ run[r].phase # "idle" /\ run[r].rounds # MaxRounds
    <3>1. run[r].rounds \in 0 .. MaxRounds
      BY <1>a DEF RunState
    <3> QED BY <1>12, <3>1, Limits DEF StartFetch, Round, Live, Phases
  <2>2. run'[r] = [Used(r) EXCEPT !.phase = "fetching"]
    BY <1>12, GoIs DEF StartFetch, Round
  <2>3. run'[r] \in RunState
    <3>1. Used(r) \in RunState
      BY <2>1, <2>2, UsedIs
    <3> QED BY <2>2, <3>1, SMTT(30) DEF RunState, Phases
  <2>4. /\ run'[r].phase = "fetching" /\ run'[r].date = run[r].date
        /\ run'[r].found = run[r].found /\ run'[r].wrote = run[r].wrote
        /\ run'[r].read = run[r].read /\ run'[r].created = run[r].created
        /\ run'[r].ok = run[r].ok
    BY <2>1, <2>2, UsedIs DEF RunState
  <2> QED BY <1>b, <2>1, <2>3, <2>4 DEF Moved, Proper
<1>13. CASE FetchUnasked(r)
  <2>1. run[r].phase \in Live /\ run[r].phase # "idle"
    BY <1>13 DEF FetchUnasked, Live, Phases
  <2>2. CASE /\ run[r].rounds # MaxRounds
             /\ Go(r, [Used(r) EXCEPT !.phase = "fetching", !.auto = TRUE])
    <3>1. run'[r] = [Used(r) EXCEPT !.phase = "fetching", !.auto = TRUE]
      BY <2>2, GoIs
    <3>2. run'[r] \in RunState
      <4>1. Used(r) \in RunState
        BY <2>1, <2>2, <3>1, UsedIs
      <4>2. [Used(r) EXCEPT !.phase = "fetching", !.auto = TRUE] \in RunState
        BY <4>1, AsksItself
      <4> QED BY <3>1, <4>2
    <3>3. /\ run'[r].phase = "fetching" /\ run'[r].date = run[r].date
          /\ run'[r].found = run[r].found
          /\ run'[r].wrote = run[r].wrote /\ run'[r].read = run[r].read
          /\ run'[r].created = run[r].created /\ run'[r].ok = run[r].ok
      BY <2>1, <2>2, <3>1, UsedIs DEF RunState
    <3> QED BY <1>b, <2>1, <3>2, <3>3 DEF Moved, Proper
  <2> QED BY <1>13, <1>c, <2>1, <2>2 DEF FetchUnasked
<1>14. CASE Fetched(r)
  <2>1. run[r].phase \in Live
    BY <1>14 DEF Fetched, Live, Phases
  <2>2. run'[r] = [run[r] EXCEPT !.phase = "top", !.read = "full", !.rereads = 0]
    BY <1>14, GoIs DEF Fetched
  <2>3. run'[r] \in RunState
    BY <1>a, <2>2, Limits DEF RunState, Phases
  <2>4. /\ run'[r].phase = "top" /\ run'[r].date = run[r].date
        /\ run'[r].found = run[r].found /\ run'[r].wrote = run[r].wrote
        /\ run'[r].read = "full" /\ run'[r].created = run[r].created
        /\ run'[r].ok = run[r].ok
    BY <1>a, <2>2 DEF RunState
  <2>5. run[r].wrote = "token" => run[r].date \in verified'
    BY <1>14 DEF Fetched
  <2> QED BY <1>b, <2>1, <2>3, <2>4, <2>5 DEF Moved, Proper
<1>15. CASE Reread(r)
  <2>1. run[r].phase \in Live /\ run[r].phase = "reread"
    BY <1>15 DEF Reread, Live, Phases
  <2>2. CASE Go(r, [run[r] EXCEPT !.phase = "fetching", !.rereads = @ + 1])
    <3>1. run'[r] = [run[r] EXCEPT !.phase = "fetching", !.rereads = run[r].rereads + 1]
      BY <2>2, GoIs
    <3>2. run[r].rereads \in 0 .. 2 /\ run[r].rereads < 2
      BY <1>a, <2>1 DEF RunState, Proper
    <3>3. run[r].rereads + 1 \in 0 .. 2
      BY <3>2
    <3>4. run'[r] \in RunState
      BY <1>a, <3>1, <3>3 DEF RunState, Phases
    <3>5. /\ run'[r].phase = "fetching" /\ run'[r].date = run[r].date
          /\ run'[r].found = run[r].found
          /\ run'[r].wrote = run[r].wrote /\ run'[r].read = run[r].read
          /\ run'[r].created = run[r].created /\ run'[r].ok = run[r].ok
      BY <1>a, <3>1 DEF RunState
    <3> QED BY <1>b, <2>1, <3>4, <3>5 DEF Moved, Proper
  <2> QED BY <1>15, <1>c, <2>1, <2>2 DEF Reread
<1>16. CASE NotExecuted(r)
  <2>1. run[r].phase \in Live /\ run[r].phase # "idle" /\ run[r].rounds # MaxRounds
    <3>1. run[r].rounds \in 0 .. MaxRounds
      BY <1>a DEF RunState
    <3> QED BY <1>16, <3>1, Limits DEF NotExecuted, Round, Live, Phases
  <2>2. run'[r] = Used(r)
    BY <1>16, GoIs DEF NotExecuted, Round
  <2>3. run'[r] \in RunState
    <3>1. Used(r) \in RunState
      BY <2>1, <2>2, UsedIs
    <3> QED BY <2>2, <3>1, SMTT(30) DEF RunState, Phases
  <2>4. /\ run'[r].phase = "top" /\ run'[r].date = run[r].date
        /\ run'[r].found = run[r].found /\ run'[r].wrote = run[r].wrote
        /\ run'[r].read = run[r].read /\ run'[r].created = run[r].created
        /\ run'[r].ok = run[r].ok
    BY <2>1, <2>2, UsedIs DEF RunState
  <2> QED BY <1>b, <2>1, <2>3, <2>4 DEF Moved, Proper
<1>17. CASE FetchFails(r)
  <2>1. run[r].phase \in Live
    BY <1>17 DEF FetchFails, Live, Phases
  <2>2. PICK e \in {"tried", run[r].read} :
          /\ e = "full" => e = run[r].read
          /\ Go(r, [run[r] EXCEPT !.phase = "top", !.rereads = 0, !.read = e])
    BY <1>17 DEF FetchFails
  <2>3. run'[r] = [run[r] EXCEPT !.phase = "top", !.rereads = 0, !.read = e]
    BY <2>2, GoIs
  <2>4. e \in {"none", "tried", "bad", "empty", "full"}
    BY <1>a DEF RunState
  <2>5. run'[r] \in RunState
    BY <1>a, <2>3, <2>4, Limits DEF RunState, Phases
  <2>6. /\ run'[r].phase = "top" /\ run'[r].date = run[r].date
        /\ run'[r].found = run[r].found /\ run'[r].wrote = run[r].wrote
        /\ run'[r].read = e /\ run'[r].created = run[r].created
        /\ run'[r].ok = run[r].ok
    BY <1>a, <2>3 DEF RunState
  <2> QED BY <1>b, <2>1, <2>2, <2>5, <2>6 DEF Moved, Proper
<1>18. CASE Misdecide(r)
  BY <1>18, <1>c DEF Misdecide, Live, Phases
<1>19. CASE SearchPartly(r)
  <2>1. run[r].phase \in Live /\ run[r].phase # "idle" /\ run[r].rounds # MaxRounds
    <3>1. run[r].rounds \in 0 .. MaxRounds
      BY <1>a DEF RunState
    <3> QED BY <1>19, <3>1, Limits DEF SearchPartly, Round, Live, Phases
  <2>2. run'[r] = [Used(r) EXCEPT !.found = "open"]
    BY <1>19, GoIs DEF SearchPartly, Round
  <2>3. run'[r] \in RunState
    <3>1. Used(r) \in RunState
      BY <2>1, <2>2, UsedIs
    <3> QED BY <2>2, <3>1, SMTT(30) DEF RunState, Phases
  <2>4. /\ run'[r].phase = "top" /\ run'[r].date = run[r].date
        /\ run'[r].found = "open" /\ run'[r].wrote = run[r].wrote
        /\ run'[r].read = run[r].read /\ run'[r].created = run[r].created
        /\ run'[r].ok = run[r].ok
    BY <2>1, <2>2, UsedIs DEF RunState
  <2> QED BY <1>b, <2>1, <2>3, <2>4 DEF Moved, Proper
<1>20. CASE WriteFails(r)
  <2>1. run[r].phase \in Live
    BY <1>20 DEF WriteFails, Live, Phases
  <2>2. CASE Go(r, [run[r] EXCEPT !.phase = "top", !.created = TRUE])
    <3>1. run'[r] = [run[r] EXCEPT !.phase = "top", !.created = TRUE]
      BY <2>2, GoIs
    <3>2. run'[r] \in RunState
      BY <1>a, <3>1 DEF RunState, Phases
    <3>3. /\ run'[r].phase = "top" /\ run'[r].date = run[r].date
          /\ run'[r].found = run[r].found
          /\ run'[r].wrote = run[r].wrote /\ run'[r].read = run[r].read
          /\ run'[r].created = TRUE /\ run'[r].ok = run[r].ok
      BY <1>a, <3>1 DEF RunState
    <3> QED BY <1>b, <2>1, <3>2, <3>3 DEF Moved, Proper
  <2>3. CASE Goto(r, "top")
    BY <1>e, <2>1, <2>3 DEF Phases
  <2> QED BY <1>20, <2>2, <2>3 DEF WriteFails
<1>21. CASE FetchedBadly(r)
  <2>1. run[r].phase \in Live
    BY <1>21 DEF FetchedBadly, Live, Phases
  <2>2. PICK e \in {"bad", "empty"} :
          \/ Go(r, [run[r] EXCEPT !.phase = "top", !.read = e, !.rereads = 0])
          \/ run[r].rereads < 2 /\ Go(r, [run[r] EXCEPT !.read = e, !.phase = "reread"])
    BY <1>21 DEF FetchedBadly
  <2>3. CASE Go(r, [run[r] EXCEPT !.phase = "top", !.read = e, !.rereads = 0])
    <3>1. run'[r] = [run[r] EXCEPT !.phase = "top", !.read = e, !.rereads = 0]
      BY <2>3, GoIs
    <3>2. run'[r] \in RunState
      BY <1>a, <3>1, Limits, ZenonT(30) DEF RunState, Phases
    <3>3. /\ run'[r].phase = "top" /\ run'[r].date = run[r].date
          /\ run'[r].found = run[r].found /\ run'[r].read = e
          /\ run'[r].created = run[r].created /\ run'[r].ok = run[r].ok
      BY <1>a, <3>1 DEF RunState
    <3> QED BY <1>b, <2>1, <3>2, <3>3 DEF Moved, Proper
  <2>4. CASE run[r].rereads < 2 /\ Go(r, [run[r] EXCEPT !.read = e, !.phase = "reread"])
    <3>1. run'[r] = [run[r] EXCEPT !.read = e, !.phase = "reread"]
      BY <2>4, GoIs
    <3>2. run'[r] \in RunState
      BY <1>a, <3>1 DEF RunState, Phases
    <3>3. /\ run'[r].phase = "reread" /\ run'[r].date = run[r].date
          /\ run'[r].rereads = run[r].rereads
          /\ run'[r].found = run[r].found /\ run'[r].read = e
          /\ run'[r].created = run[r].created /\ run'[r].ok = run[r].ok
      BY <1>a, <3>1 DEF RunState
    <3> QED BY <1>b, <2>1, <2>4, <3>2, <3>3 DEF Moved, Proper
  <2> QED BY <2>2, <2>3, <2>4
<1>22. CASE Crash(r)
  <2>1. run[r].phase \in Live /\ run[r].date \in Dates
    BY <1>22, <1>b DEF Crash
  <2>2. run'[r] = [Fresh EXCEPT !.phase = "exited", !.date = run[r].date]
    BY <1>22, GoIs DEF Crash
  <2>3. run'[r] \in RunState
    BY <2>1, <2>2, FreshOK DEF RunState, Phases
  <2>4. /\ run'[r].phase = "exited" /\ run'[r].date = run[r].date
        /\ run'[r].found = "none" /\ run'[r].wrote = "no" /\ run'[r].ok = FALSE
    BY <2>2 DEF Fresh
  <2> QED BY <2>1, <2>3, <2>4 DEF Moved, Proper
<1> QED
  BY <1>1, <1>2, <1>3, <1>4, <1>5, <1>6, <1>7, <1>8, <1>9, <1>10, <1>11, <1>12, <1>13, <1>14, <1>15, <1>16, <1>17, <1>18, <1>19, <1>20, <1>21, <1>22 DEF RunGoesOn, RunFails

(* What a step of a run does besides: it may give its lock back at the end, *)
(* a create may take effect, or go on without its run.                      *)
Frees(r) ==
  /\ In(r, "finally") /\ run'[r].phase = "exited"
  /\ lock[run[r].date].owner = r
  /\ lock' = [lock EXCEPT ![run[r].date] = [owner |-> None, valid |-> FALSE]]

Lands(r) ==
  /\ Creating(r) /\ Land(run[r].date, run[r].created)
  /\ run'[r].phase = "top" /\ run'[r].created

Orphans(r) ==
  /\ Creating(r) /\ run'[r].phase = "exited"
  /\ orphans' = orphans \cup
       {[by |-> r, date |-> run[r].date, created |-> run[r].created]}

Effects(r) ==
  /\ lock' = lock \/ Frees(r)
  /\ UNCHANGED <<docs, clash>> \/ Lands(r)
  /\ orphans' = orphans \/ Orphans(r)
  /\ verified' = verified \/ verified' = verified \cup {run[r].date}
  /\ skipped' = skipped \/ skipped' = skipped \cup {run[r].date}
  /\ incidents' = incidents \/ Incident
  /\ UNCHANGED operator

LEMMA RenewHeld ==
  ASSUME TypeInv, NEW r \in Runs, run[r].date \in Dates, Holds(r), Renew(r)
  PROVE  lock' = lock
<1> DEFINE d == run[r].date
<1>1. lock \in [Dates -> [owner : Runs \cup {None}, valid : BOOLEAN]]
  BY DEF TypeInv, TypeOK, DailyTypeOK
<1>2. lock[d] \in [owner : Runs \cup {None}, valid : BOOLEAN] /\ lock[d].valid = TRUE
  BY <1>1 DEF Holds
<1>3. [lock[d] EXCEPT !.valid = TRUE] = lock[d]
  BY <1>2
<1>4. lock' = [lock EXCEPT ![d] = [lock[d] EXCEPT !.valid = TRUE]]
  BY DEF Renew
<1> QED BY <1>1, <1>3, <1>4

LEMMA MoveEffects ==
  ASSUME TypeInv, NEW r \in Runs, RunGoesOn(r) \/ RunFails(r)
  PROVE  Effects(r)
<1> USE DEF Effects, platform, operator, ghosts
<1>a. Moved(r) /\ run[r] \in RunState /\ run[r].date \in Dates
  BY MoveRun, RunTypes DEF Moved, Proper, Live
<1>1. CASE Handle(r)
  BY <1>1 DEF Handle
<1>2. CASE Finish(r)
  <2>1. run'[r] = [run[r] EXCEPT !.phase = "exited"]
    BY <1>2, GoIs DEF Finish, Goto
  <2>2. run'[r].phase = "exited"
    BY <1>a, <2>1 DEF RunState
  <2> QED BY <1>2, <2>2 DEF Finish, ReleaseDailyMemoryRun, Frees
<1>3. CASE AskModel(r)
  BY <1>3, <1>a, RenewHeld DEF AskModel
<1>4. CASE StartWrite(r)
  BY <1>4, <1>a, RenewHeld DEF StartWrite, Write
<1>5. CASE Reread(r)
  BY <1>5, <1>a, RenewHeld DEF Reread
<1>6. CASE Created(r)
  <2>1. PICK w \in {"token", "lost"} :
          Go(r, [run[r] EXCEPT !.phase = "top", !.wrote = w, !.read = "none",
                               !.created = TRUE])
    BY <1>6 DEF Created
  <2>2. run'[r] = [run[r] EXCEPT !.phase = "top", !.wrote = w, !.read = "none",
                                 !.created = TRUE]
    BY <2>1, GoIs
  <2>3. run'[r].phase = "top" /\ run'[r].created
    BY <1>a, <2>2 DEF RunState
  <2> QED BY <1>6, <2>3 DEF Created, Lands
<1>7. CASE WriteFails(r)
  <2>1. CASE UNCHANGED <<docs, clash>>
    BY <1>7, <2>1 DEF WriteFails
  <2>2. CASE /\ Creating(r) /\ Land(run[r].date, run[r].created)
             /\ Go(r, [run[r] EXCEPT !.phase = "top", !.created = TRUE])
    <3>1. run'[r] = [run[r] EXCEPT !.phase = "top", !.created = TRUE]
      BY <2>2, GoIs
    <3>2. run'[r].phase = "top" /\ run'[r].created
      BY <1>a, <3>1 DEF RunState
    <3> QED BY <1>7, <2>2, <3>2 DEF WriteFails, Lands
  <2> QED BY <1>7, <2>1, <2>2 DEF WriteFails
<1>8. CASE Crash(r)
  <2>1. run'[r] = [Fresh EXCEPT !.phase = "exited", !.date = run[r].date]
    BY <1>8, GoIs DEF Crash
  <2>2. run'[r].phase = "exited"
    BY <2>1 DEF Fresh
  <2> QED BY <1>8, <2>2 DEF Crash, Orphans
<1>9. CASE DecideDraft(r) \/ DecideNothing(r) \/ OutOfRounds(r) \/ Duplicates(r)
  BY <1>9 DEF DecideDraft, DecideNothing, OutOfRounds, Duplicates
<1>10. CASE Search(r) \/ SearchPartly(r) \/ NotExecuted(r) \/ Misdecide(r)
  BY <1>10 DEF Search, SearchPartly, NotExecuted, Misdecide
<1>11. CASE Updated(r) \/ StartFetch(r) \/ FetchUnasked(r) \/ Fetched(r)
  BY <1>11 DEF Updated, StartFetch, FetchUnasked, Fetched
<1>12. CASE FetchedBadly(r) \/ FetchFails(r)
  BY <1>12 DEF FetchedBadly, FetchFails
<1> QED
  BY <1>1, <1>2, <1>3, <1>4, <1>5, <1>6, <1>7, <1>8, <1>9, <1>10, <1>11, <1>12
  DEF RunGoesOn, RunFails

-----------------------------------------------------------------------------
(* Types are kept.                                                          *)

LEMMA IncidentTyped ==
  ASSUME incidents \in 0 .. MaxIncidents, incidents' = incidents \/ Incident
  PROVE  incidents' \in 0 .. MaxIncidents
  BY DailyAssumption DEF Incident

LEMMA LandTyped ==
  ASSUME DailyTypeOK, NEW d \in Dates, NEW own \in BOOLEAN, Land(d, own)
  PROVE  docs' \in [Dates -> 0 .. 2] /\ clash' \in BOOLEAN
<1>1. docs[d] \in 0 .. 2
  BY DEF DailyTypeOK
<1>2. (IF docs[d] < 2 THEN docs[d] + 1 ELSE 2) \in 0 .. 2
  BY <1>1
<1>3. docs' = [docs EXCEPT ![d] = IF docs[d] < 2 THEN docs[d] + 1 ELSE 2]
  BY DEF Land
<1>4. clash' \in BOOLEAN
  BY DEF Land, DailyTypeOK
<1> QED BY <1>2, <1>3, <1>4 DEF DailyTypeOK

(* One process changes, and properly.                                       *)
LEMMA RunsTyped ==
  ASSUME TypeInv, NEW r \in Runs, NEW s, Go(r, s), Proper(s)
  PROVE  run' \in [Runs -> RunState] /\ \A q \in Runs : Proper(run'[q])
<1>1. run' = [run EXCEPT ![r] = s] /\ s \in RunState
  BY DEF Go, Proper
<1>2. run' \in [Runs -> RunState]
  BY <1>1, RunTypes
<1> QED BY <1>2, GoIs, RunTypes

LEMMA MoveGoes ==
  ASSUME TypeInv, NEW r \in Runs, RunGoesOn(r) \/ RunFails(r)
  PROVE  \E s : Go(r, s)
  BY DEF RunGoesOn, RunFails, Handle, Finish, AskModel, DecideDraft, DecideNothing,
     OutOfRounds, Duplicates, Search, StartWrite, Created, Updated, StartFetch,
     FetchUnasked, Fetched, Reread, NotExecuted, FetchFails, Misdecide, SearchPartly,
     WriteFails, FetchedBadly, Crash, Goto, Ends, Throws, Concludes, Write

LEMMA MoveTyped ==
  ASSUME TypeInv, NEW r \in Runs, RunGoesOn(r) \/ RunFails(r)
  PROVE  DailyTypeOK' /\ \A q \in Runs : Proper(run'[q])
<1>1. Effects(r) /\ Moved(r) /\ DailyTypeOK
  BY MoveEffects, MoveRun DEF TypeInv, TypeOK
<1>2. PICK s : Go(r, s)
  BY MoveGoes
<1>3. run'[r] = s /\ Proper(s)
  BY <1>1, <1>2, GoIs DEF Moved
<1>4. run' \in [Runs -> RunState] /\ \A q \in Runs : Proper(run'[q])
  BY <1>2, <1>3, RunsTyped
<1>5. run[r].date \in Dates /\ run[r].created \in BOOLEAN
  BY <1>1, RunTypes DEF Moved, Live, Proper, RunState
<1>6. lock' \in [Dates -> [owner : Runs \cup {None}, valid : BOOLEAN]]
  <2>1. [owner |-> None, valid |-> FALSE] \in [owner : Runs \cup {None}, valid : BOOLEAN]
    OBVIOUS
  <2> QED BY <1>1, <1>5, <2>1 DEF Effects, Frees, DailyTypeOK
<1>7. docs' \in [Dates -> 0 .. 2] /\ clash' \in BOOLEAN
  BY <1>1, <1>5, LandTyped DEF Effects, Lands, DailyTypeOK
<1>8. orphans' \subseteq [by : Runs, date : Dates, created : BOOLEAN]
  BY <1>1, <1>5 DEF Effects, Orphans, DailyTypeOK
<1>9. verified' \subseteq Dates /\ skipped' \subseteq Dates
  BY <1>1, <1>5 DEF Effects, DailyTypeOK
<1>10. incidents' \in 0 .. MaxIncidents
  BY <1>1, IncidentTyped DEF Effects, DailyTypeOK
<1>11. enabled' \in BOOLEAN /\ frozen' \in BOOLEAN
  BY <1>1 DEF Effects, operator, DailyTypeOK
<1> QED BY <1>4, <1>6, <1>7, <1>8, <1>9, <1>10, <1>11 DEF DailyTypeOK

(* A process that begins, is refused, or is gone.                           *)
LEMMA BeginIs ==
  ASSUME TypeInv, NEW r \in Runs, NEW d \in Dates, Begin(r, d)
  PROVE  /\ Go(r, run'[r]) /\ Proper(run'[r])
         /\ run'[r].phase = "start" /\ run'[r].date = d /\ run'[r].found = "none"
         /\ run'[r].wrote = "no" /\ run'[r].ok = FALSE
         /\ lock' = [lock EXCEPT ![d] = [owner |-> r, valid |-> TRUE]]
<1>1. Go(r, [Fresh EXCEPT !.phase = "start", !.date = d])
  BY DEF Begin
<1>2. run'[r] = [Fresh EXCEPT !.phase = "start", !.date = d]
  BY <1>1, GoIs
<1>3. run'[r] \in RunState
  BY <1>2, FreshOK DEF RunState, Phases
<1>4. /\ run'[r].phase = "start" /\ run'[r].date = d /\ run'[r].found = "none"
      /\ run'[r].wrote = "no" /\ run'[r].ok = FALSE
  BY <1>2 DEF Fresh
<1> QED BY <1>1, <1>2, <1>3, <1>4 DEF Begin, ClaimDailyMemoryRun, Proper

LEMMA RefusedIs ==
  ASSUME TypeInv, NEW r \in Runs, NEW d \in Dates, Refused(r, d)
  PROVE  /\ Go(r, run'[r]) /\ Proper(run'[r])
         /\ run'[r].phase = "exited" /\ run'[r].date = d /\ run'[r].found = "none"
         /\ run'[r].wrote = "no" /\ run'[r].ok = FALSE
<1>1. Go(r, [Fresh EXCEPT !.phase = "exited", !.date = d])
  BY DEF Refused
<1>2. run'[r] = [Fresh EXCEPT !.phase = "exited", !.date = d]
  BY <1>1, GoIs
<1>3. run'[r] \in RunState
  BY <1>2, FreshOK DEF RunState, Phases
<1>4. /\ run'[r].phase = "exited" /\ run'[r].date = d /\ run'[r].found = "none"
      /\ run'[r].wrote = "no" /\ run'[r].ok = FALSE
  BY <1>2 DEF Fresh
<1> QED BY <1>1, <1>2, <1>3, <1>4 DEF Proper

LEMMA GoneIs ==
  ASSUME TypeInv, NEW r \in Runs, Go(r, Fresh)
  PROVE  /\ Go(r, run'[r]) /\ Proper(run'[r])
         /\ run'[r].phase = "idle" /\ run'[r].found = "none"
         /\ run'[r].wrote = "no" /\ run'[r].ok = FALSE
<1>1. run'[r] = Fresh /\ Go(r, run'[r])
  BY GoIs
<1>2. Fresh.phase = "idle" /\ Fresh.found = "none" /\ Fresh.wrote = "no" /\ Fresh.ok = FALSE
  BY DEF Fresh
<1> QED BY <1>1, <1>2, FreshOK

LEMMA SlotIdle ==
  ASSUME NEW r \in Slot
  PROVE  r \in Runs /\ In(r, "idle")
<1> DEFINE free == {q \in Runs : In(q, "idle")}
<1>1. free # {} /\ r = CHOOSE q \in free : TRUE
  BY DEF Slot
<1>2. r \in free
  BY <1>1
<1> QED BY <1>2

LEMMA DayTyped ==
  ASSUME TypeInv
  PROVE  day \in [date : Dates, open : BOOLEAN] /\ day.date \in Dates
  BY DEF TypeInv, TypeOK

HostTyped ==
  /\ day \in [date : Dates, open : BOOLEAN]
  /\ version \in 0 .. 1
  /\ marker \in [date : Dates \cup {None}, version : 0 .. 1]
  /\ host \in [doing : {"nothing", "running", "logging"}, slot : Runs \cup {None},
               date : Dates \cup {None}, version : 0 .. 1]

LEMMA NoHostTyped ==
  NoHost \in [doing : {"nothing", "running", "logging"}, slot : Runs \cup {None},
              date : Dates \cup {None}, version : 0 .. 1]
  BY DEF NoHost

LEMMA TypeInit == Init => TypeInv
<1> SUFFICES ASSUME Init PROVE TypeInv
  OBVIOUS
<1>1. DailyTypeOK
  <2>1. lock \in [Dates -> [owner : Runs \cup {None}, valid : BOOLEAN]]
    BY DEF Init, DailyInit
  <2>2. docs \in [Dates -> 0 .. 2] /\ run \in [Runs -> RunState]
    BY FreshOK DEF Init, DailyInit
  <2>3. incidents \in 0 .. MaxIncidents
    BY DailyAssumption DEF Init, DailyInit
  <2> QED BY <2>1, <2>2, <2>3 DEF Init, DailyInit, DailyTypeOK
<1>2. HostTyped
  BY NoHostTyped, HostAssumption DEF Init, HostTyped
<1>3. \A r \in Runs : Proper(run[r])
  BY FreshOK DEF Init, DailyInit
<1> QED BY <1>1, <1>2, <1>3 DEF TypeInv, TypeOK, HostTyped, Init, NoHost

(* Where only one process changes, and the lock.                            *)
LEMMA OneRunTyped ==
  ASSUME TypeInv, NEW r \in Runs, Go(r, run'[r]), Proper(run'[r]),
         lock' \in [Dates -> [owner : Runs \cup {None}, valid : BOOLEAN]],
         UNCHANGED <<platform, operator, ghosts>>,
         incidents' = incidents \/ Incident
  PROVE  DailyTypeOK' /\ \A q \in Runs : Proper(run'[q])
<1>1. run' \in [Runs -> RunState] /\ \A q \in Runs : Proper(run'[q])
  BY RunsTyped
<1>2. DailyTypeOK
  BY DEF TypeInv, TypeOK
<1>3. incidents' \in 0 .. MaxIncidents
  BY <1>2, IncidentTyped DEF DailyTypeOK
<1> QED BY <1>1, <1>2, <1>3 DEF DailyTypeOK, platform, operator, ghosts

LEMMA ClaimTyped ==
  ASSUME TypeInv, NEW r \in Runs, NEW d \in Dates,
         lock' = [lock EXCEPT ![d] = [owner |-> r, valid |-> TRUE]]
  PROVE  lock' \in [Dates -> [owner : Runs \cup {None}, valid : BOOLEAN]]
<1>1. [owner |-> r, valid |-> TRUE] \in [owner : Runs \cup {None}, valid : BOOLEAN]
  OBVIOUS
<1> QED BY <1>1 DEF TypeInv, TypeOK, DailyTypeOK

LEMMA BeginTyped ==
  ASSUME TypeInv, NEW r \in Runs, NEW d \in Dates, Begin(r, d) \/ Refused(r, d),
         incidents' = incidents \/ Incident
  PROVE  DailyTypeOK' /\ \A q \in Runs : Proper(run'[q])
<1>1. CASE Begin(r, d)
  BY <1>1, BeginIs, ClaimTyped, OneRunTyped DEF Begin
<1>2. CASE Refused(r, d)
  BY <1>2, RefusedIs, OneRunTyped DEF Refused, TypeInv, TypeOK, DailyTypeOK
<1> QED BY <1>1, <1>2

LEMMA GoneTyped ==
  ASSUME TypeInv, NEW r \in Runs, Go(r, Fresh), UNCHANGED <<lock, platform, operator, ghosts>>,
         incidents' = incidents \/ Incident
  PROVE  DailyTypeOK' /\ \A q \in Runs : Proper(run'[q])
  BY GoneIs, OneRunTyped DEF TypeInv, TypeOK, DailyTypeOK

LEMMA RunsStay ==
  ASSUME TypeInv, UNCHANGED <<lock, platform, run, ghosts>>, enabled' \in BOOLEAN,
         frozen' \in BOOLEAN, incidents' = incidents \/ Incident
  PROVE  DailyTypeOK' /\ \A q \in Runs : Proper(run'[q])
<1>1. DailyTypeOK /\ \A q \in Runs : Proper(run[q])
  BY DEF TypeInv, TypeOK
<1>2. incidents' \in 0 .. MaxIncidents
  BY <1>1, IncidentTyped DEF DailyTypeOK
<1> QED BY <1>1, <1>2 DEF DailyTypeOK, platform, ghosts

LEMMA OrphanTyped ==
  ASSUME TypeInv, NEW o \in orphans, OrphanEnds(o)
  PROVE  DailyTypeOK' /\ \A q \in Runs : Proper(run'[q])
<1>1. DailyTypeOK /\ \A q \in Runs : Proper(run[q])
  BY DEF TypeInv, TypeOK
<1>2. o.date \in Dates /\ o.created \in BOOLEAN
  BY <1>1 DEF DailyTypeOK
<1>3. docs' \in [Dates -> 0 .. 2] /\ clash' \in BOOLEAN
  BY <1>1, <1>2, LandTyped DEF OrphanEnds, DailyTypeOK
<1> QED BY <1>1, <1>3 DEF OrphanEnds, DailyTypeOK, operator

LEMMA ExpiryTyped ==
  ASSUME TypeInv, NEW d \in Dates, LockExpires(d)
  PROVE  DailyTypeOK' /\ \A q \in Runs : Proper(run'[q])
<1>1. DailyTypeOK /\ \A q \in Runs : Proper(run[q])
  BY DEF TypeInv, TypeOK
<1>2. lock' = [lock EXCEPT ![d] = [lock[d] EXCEPT !.valid = FALSE]]
  BY DEF LockExpires
<1>3. lock[d] \in [owner : Runs \cup {None}, valid : BOOLEAN]
  BY <1>1 DEF DailyTypeOK
<1>4. [lock[d] EXCEPT !.valid = FALSE] \in [owner : Runs \cup {None}, valid : BOOLEAN]
  BY <1>3
<1>5. lock' \in [Dates -> [owner : Runs \cup {None}, valid : BOOLEAN]]
  BY <1>1, <1>2, <1>4 DEF DailyTypeOK
<1> QED BY <1>1, <1>5 DEF LockExpires, DailyTypeOK, platform, operator, ghosts

LEMMA TypeStep == TypeInv /\ [Next]_vars => TypeInv'
<1> SUFFICES ASSUME TypeInv, [Next]_vars PROVE TypeInv'
  OBVIOUS
<1>a. /\ HostTyped /\ DailyTypeOK /\ day.date \in Dates
      /\ host.doing = "running" => host.slot \in Runs
  BY DayTyped DEF TypeInv, TypeOK, HostTyped
<1> DEFINE Goal == /\ DailyTypeOK' /\ \A q \in Runs : Proper(run'[q])
                   /\ HostTyped' /\ (host'.doing = "running" => host'.slot \in Runs)
<1>b. SUFFICES Goal
  BY <1>b DEF TypeInv, TypeOK, HostTyped
<1>c. ASSUME UNCHANGED hostVars
      PROVE  HostTyped' /\ (host'.doing = "running" => host'.slot \in Runs)
  BY <1>a, <1>c DEF hostVars, HostTyped
<1>d. enabled \in BOOLEAN /\ frozen \in BOOLEAN
  BY <1>a DEF DailyTypeOK
<1>1. CASE HostRuns
  <2>1. PICK r \in Slot : /\ Begin(r, day.date) \/ Refused(r, day.date)
                          /\ host' = [doing |-> "running", slot |-> r, date |-> day.date,
                                      version |-> version]
    BY <1>1 DEF HostRuns
  <2>2. r \in Runs
    BY SlotIdle
  <2>3. HostTyped' /\ host'.slot \in Runs
    BY <1>1, <1>a, <2>1, <2>2 DEF HostRuns, HostTyped
  <2> QED BY <1>1, <1>a, <2>1, <2>2, <2>3, BeginTyped DEF HostRuns
<1>2. CASE HostLogsEvidence
  <2>1. HostTyped' /\ host'.doing # "running"
    BY <1>2, <1>a DEF HostLogsEvidence, HostTyped
  <2> QED BY <1>2, <1>d, <2>1, RunsStay DEF HostLogsEvidence, dailyVars, operator
<1>3. ASSUME NEW logged \in BOOLEAN, HostEnds(logged) PROVE Goal
  <2>1. host.slot \in Runs /\ (incidents' = incidents \/ Incident)
    BY <1>3, <1>a DEF HostEnds, LogEnds
  <2>2. /\ [date |-> host.date, version |-> host.version] \in
             [date : Dates \cup {None}, version : 0 .. 1]
        /\ marker \in [date : Dates \cup {None}, version : 0 .. 1]
    BY <1>a DEF HostTyped
  <2>3. marker' \in [date : Dates \cup {None}, version : 0 .. 1]
    BY <1>3, <2>2 DEF HostEnds, Marked
  <2>4. host' = NoHost /\ day' = day /\ version' = version
    BY <1>3 DEF HostEnds
  <2>5. HostTyped'
    BY <1>a, <2>3, <2>4, NoHostTyped DEF HostTyped
  <2>6. host'.doing # "running"
    BY <2>4 DEF NoHost
  <2> QED BY <1>3, <2>1, <2>5, <2>6, GoneTyped DEF HostEnds
<1>4. ASSUME NEW logged \in BOOLEAN, EvidenceEnds(logged) PROVE Goal
  <2>1. incidents' = incidents \/ Incident
    BY <1>4 DEF EvidenceEnds, LogEnds
  <2>2. [marker EXCEPT !.version = host.version] \in
          [date : Dates \cup {None}, version : 0 .. 1]
    BY <1>a DEF HostTyped
  <2>3. HostTyped' /\ host'.doing # "running"
    BY <1>4, <1>a, <2>2, NoHostTyped DEF EvidenceEnds, HostTyped, NoHost
  <2> QED BY <1>4, <1>d, <2>1, <2>3, RunsStay DEF EvidenceEnds, operator
<1>5. CASE HostEndsAtOnce
  <2>1. UNCHANGED <<lock, platform, run, ghosts, operator, incidents, hostVars>>
    BY <1>5 DEF HostEndsAtOnce, vars, dailyVars
  <2> QED BY <1>c, <1>d, <2>1, RunsStay DEF operator
<1>6. CASE HostDies
  <2>1. HostTyped' /\ host'.doing # "running"
    BY <1>6, <1>a, NoHostTyped DEF HostDies, HostTyped, NoHost
  <2> QED BY <1>6, <1>d, <2>1, RunsStay DEF HostDies, operator
<1>7. CASE DailyStep /\ UNCHANGED hostVars
  BY <1>7, <1>c, MoveTyped DEF DailyStep
<1>8. CASE TimePasses /\ UNCHANGED hostVars
  BY <1>8, <1>c, OrphanTyped, ExpiryTyped DEF TimePasses
<1>9. ASSUME NEW r \in Runs, Reap(r) PROVE Goal
  BY <1>9, <1>c, GoneTyped DEF Reap
<1>10. ASSUME NEW d \in Dates, RunByHand(d) PROVE Goal
  <2>1. PICK r \in Slot : Begin(r, d)
    BY <1>10 DEF RunByHand
  <2> QED BY <1>10, <1>c, <2>1, SlotIdle, BeginTyped DEF RunByHand
<1>11. CASE Switch
  BY <1>11, <1>c, <1>d, RunsStay DEF Switch
<1>12. CASE SwitchBack
  BY <1>12, <1>c, <1>d, RunsStay DEF SwitchBack
<1>13. CASE Upgrade
  <2>1. 1 - version \in 0 .. 1
    BY <1>a DEF HostTyped
  <2>2. HostTyped' /\ (host'.doing = "running" => host'.slot \in Runs)
    BY <1>13, <1>a, <2>1 DEF Upgrade, HostTyped
  <2> QED BY <1>13, <1>d, <2>2, RunsStay DEF Upgrade, operator
<1>14. CASE TimeComes
  <2>1. [day EXCEPT !.open = TRUE] \in [date : Dates, open : BOOLEAN]
    BY <1>a DEF HostTyped
  <2>2. HostTyped' /\ (host'.doing = "running" => host'.slot \in Runs)
    BY <1>14, <1>a, <2>1 DEF TimeComes, HostTyped
  <2> QED BY <1>14, <1>d, <2>2, RunsStay DEF TimeComes, operator, dailyVars
<1>15. CASE Midnight
  <2>1. day.date + 1 \in Dates
    BY <1>15, <1>a, HostAssumption DEF Midnight
  <2>2. HostTyped' /\ (host'.doing = "running" => host'.slot \in Runs)
    BY <1>15, <1>a, <2>1 DEF Midnight, HostTyped
  <2> QED BY <1>15, <1>d, <2>2, RunsStay DEF Midnight, operator
<1>16. CASE UNCHANGED vars
  <2>1. UNCHANGED <<lock, platform, run, ghosts, operator, incidents, hostVars>>
    BY <1>16 DEF vars, dailyVars
  <2> QED BY <1>c, <1>d, <2>1, RunsStay DEF operator
<1> HIDE DEF Goal
<1> QED
  BY <1>1, <1>2, <1>3, <1>4, <1>5, <1>6, <1>7, <1>8, <1>9, <1>10, <1>11, <1>12, <1>13,
     <1>14, <1>15, <1>16
  DEF Next, HostStep

(* Runs, lock rows, the host, its marker and the calendar keep their types. *)
THEOREM ServiceHostTyped == Spec => []TypeOK
<1>1. TypeInv => TypeOK
  BY DEF TypeInv
<1> QED BY <1>1, TypeInit, TypeStep, PTL DEF Spec

-----------------------------------------------------------------------------
(* Only the holder of the lock of a date creates a document for it.         *)

LEMMA OrphanTypes ==
  ASSUME TypeInv, NEW o \in orphans
  PROVE  o.by \in Runs /\ o.date \in Dates /\ o.created \in BOOLEAN
  BY DEF TypeInv, TypeOK, DailyTypeOK

LEMMA LandNoClash ==
  ASSUME ~clash, NEW d \in Dates, NEW own \in BOOLEAN, docs[d] = 0 \/ own, Land(d, own)
  PROVE  ~clash'
<1>1. clash' = (clash \/ (docs[d] > 0 /\ ~own))
  BY DEF Land
<1>2. ~(docs[d] > 0 /\ ~own)
  OBVIOUS
<1> QED BY <1>1, <1>2, Zenon

LEMMA LockMove ==
  ASSUME TypeInv, LockInv, NEW r \in Runs, RunGoesOn(r) \/ RunFails(r)
  PROVE  LockInv'
<1> DEFINE d == run[r].date
<1>a. Effects(r) /\ Moved(r) /\ (\A q \in Runs : q # r => run'[q] = run[q])
  BY MoveEffects, MoveRun, MoveGoes, GoIs
<1>b. lock \in [Dates -> [owner : Runs \cup {None}, valid : BOOLEAN]] /\ d \in Dates
  BY <1>a, RunTypes DEF TypeInv, TypeOK, DailyTypeOK, Moved, Proper, Live
<1>c. run'[r].date = d /\ run[r].phase \in Live
  BY <1>a DEF Moved
<1>d. \A e \in Dates : lock'[e] = lock[e] \/ (Frees(r) /\ e = d)
  BY <1>a, <1>b DEF Effects, Frees
<1>e. Creating(r) => lock' = lock /\ lock[d].owner = r /\ lock[d].valid
  BY <1>a DEF Effects, Frees, Creating, In, LockInv, Holds
<1>1. ASSUME NEW q \in Runs, run'[q].phase = "writing"
      PROVE  lock'[run'[q].date].owner = q /\ lock'[run'[q].date].valid
  <2>1. CASE q = r
    <3>1. Holds(r) /\ ~Frees(r)
      BY <1>1, <1>a, <2>1 DEF Moved, Frees
    <3> QED BY <1>b, <1>c, <1>d, <2>1, <3>1 DEF Holds
  <2>2. CASE q # r
    <3>1. run'[q] = run[q] /\ Holds(q) /\ run[q].date \in Dates
      BY <1>1, <1>a, <2>2, RunTypes DEF LockInv, In, Proper
    <3>2. Frees(r) => run[q].date # d
      BY <2>2, <3>1 DEF Frees, Holds
    <3> QED BY <1>d, <3>1, <3>2 DEF Holds
  <2> QED BY <2>1, <2>2
<1>2. ASSUME NEW o \in orphans
      PROVE  /\ lock'[o.date].owner = o.by /\ lock'[o.date].valid
             /\ run'[o.by].phase \in Live => run'[o.by].date # o.date
  <2>1. /\ lock[o.date].owner = o.by /\ lock[o.date].valid
        /\ run[o.by].phase \in Live => run[o.by].date # o.date
        /\ o.by \in Runs /\ o.date \in Dates
    BY OrphanTypes DEF LockInv
  <2>2. Frees(r) => o.date # d
    BY <1>c, <2>1 DEF Frees
  <2>3. run'[o.by].phase \in Live => run'[o.by].date # o.date
    BY <1>a, <1>c, <2>1
  <2> QED BY <1>d, <2>1, <2>2, <2>3
<1>3. CASE orphans' = orphans
  BY <1>1, <1>2, <1>3 DEF LockInv, In, Holds
<1>4. CASE Orphans(r)
  <2> DEFINE n == [by |-> r, date |-> d, created |-> run[r].created]
  <2>1. n.by = r /\ n.date = d /\ orphans' = orphans \cup {n}
    BY <1>4 DEF Orphans
  <2>2. lock'[d].owner = r /\ lock'[d].valid /\ run'[r].phase \notin Live
    BY <1>4, <1>e DEF Orphans, Live
  <2>3. \A p \in orphans : p.date # d
    BY <1>c, <1>4, <1>e DEF Orphans, LockInv
  <2> HIDE DEF n
  <2>4. \A o \in orphans' :
          /\ lock'[o.date].owner = o.by /\ lock'[o.date].valid
          /\ run'[o.by].phase \in Live => run'[o.by].date # o.date
    BY <1>2, <2>1, <2>2
  <2>5. \A o, p \in orphans' : o.date = p.date => o = p
    BY <2>1, <2>3 DEF LockInv
  <2> QED BY <1>1, <2>4, <2>5 DEF LockInv, In, Holds
<1> QED BY <1>3, <1>4, <1>a DEF Effects

LEMMA CreateMove ==
  ASSUME TypeInv, LockInv, CreateInv, NEW r \in Runs, RunGoesOn(r) \/ RunFails(r)
  PROVE  CreateInv'
<1> DEFINE d == run[r].date
<1>a. Effects(r) /\ Moved(r) /\ (\A q \in Runs : q # r => run'[q] = run[q])
  BY MoveEffects, MoveRun, MoveGoes, GoIs
<1>b. /\ lock \in [Dates -> [owner : Runs \cup {None}, valid : BOOLEAN]] /\ d \in Dates
      /\ docs \in [Dates -> 0 .. 2]
  BY <1>a, RunTypes DEF TypeInv, TypeOK, DailyTypeOK, Moved, Proper, Live
<1>c. run'[r].date = d /\ run[r].phase \in Live
  BY <1>a DEF Moved
<1>d. \A e \in Dates : lock'[e] = lock[e] \/ (Frees(r) /\ e = d /\ lock'[e].owner = None)
  BY <1>a, <1>b DEF Effects, Frees
<1>e. Creating(r) =>
        lock' = lock /\ Holds(r) /\ run[r].found = "empty" /\ (docs[d] = 0 \/ run[r].created)
  BY <1>a, <1>c DEF Effects, Frees, Creating, In, LockInv, CreateInv
<1>f. \A e \in Dates : docs'[e] = docs[e] \/ (Lands(r) /\ e = d)
  BY <1>a, <1>b DEF Effects, Lands, Land
<1>1. ASSUME NEW q \in Runs, run'[q].phase \in Live, run'[q].found = "empty",
             lock'[run'[q].date].owner = q, lock'[run'[q].date].valid
      PROVE  docs'[run'[q].date] = 0 \/ run'[q].created
  <2>1. CASE q = r
    <3>1. lock'[d] = lock[d]
      BY <1>1, <1>b, <1>c, <1>d, <2>1, DailyAssumption
    <3>2. Holds(r)
      BY <1>1, <1>c, <2>1, <3>1 DEF Holds
    <3>3. docs[d] = 0 \/ run[r].found = "empty"
      BY <1>1, <1>a, <2>1 DEF Moved
    <3>4. docs[d] = 0 \/ run[r].created
      BY <1>c, <3>2, <3>3 DEF CreateInv
    <3>5. docs[d] = 0 \/ run'[r].created
      BY <1>1, <1>a, <2>1, <3>4 DEF Moved
    <3> QED BY <1>b, <1>c, <1>f, <2>1, <3>5 DEF Lands
  <2>2. CASE q # r
    <3>1. run'[q] = run[q] /\ run[q].date \in Dates
      BY <1>1, <1>a, <2>2, RunTypes DEF Proper, Live
    <3>2. lock'[run[q].date] = lock[run[q].date]
      BY <1>1, <1>d, <3>1, DailyAssumption
    <3>3. Holds(q)
      BY <1>1, <3>1, <3>2 DEF Holds
    <3>4. docs[run[q].date] = 0 \/ run[q].created
      BY <1>1, <3>1, <3>3 DEF CreateInv
    <3>5. Lands(r) => run[q].date # d
      BY <1>e, <2>2, <3>3 DEF Lands, Holds
    <3> QED BY <1>f, <3>1, <3>4, <3>5
  <2> QED BY <2>1, <2>2
<1>2. ASSUME NEW o \in orphans PROVE docs'[o.date] = 0 \/ o.created
  <2>1. o.date \in Dates /\ lock[o.date].owner = o.by /\ (docs[o.date] = 0 \/ o.created)
    BY OrphanTypes DEF LockInv, CreateInv
  <2>2. Lands(r) => o.date # d
    BY <1>c, <1>e, <2>1 DEF Lands, LockInv, Holds
  <2> QED BY <1>f, <2>1, <2>2
<1>3. ASSUME NEW o \in orphans' PROVE docs'[o.date] = 0 \/ o.created
  <2>1. CASE o \in orphans
    BY <1>2, <2>1
  <2>2. CASE Orphans(r) /\ o = [by |-> r, date |-> d, created |-> run[r].created]
    <3>1. o.date = d /\ o.created = run[r].created /\ ~Lands(r)
      BY <2>2 DEF Orphans, Lands
    <3> QED BY <1>b, <1>e, <1>f, <2>2, <3>1 DEF Orphans
  <2> QED BY <1>3, <1>a, <2>1, <2>2 DEF Effects, Orphans
<1>4. ~clash'
  <2>1. CASE clash' = clash
    BY <2>1 DEF CreateInv
  <2>2. CASE Lands(r)
    <3>1. run[r].created \in BOOLEAN
      BY RunTypes DEF RunState
    <3> QED BY <1>b, <1>e, <2>2, <3>1, LandNoClash DEF Lands, CreateInv
  <2> QED BY <1>a, <2>1, <2>2 DEF Effects
<1> QED BY <1>1, <1>3, <1>4 DEF CreateInv, Holds

(* A process that begins a run has found the lock free: nobody writes, and  *)
(* no call goes on.                                                         *)
LEMMA LockBegin ==
  ASSUME TypeInv, LockInv, CreateInv, NEW r \in Runs, NEW d \in Dates, Begin(r, d)
  PROVE  LockInv' /\ CreateInv'
<1>a. /\ run'[r].phase = "start" /\ run'[r].date = d /\ run'[r].found = "none"
      /\ lock' = [lock EXCEPT ![d] = [owner |-> r, valid |-> TRUE]]
      /\ \A q \in Runs : q # r => run'[q] = run[q]
  BY BeginIs, GoIs
<1>b. lock \in [Dates -> [owner : Runs \cup {None}, valid : BOOLEAN]]
  BY DEF TypeInv, TypeOK, DailyTypeOK
<1>c. lock[d].owner = None \/ ~lock[d].valid
  BY DEF Begin, ClaimDailyMemoryRun, FreeLock
<1>d. orphans' = orphans /\ docs' = docs /\ clash' = clash
  BY DEF Begin, platform, ghosts
<1>e. \A e \in Dates : e # d => lock'[e] = lock[e]
  BY <1>a, <1>b
<1>f. lock'[d].owner = r
  BY <1>a, <1>b
<1>1. ASSUME NEW q \in Runs, run'[q].phase = "writing"
      PROVE  lock'[run'[q].date].owner = q /\ lock'[run'[q].date].valid
  <2>1. q # r /\ run'[q] = run[q] /\ Holds(q) /\ run[q].date \in Dates
    BY <1>1, <1>a, RunTypes DEF LockInv, In, Proper
  <2>2. run[q].date # d
    BY <1>c, <2>1, DailyAssumption DEF Holds
  <2> QED BY <1>e, <2>1, <2>2 DEF Holds
<1>2. ASSUME NEW o \in orphans
      PROVE  /\ lock'[o.date].owner = o.by /\ lock'[o.date].valid
             /\ run'[o.by].phase \in Live => run'[o.by].date # o.date
  <2>1. /\ lock[o.date].owner = o.by /\ lock[o.date].valid
        /\ run[o.by].phase \in Live => run[o.by].date # o.date
        /\ o.by \in Runs /\ o.date \in Dates
    BY OrphanTypes DEF LockInv
  <2>2. o.date # d
    BY <1>c, <2>1, DailyAssumption
  <2> QED BY <1>a, <1>e, <2>1, <2>2
<1>3. LockInv'
  BY <1>1, <1>2, <1>d DEF LockInv, In, Holds
<1>4. ASSUME NEW q \in Runs, run'[q].phase \in Live, run'[q].found = "empty",
             lock'[run'[q].date].owner = q, lock'[run'[q].date].valid
      PROVE  docs[run'[q].date] = 0 \/ run'[q].created
  <2>1. q # r /\ run'[q] = run[q] /\ run[q].date \in Dates
    BY <1>4, <1>a, RunTypes DEF Proper, Live
  <2>2. run[q].date # d
    BY <1>4, <1>f, <2>1
  <2>3. Holds(q)
    BY <1>4, <1>e, <2>1, <2>2 DEF Holds
  <2> QED BY <1>4, <2>1, <2>3 DEF CreateInv
<1>5. CreateInv'
  BY <1>4, <1>d DEF CreateInv, Holds
<1> QED BY <1>3, <1>5

(* A process that is refused, or gone, has no part in it.                   *)
LEMMA LockAside ==
  ASSUME TypeInv, LockInv, CreateInv, NEW r \in Runs, run'[r].phase \in {"idle", "exited"},
         \A q \in Runs : q # r => run'[q] = run[q],
         UNCHANGED <<lock, docs, orphans, clash>>
  PROVE  LockInv' /\ CreateInv'
<1>1. \A q \in Runs : run'[q].phase \in Live => run'[q] = run[q]
  BY DEF Live
<1>2. \A q \in Runs : run'[q].phase = "writing" => run'[q] = run[q]
  OBVIOUS
<1>3. LockInv'
  BY <1>1, <1>2, OrphanTypes DEF LockInv, In, Holds
<1>4. CreateInv'
  BY <1>1 DEF CreateInv, Holds
<1> QED BY <1>3, <1>4

LEMMA LockStays ==
  ASSUME LockInv, CreateInv, UNCHANGED <<lock, run, docs, orphans, clash>>
  PROVE  LockInv' /\ CreateInv'
  BY DEF LockInv, CreateInv, In, Holds

(* A call that goes on without its run ends.                                *)
LEMMA LockOrphan ==
  ASSUME TypeInv, LockInv, CreateInv, NEW o \in orphans, OrphanEnds(o)
  PROVE  LockInv' /\ CreateInv'
<1>a. /\ lock' = lock /\ run' = run /\ orphans' = orphans \ {o}
      /\ Land(o.date, o.created) \/ UNCHANGED <<docs, clash>>
  BY DEF OrphanEnds
<1>b. /\ lock[o.date].owner = o.by /\ o.date \in Dates /\ o.by \in Runs
      /\ run[o.by].phase \in Live => run[o.by].date # o.date
      /\ docs[o.date] = 0 \/ o.created
  BY OrphanTypes DEF LockInv, CreateInv
<1>c. docs \in [Dates -> 0 .. 2]
  BY DEF TypeInv, TypeOK, DailyTypeOK
<1>d. \A e \in Dates : e # o.date => docs'[e] = docs[e]
  BY <1>a, <1>c DEF Land
<1>1. LockInv'
  BY <1>a DEF LockInv, In, Holds
<1>2. ASSUME NEW q \in Runs, run[q].phase \in Live, run[q].found = "empty", Holds(q)
      PROVE  docs'[run[q].date] = 0 \/ run[q].created
  <2>1. run[q].date # o.date /\ run[q].date \in Dates
    BY <1>2, <1>b, RunTypes DEF Holds, Proper, Live
  <2> QED BY <1>2, <1>d, <2>1 DEF CreateInv
<1>3. ASSUME NEW p \in orphans \ {o} PROVE docs'[p.date] = 0 \/ p.created
  <2>1. p.date # o.date /\ p.date \in Dates
    BY OrphanTypes DEF LockInv
  <2> QED BY <1>d, <2>1 DEF CreateInv
<1>4. ~clash'
  BY <1>a, <1>b, OrphanTypes, LandNoClash DEF CreateInv
<1> QED BY <1>1, <1>2, <1>3, <1>4, <1>a DEF CreateInv, Holds

LEMMA LockExpiry ==
  ASSUME TypeInv, LockInv, CreateInv, NEW d \in Dates, LockExpires(d)
  PROVE  LockInv' /\ CreateInv'
<1>a. /\ run' = run /\ orphans' = orphans /\ docs' = docs /\ clash' = clash
      /\ \A r \in Runs : In(r, "writing") => run[r].date # d
      /\ \A o \in orphans : o.date # d
  BY DEF LockExpires, platform, ghosts
<1>b. lock \in [Dates -> [owner : Runs \cup {None}, valid : BOOLEAN]]
  BY DEF TypeInv, TypeOK, DailyTypeOK
<1>c. \A e \in Dates : e # d => lock'[e] = lock[e]
  BY <1>b DEF LockExpires
<1>d. ~lock'[d].valid
  <2>1. lock' = [lock EXCEPT ![d] = [lock[d] EXCEPT !.valid = FALSE]]
    BY DEF LockExpires
  <2>2. lock'[d] = [lock[d] EXCEPT !.valid = FALSE]
    BY <1>b, <2>1
  <2>3. lock[d] \in [owner : Runs \cup {None}, valid : BOOLEAN]
    BY <1>b
  <2> QED BY <2>2, <2>3
<1>1. \A o \in orphans : lock'[o.date] = lock[o.date]
  BY <1>a, <1>c, OrphanTypes
<1>2. \A r \in Runs : In(r, "writing") => lock'[run[r].date] = lock[run[r].date]
  BY <1>a, <1>c, RunTypes DEF In, Proper
<1>3. LockInv'
  BY <1>1, <1>2, <1>a DEF LockInv, In, Holds
<1>4. ASSUME NEW q \in Runs, run[q].phase \in Live, lock'[run[q].date].valid
      PROVE  lock'[run[q].date] = lock[run[q].date]
  BY <1>4, <1>c, <1>d, RunTypes DEF Proper, Live
<1>5. CreateInv'
  BY <1>4, <1>a DEF CreateInv, Holds
<1> QED BY <1>3, <1>5

LEMMA LockStep == TypeInv /\ LockInv /\ CreateInv /\ [Next]_vars => LockInv' /\ CreateInv'
<1> SUFFICES ASSUME TypeInv, LockInv, CreateInv, [Next]_vars PROVE LockInv' /\ CreateInv'
  OBVIOUS
<1> USE DEF platform, ghosts
<1>1. CASE HostRuns
  <2>1. PICK r \in Slot : Begin(r, day.date) \/ Refused(r, day.date)
    BY <1>1 DEF HostRuns
  <2>2. r \in Runs /\ day.date \in Dates
    BY SlotIdle, DayTyped
  <2>3. CASE Begin(r, day.date)
    BY <2>2, <2>3, LockBegin
  <2>4. CASE Refused(r, day.date)
    BY <2>2, <2>4, RefusedIs, GoIs, LockAside DEF Refused
  <2> QED BY <2>1, <2>3, <2>4
<1>2. CASE HostLogsEvidence \/ HostEndsAtOnce \/ UNCHANGED vars
  BY <1>2, LockStays DEF HostLogsEvidence, HostEndsAtOnce, vars, dailyVars
<1>3. ASSUME NEW logged \in BOOLEAN, HostEnds(logged) PROVE LockInv' /\ CreateInv'
  <2>1. host.slot \in Runs
    BY <1>3 DEF HostEnds, TypeInv
  <2> QED BY <1>3, <2>1, GoneIs, GoIs, LockAside DEF HostEnds
<1>4. ASSUME NEW logged \in BOOLEAN, EvidenceEnds(logged) PROVE LockInv' /\ CreateInv'
  BY <1>4, LockStays DEF EvidenceEnds
<1>5. CASE HostDies \/ Switch \/ SwitchBack \/ Upgrade \/ TimeComes \/ Midnight
  BY <1>5, LockStays DEF HostDies, Switch, SwitchBack, Upgrade, TimeComes, Midnight, dailyVars
<1>6. CASE DailyStep
  BY <1>6, LockMove, CreateMove DEF DailyStep
<1>7. CASE TimePasses
  BY <1>7, LockOrphan, LockExpiry DEF TimePasses
<1>8. ASSUME NEW r \in Runs, Reap(r) PROVE LockInv' /\ CreateInv'
  BY <1>8, GoneIs, GoIs, LockAside DEF Reap
<1>9. ASSUME NEW d \in Dates, RunByHand(d) PROVE LockInv' /\ CreateInv'
  <2>1. PICK r \in Slot : Begin(r, d)
    BY <1>9 DEF RunByHand
  <2> QED BY <2>1, SlotIdle, LockBegin
<1> QED
  BY <1>1, <1>2, <1>3, <1>4, <1>5, <1>6, <1>7, <1>8, <1>9 DEF Next, HostStep

(* No run creates a document for a date that has one of another run,        *)
(* whatever outlives its lock, dies while it creates or is started beside   *)
(* the host.                                                                *)
THEOREM NobodyCreatesBeside == Spec => []NoForeignCreate
<1>1. Init => LockInv /\ CreateInv
  BY DEF Init, DailyInit, LockInv, CreateInv, In, Fresh, Live
<1>2. CreateInv => NoForeignCreate
  BY DEF CreateInv, NoForeignCreate
<1> QED BY <1>1, <1>2, TypeInit, TypeStep, LockStep, PTL DEF Spec

-----------------------------------------------------------------------------
(* A day that is marked has a document that was read back.                  *)

LEMMA MarkMove ==
  ASSUME TypeInv, MarkInv, NEW r \in Runs, RunGoesOn(r) \/ RunFails(r), UNCHANGED hostVars
  PROVE  MarkInv'
<1>a. Effects(r) /\ Moved(r) /\ (\A q \in Runs : q # r => run'[q] = run[q])
  BY MoveEffects, MoveRun, MoveGoes, GoIs
<1>b. verified \subseteq verified' /\ Done \subseteq Done'
  BY <1>a DEF Effects, Done
<1>c. marker' = marker /\ host' = host
  BY DEF hostVars
<1>d. verified' \subseteq Done'
  BY DEF Done
<1>1. ASSUME NEW q \in Runs, run'[q].wrote = "token", run'[q].read = "full"
      PROVE  run'[q].date \in verified'
  BY <1>1, <1>a, <1>b DEF MarkInv, Moved
<1>2. ASSUME NEW q \in Runs, run'[q].ok PROVE run'[q].date \in Done'
  <2>1. CASE q # r
    BY <1>2, <1>a, <1>b, <2>1 DEF MarkInv
  <2>2. CASE q = r
    <3>1. Verified(run[r]) => run[r].date \in verified
      BY DEF MarkInv, Verified
    <3>2. run[r].ok => run[r].date \in Done
      BY DEF MarkInv
    <3>3. run[r].date \in skipped' => run[r].date \in Done'
      BY DEF Done
    <3> QED BY <1>2, <1>a, <1>b, <1>d, <2>2, <3>1, <3>2, <3>3 DEF Moved
  <2> QED BY <2>1, <2>2
<1>3. host.doing = "running" =>
        /\ host.date \in Dates
        /\ run'[host.slot].phase # "idle" /\ run'[host.slot].date = host.date
  BY <1>a DEF MarkInv, Moved, TypeInv
<1>4. MarkedIsVerified'
  BY <1>b, <1>c DEF MarkInv, MarkedIsVerified, Done
<1> QED BY <1>1, <1>2, <1>3, <1>4, <1>c DEF MarkInv

(* The runs and what is known of the dates stay, but for a process that the *)
(* host does not wait for, or no longer: it begins, is refused or is gone.  *)
LEMMA RunsMarkAside ==
  ASSUME TypeInv, MarkInv, NEW r \in Runs, run'[r].wrote = "no", run'[r].ok = FALSE,
         \A q \in Runs : q # r => run'[q] = run[q], UNCHANGED ghosts
  PROVE  /\ \A q \in Runs : run'[q].wrote = "token" /\ run'[q].read = "full" =>
              run'[q].date \in verified'
         /\ \A q \in Runs : run'[q].ok => run'[q].date \in Done'
<1>1. verified' = verified /\ Done' = Done
  BY DEF ghosts, Done
<1> QED BY <1>1 DEF MarkInv

LEMMA MarkStays ==
  ASSUME MarkInv, UNCHANGED <<run, ghosts>>, marker'.date = marker.date,
         host' = host \/ host'.doing # "running"
  PROVE  MarkInv'
<1>1. verified' = verified /\ Done' = Done /\ skipped' = skipped /\ run' = run
  BY DEF ghosts, Done
<1>2. MarkedIsVerified'
  BY <1>1 DEF MarkInv, MarkedIsVerified
<1> QED BY <1>1, <1>2 DEF MarkInv

(* The host marks the date it read when it started, which is that of the    *)
(* run it waited for.                                                       *)
LEMMA MarkHostEnds ==
  ASSUME TypeInv, MarkInv, NEW logged \in BOOLEAN, HostEnds(logged)
  PROVE  MarkInv'
<1> DEFINE r == host.slot
<1>1. /\ r \in Runs /\ host.doing = "running" /\ Go(r, Fresh)
      /\ run[r].date = host.date /\ UNCHANGED ghosts
  BY DEF HostEnds, TypeInv, MarkInv
<1>2. marker' = marker \/ (run[r].ok /\ marker'.date = host.date)
  BY DEF HostEnds, Marked
<1>3. verified' = verified /\ skipped' = skipped
  BY <1>1 DEF ghosts
<1>4. MarkedIsVerified'
  <2>1. run[r].ok => host.date \in verified \cup skipped
    BY <1>1 DEF MarkInv, Done
  <2> QED BY <1>2, <1>3, <2>1 DEF MarkInv, MarkedIsVerified
<1>5. host'.doing # "running"
  BY DEF HostEnds, NoHost
<1> QED BY <1>1, <1>4, <1>5, GoneIs, GoIs, RunsMarkAside DEF MarkInv

LEMMA MarkHostRuns ==
  ASSUME TypeInv, MarkInv, HostRuns
  PROVE  MarkInv'
<1>1. PICK r \in Slot : /\ Begin(r, day.date) \/ Refused(r, day.date)
                        /\ host' = [doing |-> "running", slot |-> r, date |-> day.date,
                                    version |-> version]
  BY DEF HostRuns
<1>2. r \in Runs /\ day.date \in Dates
  BY SlotIdle, DayTyped
<1>3. /\ run'[r].wrote = "no" /\ run'[r].ok = FALSE /\ run'[r].date = day.date
      /\ run'[r].phase # "idle"
      /\ \A q \in Runs : q # r => run'[q] = run[q]
  BY <1>1, <1>2, BeginIs, RefusedIs, GoIs, ZenonT(30)
<1>4. UNCHANGED ghosts /\ verified' = verified /\ skipped' = skipped
  BY <1>1 DEF Begin, Refused, ghosts
<1>5. host'.slot = r /\ host'.date = day.date
  BY <1>1
<1>6. MarkedIsVerified'
  BY <1>4 DEF HostRuns, MarkInv, MarkedIsVerified
<1> QED BY <1>2, <1>3, <1>4, <1>5, <1>6, RunsMarkAside DEF MarkInv

(* Another process begins, or is gone.                                      *)
LEMMA MarkAside ==
  ASSUME TypeInv, MarkInv, NEW r \in Runs, run'[r].wrote = "no", run'[r].ok = FALSE,
         host.doing = "running" => host.slot # r,
         \A q \in Runs : q # r => run'[q] = run[q], UNCHANGED <<ghosts, marker, host>>
  PROVE  MarkInv'
<1>1. verified' = verified /\ skipped' = skipped
  BY DEF ghosts
<1>2. MarkedIsVerified'
  BY <1>1 DEF MarkInv, MarkedIsVerified
<1>3. host.doing = "running" => run'[host.slot] = run[host.slot]
  BY DEF TypeInv
<1> QED BY <1>2, <1>3, RunsMarkAside DEF MarkInv

LEMMA MarkStep == TypeInv /\ MarkInv /\ [Next]_vars => MarkInv'
<1> SUFFICES ASSUME TypeInv, MarkInv, [Next]_vars PROVE MarkInv'
  OBVIOUS
<1>2. CASE HostLogsEvidence \/ HostDies
  BY <1>2, MarkStays DEF HostLogsEvidence, HostDies, NoHost, dailyVars
<1>3. ASSUME NEW logged \in BOOLEAN, EvidenceEnds(logged) PROVE MarkInv'
  <2>1. marker'.date = marker.date
    <3>1. marker \in [date : Dates \cup {None}, version : 0 .. 1]
      BY DEF TypeInv, TypeOK
    <3> QED BY <1>3, <3>1 DEF EvidenceEnds
  <2> QED BY <1>3, <2>1, MarkStays DEF EvidenceEnds, NoHost
<1>4. CASE Switch \/ SwitchBack \/ Upgrade \/ TimeComes \/ Midnight
  BY <1>4, MarkStays DEF Switch, SwitchBack, Upgrade, TimeComes, Midnight, dailyVars,
     hostVars
<1>5. CASE HostEndsAtOnce \/ UNCHANGED vars
  BY <1>5, MarkStays DEF HostEndsAtOnce, vars, dailyVars, hostVars
<1>6. CASE DailyStep /\ UNCHANGED hostVars
  BY <1>6, MarkMove DEF DailyStep
<1>7. CASE TimePasses /\ UNCHANGED hostVars
  <2>1. run' = run /\ verified' = verified /\ skipped' = skipped /\ marker' = marker
        /\ host' = host
    BY <1>7 DEF TimePasses, LockExpires, OrphanEnds, ghosts, hostVars
  <2> QED BY <2>1 DEF MarkInv, MarkedIsVerified, Done
<1>8. ASSUME NEW r \in Runs, Reap(r) PROVE MarkInv'
  BY <1>8, GoneIs, GoIs, MarkAside DEF Reap, hostVars
<1>9. ASSUME NEW d \in Dates, RunByHand(d) PROVE MarkInv'
  <2>1. PICK r \in Slot : Begin(r, d)
    BY <1>9 DEF RunByHand
  <2>2. r \in Runs /\ run[r].phase = "idle"
    BY SlotIdle DEF In
  <2>3. UNCHANGED <<ghosts, marker, host>>
    BY <1>9, <2>1 DEF RunByHand, Begin, hostVars
  <2>4. host.doing = "running" => host.slot # r
    BY <2>2 DEF MarkInv
  <2> QED BY <2>1, <2>2, <2>3, <2>4, BeginIs, GoIs, MarkAside
<1> QED
  BY <1>2, <1>3, <1>4, <1>5, <1>6, <1>7, <1>8, <1>9, MarkHostEnds, MarkHostRuns
  DEF Next, HostStep

(* A day whose marker says it is done has a document that was read back,    *)
(* unless production was disabled when its run began, whatever failed in    *)
(* the run, the logger or the host.                                         *)
THEOREM MarkedDaysAreVerified == Spec => []MarkedIsVerified
<1>1. Init => MarkInv
  BY DEF Init, DailyInit, MarkInv, MarkedIsVerified, Fresh, NoHost
<1>2. MarkInv => MarkedIsVerified
  BY DEF MarkInv
<1> QED BY <1>1, <1>2, TypeInit, TypeStep, MarkStep, PTL DEF Spec

=============================================================================
