----------------------- MODULE SupplementIntakeProofs -----------------------
(***************************************************************************)
(* Proofs about SupplementIntake, for any messages, lookback, overlap,     *)
(* retention and delay up to the overlap, and whether or not claims expire *)
(* under their handlers: everything keeps its type, and as long as the     *)
(* checkpoint is not deleted it leaves no unhandled message behind.        *)
(***************************************************************************)
EXTENDS SupplementIntake, TLAPS

(* A message is listed at the latest when its delay has passed. *)
ListedInTime ==
  /\ \A m \in Messages : created[m] <= now \/ created[m] = NotYet
  /\ \A m \in Messages : created[m] + Delay < now => m \in visible

(* The window of a run continues where the checkpoint ends, which nothing   *)
(* else moves, and its run has listed all of it that is behind the overlap. *)
WindowContinues ==
  /\ checkpoint <= now
  /\ run # "none" => /\ window.end <= now
                     /\ checkpoint # 0 => window.start = Before(checkpoint, Overlap)
  /\ run = "piped" =>
       \A m \in Messages :
         window.start <= created[m] /\ created[m] < Before(window.end, Overlap) =>
           m \in listed

(* The windows begin with the one that led to the first checkpoint. *)
BaseIsFirst == checkpoint = 0 <=> base = NotYet

(* Both processes handle messages only, and a row says "complete" only of   *)
(* what was handled.                                                        *)
RowsAreTrue ==
  /\ \A w \in Workers : handles[w] \in Messages \cup {NoEvent}
  /\ \A m \in Messages : claim[m] = "complete" => m \in handled

IntakeInv == TypeOK /\ ListedInTime /\ WindowContinues /\ BaseIsFirst /\ RowsAreTrue /\ NoSkip

-----------------------------------------------------------------------------
(* Types.                                                                   *)

LEMMA Constants ==
  /\ MaxTime \in Nat /\ MaxTime > 0 /\ Delay \in Nat /\ Overlap \in Nat
  /\ Delay <= Overlap /\ Retention \in Nat /\ Lookback \in Nat /\ MaxFaults \in Nat
  /\ NotYet \in Nat /\ MaxTime < NotYet
  /\ supplement \in Workers /\ realtime \in Workers
  BY SupplementAssumption DEF NotYet

LEMMA BeforeIsTime ==
  ASSUME NEW t \in Times, NEW n \in Nat PROVE Before(t, n) \in Times /\ Before(t, n) <= t
  BY Constants DEF Times, Before

(* Rows and processes keep their types, and a row becomes complete only by  *)
(* the handling of its message.                                             *)
ClaimsKept ==
  /\ ClaimTypeOK'
  /\ \A w \in Workers : handles'[w] \in Messages \cup {NoEvent}
  /\ handled \subseteq handled' /\ handled' \subseteq Messages
  /\ \A m \in Messages : claim'[m] = "complete" => m \in handled'

LEMMA ClaimsUnchanged ==
  ASSUME TypeOK, RowsAreTrue, UNCHANGED <<claimVars, handled>> PROVE ClaimsKept
  BY DEF TypeOK, ClaimTypeOK, claimVars, ClaimsKept, RowsAreTrue

LEMMA TakeKeeps ==
  ASSUME TypeOK, RowsAreTrue, NEW w \in Workers, NEW m \in Messages, Take(w, m),
         handled' = handled
  PROVE  ClaimsKept
  BY DEF TypeOK, ClaimTypeOK, Take, ClaimsKept, Events, RowsAreTrue

LEMMA LeaveKeeps ==
  ASSUME TypeOK, RowsAreTrue, NEW w \in Workers,
         \/ Finish(w)
         \/ (Release(w) \/ Abandon(w)) /\ handled' = handled
  PROVE  ClaimsKept
<1>1. ASSUME NEW e, NEW r \in {"free", "complete"}
      PROVE  /\ Closed(e, r) \in [Events -> {"free", "held", "lapsed", "complete"}]
             /\ \A m \in Messages :
                  Closed(e, r)[m] = "complete" =>
                    claim[m] = "complete" \/ (m = e /\ r # "free")
  BY DEF TypeOK, ClaimTypeOK, Closed, Events
<1>2. /\ handles' \in [Workers -> Events \cup {NoEvent}]
      /\ \A v \in Workers : handles'[v] \in Messages \cup {NoEvent}
  BY DEF TypeOK, ClaimTypeOK, RowsAreTrue, Finish, Complete, Release, Abandon, Leave
<1>3. CASE Finish(w)
  <2>0. handles[w] \in Messages
    BY <1>3 DEF Finish, Complete, Leave, RowsAreTrue
  <2>1. \E r \in {"free", "complete"} : claim' = Closed(handles[w], r)
    BY <1>3 DEF Finish, Complete
  <2>2. handled' = handled \cup {handles[w]}
    BY <1>3 DEF Finish
  <2> QED BY <1>1, <1>2, <2>0, <2>1, <2>2 DEF TypeOK, ClaimTypeOK, ClaimsKept, RowsAreTrue
<1>4. CASE (Release(w) \/ Abandon(w)) /\ handled' = handled
  <2>1. claim' = Closed(handles[w], "free") \/ claim' = claim
    BY <1>4 DEF Release, Abandon
  <2> QED BY <1>1, <1>2, <1>4, <2>1 DEF TypeOK, ClaimTypeOK, ClaimsKept, RowsAreTrue
<1> QED BY <1>3, <1>4

LEMMA LapseKeeps ==
  ASSUME TypeOK, RowsAreTrue, NEW S \in SUBSET Messages, Lapse(S) \/ Sweep(S),
         handled' = handled
  PROVE  ClaimsKept
  BY DEF TypeOK, ClaimTypeOK, Lapse, Sweep, ClaimsKept, Events, RowsAreTrue

-----------------------------------------------------------------------------
(* Steps that leave the chat, the window and the checkpoint alone.          *)

LEMMA QuietKeeps ==
  ASSUME IntakeInv, ClaimsKept,
         UNCHANGED <<chatVars, checkpoint, run, window, listed, base>>,
         offered' \subseteq Messages, lines' \subseteq lines, faults' \in 0 .. MaxFaults
  PROVE  IntakeInv'
<1> USE DEF chatVars
<1>1. TypeOK'
  BY DEF IntakeInv, TypeOK, ClaimsKept
<1>2. ListedInTime'
  BY DEF IntakeInv, ListedInTime
<1>3. WindowContinues'
  BY DEF IntakeInv, WindowContinues, Before
<1>4. BaseIsFirst'
  BY DEF IntakeInv, BaseIsFirst
<1>5. NoSkip' /\ RowsAreTrue'
  BY DEF IntakeInv, NoSkip, ClaimsKept, Before, RowsAreTrue
<1> QED BY <1>1, <1>2, <1>3, <1>4, <1>5 DEF IntakeInv

(* A run that ends, at whatever point, only gives up its window. *)
LEMMA EndKeeps ==
  ASSUME IntakeInv, ClaimsKept, EndRun, UNCHANGED <<chatVars, checkpoint, ghostVars>>,
         faults' \in 0 .. MaxFaults
  PROVE  IntakeInv'
<1> USE DEF chatVars, ghostVars
<1>1. TypeOK'
  BY Constants DEF IntakeInv, TypeOK, ClaimsKept, EndRun, Times
<1>2. ListedInTime'
  BY DEF IntakeInv, ListedInTime
<1>3. WindowContinues'
  BY DEF IntakeInv, WindowContinues, EndRun
<1>4. BaseIsFirst'
  BY DEF IntakeInv, BaseIsFirst
<1>5. NoSkip' /\ RowsAreTrue'
  BY DEF IntakeInv, NoSkip, ClaimsKept, Before, RowsAreTrue
<1> QED BY <1>1, <1>2, <1>3, <1>4, <1>5 DEF IntakeInv

-----------------------------------------------------------------------------
(* The chat.                                                                *)

LEMMA ChatStep ==
  ASSUME IntakeInv,
         Tick \/ \E m \in Messages : Send(m) \/ Appear(m)
  PROVE  IntakeInv'
<1>0. /\ TypeOK /\ ListedInTime /\ WindowContinues /\ BaseIsFirst /\ RowsAreTrue /\ NoSkip
      /\ now \in Nat /\ \A m \in Messages : created[m] \in Nat
  BY Constants DEF IntakeInv, TypeOK
<1>1. UNCHANGED <<claimVars, checkpoint, runVars, base, offered, handled, faults>>
  BY DEF Tick, Send, Appear, ghostVars
<1>2. ClaimsKept
  BY <1>0, <1>1, ClaimsUnchanged
<1>3. TypeOK' /\ ListedInTime'
  <2>1. CASE Tick
    <3>1. /\ now < MaxTime /\ now' = now + 1 /\ UNCHANGED <<created, visible>>
          /\ \A m \in Messages : created[m] + Delay <= now => m \in visible
      BY <2>1 DEF Tick
    <3>2. TypeOK'
      BY <1>0, <1>1, <1>2, <3>1, Constants DEF TypeOK, ClaimsKept, runVars
    <3>3. ListedInTime'
      BY <1>0, <3>1, Constants DEF ListedInTime
    <3> QED BY <3>2, <3>3
  <2>2. ASSUME NEW m \in Messages, Send(m) PROVE TypeOK' /\ ListedInTime'
    <3>1. created' = [created EXCEPT ![m] = now] /\ UNCHANGED <<now, visible>>
      BY <2>2 DEF Send
    <3>2. TypeOK'
      BY <1>0, <1>1, <1>2, <3>1, Constants DEF TypeOK, ClaimsKept, runVars
    <3>3. ListedInTime'
      BY <1>0, <3>1, Constants DEF ListedInTime, TypeOK
    <3> QED BY <3>2, <3>3
  <2>3. ASSUME NEW m \in Messages, Appear(m) PROVE TypeOK' /\ ListedInTime'
    <3>1. visible' = visible \cup {m} /\ UNCHANGED <<now, created>>
      BY <2>3 DEF Appear
    <3>2. TypeOK'
      BY <1>0, <1>1, <1>2, <3>1 DEF TypeOK, ClaimsKept, runVars
    <3>3. ListedInTime'
      BY <1>0, <3>1 DEF ListedInTime
    <3> QED BY <3>2, <3>3
  <2> QED BY <2>1, <2>2, <2>3
<1>4. /\ now <= now'
      /\ \A m \in Messages : created'[m] = created[m] \/ created'[m] = now
  <2>1. CASE Tick
    BY <1>0, <2>1 DEF Tick
  <2>2. ASSUME NEW m \in Messages, Send(m) \/ Appear(m)
        PROVE  /\ now <= now'
               /\ \A n \in Messages : created'[n] = created[n] \/ created'[n] = now
    BY <1>0, <2>2 DEF Send, Appear, TypeOK
  <2> QED BY <2>1, <2>2
<1>5. WindowContinues'
  <2>1. window.end \in Nat /\ window.start \in Nat /\ now' \in Nat
    BY <1>0, <1>3, Constants DEF TypeOK, Times
  <2>0. checkpoint' <= now'
    BY <1>0, <1>1, <1>3, <1>4, Constants DEF TypeOK, Times, WindowContinues
  <2>2. run # "none" => Before(window.end, Overlap) <= now
    BY <1>0, <2>1, Constants DEF WindowContinues, Before
  <2>3. Before(window.end, Overlap) \in Nat
    BY <2>1, Constants DEF Before
  <2> QED BY <1>0, <1>1, <1>4, <2>0, <2>1, <2>2, <2>3 DEF WindowContinues, runVars, Before
<1>6. BaseIsFirst'
  BY <1>0, <1>1 DEF BaseIsFirst
<1>7. NoSkip' /\ RowsAreTrue'
  <2>1. checkpoint \in Times /\ checkpoint <= now
    BY <1>0 DEF TypeOK, WindowContinues
  <2>2. Before(checkpoint, Overlap) \in Nat /\ Before(checkpoint, Overlap) <= now
    BY <1>0, <2>1, Constants DEF Before, Times
  <2> QED BY <1>0, <1>1, <1>2, <1>4, <2>2 DEF NoSkip, ClaimsKept, Before, RowsAreTrue
<1> QED BY <1>3, <1>5, <1>6, <1>7 DEF IntakeInv

-----------------------------------------------------------------------------
(* The intake process.                                                      *)

LEMMA StartStep == ASSUME IntakeInv, StartRun PROVE IntakeInv'
<1>0. TypeOK /\ ListedInTime /\ WindowContinues /\ BaseIsFirst /\ RowsAreTrue /\ NoSkip
  BY DEF IntakeInv
<1>1. /\ UNCHANGED <<claimVars, now, created, visible, checkpoint, base, offered,
                     handled, faults>>
      /\ window' = [start |-> WindowStart, end |-> now] /\ run' = "listing"
      /\ UNCHANGED <<listed, lines>>
  BY DEF StartRun, chatVars, ghostVars
<1>2. WindowStart \in Times /\ now \in Times
  <2>1. now \in Times /\ checkpoint \in Times
    BY <1>0, Constants DEF TypeOK, Times
  <2>2. Before(now, Lookback) \in Times /\ Before(checkpoint, Overlap) \in Times
    BY <2>1, BeforeIsTime, Constants
  <2> QED BY <2>1, <2>2 DEF WindowStart
<1>3. ClaimsKept
  BY <1>0, <1>1, ClaimsUnchanged
<1>4. TypeOK'
  BY <1>0, <1>1, <1>2, <1>3 DEF TypeOK, ClaimsKept
<1>5. ListedInTime' /\ BaseIsFirst'
  BY <1>0, <1>1 DEF ListedInTime, BaseIsFirst
<1>6. WindowContinues'
  BY <1>0, <1>1, <1>2 DEF WindowContinues, WindowStart, Before, TypeOK
<1>7. NoSkip' /\ RowsAreTrue'
  BY <1>0, <1>1, <1>3 DEF NoSkip, ClaimsKept, Before, RowsAreTrue
<1> QED BY <1>4, <1>5, <1>6, <1>7 DEF IntakeInv

LEMMA ListStep == ASSUME IntakeInv, List \/ ListPartly PROVE IntakeInv'
<1>0. TypeOK /\ ListedInTime /\ WindowContinues /\ BaseIsFirst /\ RowsAreTrue /\ NoSkip
  BY DEF IntakeInv
<1>1. /\ UNCHANGED <<claimVars, now, created, visible, checkpoint, window, base, handled>>
      /\ run = "listing" /\ listed' \subseteq visible /\ lines' = listed'
      /\ offered' = (offered \cup listed') \ handled
  BY DEF List, ListPartly, chatVars
<1>2. /\ faults' \in 0 .. MaxFaults
      /\ run' \in {"piped", "cut"}
      /\ run' = "piped" => listed' = {m \in visible : InWindow(m)}
  BY <1>0, Constants DEF List, ListPartly, TypeOK
<1>3. ClaimsKept
  BY <1>0, <1>1, ClaimsUnchanged
<1>4. TypeOK'
  BY <1>0, <1>1, <1>2, <1>3 DEF TypeOK, ClaimsKept
<1>5. ListedInTime' /\ BaseIsFirst'
  BY <1>0, <1>1 DEF ListedInTime, BaseIsFirst
<1>6. ASSUME run' = "piped", NEW m \in Messages, window.start <= created[m],
             created[m] < Before(window.end, Overlap)
      PROVE  m \in listed'
  <2>1. /\ window.end \in Nat /\ window.start \in Nat /\ created[m] \in Nat
        /\ now \in Nat /\ window.end <= now
    BY <1>0, <1>1, Constants DEF TypeOK, Times, WindowContinues
  <2>2. created[m] + Overlap < window.end
    BY <1>6, <2>1, Constants DEF Before
  <2>3. m \in visible /\ created[m] <= window.end
    BY <1>0, <2>1, <2>2, Constants DEF ListedInTime
  <2>4. InWindow(m)
    BY <1>6, <2>1, <2>3 DEF InWindow
  <2> QED BY <1>2, <1>6, <2>3, <2>4
<1>7. WindowContinues'
  BY <1>0, <1>1, <1>2, <1>6 DEF WindowContinues, Before
<1>8. NoSkip' /\ RowsAreTrue'
  BY <1>0, <1>1, <1>3 DEF NoSkip, ClaimsKept, Before, RowsAreTrue
<1> QED BY <1>4, <1>5, <1>7, <1>8 DEF IntakeInv

(* The checkpoint moves over messages that are complete, or were behind it  *)
(* already.                                                                 *)
LEMMA CheckpointStep == ASSUME IntakeInv, HandleCheckpoint PROVE IntakeInv'
<1>0. TypeOK /\ ListedInTime /\ WindowContinues /\ BaseIsFirst /\ RowsAreTrue /\ NoSkip
  BY DEF IntakeInv
<1>1. EndRun /\ UNCHANGED <<claimVars, now, created, visible, offered, handled, faults>>
  BY DEF HandleCheckpoint, chatVars
<1>2. ClaimsKept /\ claim' = claim
  BY <1>0, <1>1, ClaimsUnchanged DEF claimVars
<1>3. CASE UNCHANGED <<checkpoint, base>>
  BY <1>0, <1>1, <1>2, <1>3, EndKeeps DEF IntakeInv, TypeOK, chatVars, ghostVars
<1>4. CASE ~UNCHANGED <<checkpoint, base>>
  <2>1. /\ run = "piped" /\ AreEventsComplete(listed) /\ checkpoint < window.end
        /\ checkpoint' = window.end
        /\ base' = IF base = NotYet THEN window.start ELSE base
    BY <1>4 DEF HandleCheckpoint, LastReadAt
  <2>2. /\ window.end \in Times /\ window.start \in Times /\ window.end <= now
        /\ window.end \in Nat /\ window.start \in Nat /\ checkpoint \in Nat
        /\ base \in Nat
    BY <1>0, <2>1, Constants DEF TypeOK, WindowContinues, Times
  <2>3. TypeOK'
    BY <1>0, <1>1, <1>2, <2>1, <2>2, Constants
    DEF TypeOK, ClaimsKept, EndRun, Times
  <2>4. ListedInTime' /\ WindowContinues'
    BY <1>0, <1>1, <2>1, <2>2 DEF ListedInTime, WindowContinues, EndRun
  <2>5. BaseIsFirst'
    BY <1>0, <2>1, <2>2, Constants DEF BaseIsFirst, Times
  <2>6. NoSkip'
    <3>1. SUFFICES ASSUME NEW m \in Messages, base' <= created[m],
                          created[m] < Before(window.end, Overlap)
                   PROVE  m \in handled
      BY <1>1, <1>2, <2>1 DEF NoSkip, Before
    <3>2. created[m] \in Nat
      BY <1>0, Constants DEF TypeOK
    <3>3. CASE window.start <= created[m]
      BY <1>0, <2>1, <3>1, <3>3 DEF WindowContinues, AreEventsComplete, RowsAreTrue
    <3>4. CASE created[m] < window.start
      <4>1. base # NotYet
        BY <2>1, <2>2, <3>1, <3>2, <3>4
      <4>2. checkpoint # 0
        BY <1>0, <4>1 DEF BaseIsFirst
      <4>3. window.start = Before(checkpoint, Overlap)
        BY <1>0, <2>1, <4>2 DEF WindowContinues
      <4> QED BY <1>0, <2>1, <3>1, <3>4, <4>1, <4>3 DEF NoSkip
    <3> QED BY <2>2, <3>2, <3>3, <3>4
  <2> QED BY <1>0, <1>2, <2>3, <2>4, <2>5, <2>6 DEF IntakeInv, ClaimsKept, RowsAreTrue
<1> QED BY <1>3, <1>4

-----------------------------------------------------------------------------
(* The two `serve` processes, and the end of a run.                         *)

LEMMA BreakStep == ASSUME IntakeInv, BreakRun PROVE IntakeInv'
<1>1. TypeOK /\ RowsAreTrue /\ supplement \in Workers
  BY Constants DEF IntakeInv
<1>2. EndRun /\ UNCHANGED <<chatVars, checkpoint, ghostVars>>
      /\ faults' \in 0 .. MaxFaults
  BY <1>1, Constants DEF BreakRun, TypeOK
<1>3. ClaimsKept
  BY <1>1, <1>2, LeaveKeeps, ClaimsUnchanged DEF BreakRun, ghostVars
<1> QED BY <1>2, <1>3, EndKeeps

(* The deletion of an old checkpoint takes back what it promised. *)
LEMMA MaintainStep == ASSUME IntakeInv, MaintainState PROVE IntakeInv'
<1>0. TypeOK /\ ListedInTime /\ WindowContinues /\ BaseIsFirst /\ RowsAreTrue /\ NoSkip
  BY DEF IntakeInv
<1>1. /\ UNCHANGED <<now, created, visible, offered, handled, faults>>
      /\ UNCHANGED <<run, window, listed, lines>>
  BY DEF MaintainState, chatVars, runVars
<1>2. ClaimsKept
  BY <1>0, <1>1, LapseKeeps DEF MaintainState
<1>3. CASE UNCHANGED <<checkpoint, base>>
  BY <1>0, <1>1, <1>2, <1>3, QuietKeeps DEF TypeOK, chatVars
<1>4. CASE checkpoint' = 0 /\ base' = NotYet
  <2>1. TypeOK'
    BY <1>0, <1>1, <1>2, <1>4, Constants DEF TypeOK, ClaimsKept, Times
  <2>2. ListedInTime' /\ BaseIsFirst'
    BY <1>0, <1>1, <1>4 DEF ListedInTime, BaseIsFirst
  <2>3. WindowContinues'
    BY <1>0, <1>1, <1>4, Constants DEF WindowContinues, TypeOK, Before
  <2>4. NoSkip' /\ RowsAreTrue'
    BY <1>0, <1>1, <1>2, <1>4, Constants DEF NoSkip, TypeOK, ClaimsKept, Before, RowsAreTrue
  <2> QED BY <2>1, <2>2, <2>3, <2>4 DEF IntakeInv
<1> QED BY <1>3, <1>4 DEF MaintainState

LEMMA QuietStep ==
  ASSUME IntakeInv,
         \/ \E m \in Messages :
              TakeLine(m) \/ SkipLine(m) \/ RealtimeTakes(m) \/ ClaimsAge(m)
         \/ FinishLine \/ RealtimeCompletes \/ RealtimeFails
         \/ UNCHANGED supplementVars
  PROVE  IntakeInv'
<1>0. TypeOK /\ RowsAreTrue
  BY DEF IntakeInv
<1>1. ClaimsKept
  <2>1. ASSUME NEW m \in Messages,
               TakeLine(m) \/ SkipLine(m) \/ RealtimeTakes(m) \/ ClaimsAge(m)
        PROVE  ClaimsKept
    BY <1>0, <2>1, TakeKeeps, LapseKeeps, ClaimsUnchanged, Constants
    DEF TakeLine, SkipLine, RealtimeTakes, ClaimsAge, ghostVars
  <2>2. CASE FinishLine \/ RealtimeCompletes \/ RealtimeFails
    BY <1>0, <2>2, LeaveKeeps, Constants
    DEF FinishLine, RealtimeCompletes, RealtimeFails, ghostVars
  <2>3. CASE UNCHANGED supplementVars
    BY <1>0, <2>3, ClaimsUnchanged DEF supplementVars, claimVars, ghostVars
  <2> QED BY <2>1, <2>2, <2>3
<1>2. /\ UNCHANGED <<chatVars, checkpoint, run, window, listed, base>>
      /\ lines' \subseteq lines /\ offered' \subseteq offered
  BY DEF TakeLine, SkipLine, RealtimeTakes, FinishLine, RealtimeCompletes, RealtimeFails,
         Finish, ClaimsAge, supplementVars, runVars, chatVars, ghostVars
<1>3. faults' \in 0 .. MaxFaults
  BY <1>0, Constants
  DEF TakeLine, SkipLine, RealtimeTakes, FinishLine, RealtimeCompletes, RealtimeFails,
      ClaimsAge, supplementVars, TypeOK
<1> QED BY <1>0, <1>1, <1>2, <1>3, QuietKeeps DEF TypeOK

-----------------------------------------------------------------------------

LEMMA IntakeInit == Init => IntakeInv
<1> SUFFICES ASSUME Init PROVE IntakeInv
  OBVIOUS
<1>1. ClaimTypeOK
  BY DEF Init, ClaimInit, ClaimTypeOK
<1>2. checkpoint \in {0, 1} /\ checkpoint \in Times /\ 0 \in Times
  BY SupplementAssumption, Constants DEF Init, Times
<1>3. TypeOK
  BY <1>1, <1>2, Constants DEF Init, TypeOK
<1>4. ListedInTime /\ WindowContinues /\ BaseIsFirst
  BY <1>2, Constants DEF Init, ListedInTime, WindowContinues, BaseIsFirst
<1>5. NoSkip /\ RowsAreTrue
  BY <1>2, Constants DEF Init, ClaimInit, NoSkip, Before, RowsAreTrue, Events
<1> QED BY <1>3, <1>4, <1>5 DEF IntakeInv

LEMMA IntakeStep == IntakeInv /\ [Next]_supplementVars => IntakeInv'
<1> SUFFICES ASSUME IntakeInv, [Next]_supplementVars PROVE IntakeInv'
  OBVIOUS
<1> QED BY ChatStep, StartStep, ListStep, CheckpointStep, BreakStep, MaintainStep,
           QuietStep
        DEF Next, RunStep

(* Every variable keeps its type; what is still in the pipe was listed.     *)
THEOREM IntakeTyped == Spec => []TypeOK
<1>1. IntakeInv => TypeOK
  BY DEF IntakeInv
<1> QED BY <1>1, IntakeInit, IntakeStep, PTL DEF Spec

(* No unhandled message is left behind the windows to come, if a message    *)
(* can be listed no later than the overlap after it was sent and until the  *)
(* checkpoint is deleted as too old.                                        *)
THEOREM NothingIsSkipped == Spec => []NoSkip
<1>1. IntakeInv => NoSkip
  BY DEF IntakeInv
<1> QED BY <1>1, IntakeInit, IntakeStep, PTL DEF Spec

=============================================================================
