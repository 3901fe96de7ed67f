-------------------------- MODULE SupplementIntake --------------------------
(***************************************************************************)
(* The supplement role for one chat: runSupplement of intake-command.mjs   *)
(* lists the messages since the chat's checkpoint, and pipes them, and     *)
(* behind them a supplement_checkpoint event, into a `serve` process of    *)
(* its own, while the realtime process handles messages of the chat too.   *)
(* The checkpoint may only move over messages that are complete.           *)
(*                                                                         *)
(* Maintenance deletes a checkpoint that lies behind the state retention,  *)
(* together with the rows of events completed that long ago: after such an *)
(* outage the chat is like a new one, and what the lookback does not reach *)
(* is skipped.                                                             *)
(*                                                                         *)
(* Runs do not overlap (one launchd job, which waits for the pipeline).    *)
(* Time is a bounded clock, in units of the lookback and the overlap.      *)
(***************************************************************************)
EXTENDS Naturals, ClaimLedger

CONSTANTS
  supplement, realtime,  \* the two `serve` processes
  Lookback,              \* supplement_lookback_minutes
  Overlap,               \* the two minutes a window reaches behind the checkpoint
  Delay,                 \* longest time until a message can be listed
  Retention,             \* state_retention_days
  FirstCheckpoints,      \* the checkpoints a chat may start with; 0: none
  MaxTime,               \* bound on the clock
  MaxFaults              \* bound on crashes and failed handlings in one run

ASSUME SupplementAssumption ==
  /\ Workers = {supplement, realtime} /\ supplement # realtime
  /\ Lookback \in Nat \ {0}
  /\ Overlap \in Nat
  /\ Delay \in 0 .. Overlap
  /\ Retention \in Nat
  /\ MaxTime \in Nat \ {0}
  /\ FirstCheckpoints \subseteq 0 .. 1 /\ FirstCheckpoints # {}
  /\ MaxFaults \in Nat

VARIABLES
  now,         \* the clock, from 1
  created,     \* when each message was sent; NotYet if it was not
  visible,     \* the messages that listMessages returns
  checkpoint,  \* supplement_checkpoints.last_read_at; 0 if there is no row
  run,         \* what the intake process of the current run is doing
  window,      \* the window it asked for
  listed,      \* the event_ids of its checkpoint event
  lines,       \* the messages still in the pipe; the checkpoint is behind them
  base,        \* ghost: where the first window that led to a checkpoint began,
               \* since there was none; NotYet if there is none
  offered,     \* ghost: the messages that a run has listed and none has handled
  handled,     \* ghost: the messages whose handling some process has completed
  faults       \* ghost: crashes and failed handlings so far

chatVars == <<now, created, visible>>
runVars == <<run, window, listed, lines>>
ghostVars == <<base, offered, handled>>
supplementVars ==
  <<claimVars, chatVars, checkpoint, runVars, ghostVars, faults>>

NotYet == MaxTime + 1
Times == 0 .. MaxTime
Before(t, n) == IF t > n THEN t - n ELSE 0

TypeOK ==
  /\ ClaimTypeOK
  /\ now \in 1 .. MaxTime
  /\ created \in [Messages -> 1 .. NotYet]
  /\ visible \subseteq Messages
  /\ checkpoint \in Times
  /\ run \in {"none", "listing", "piped", "cut"}
  /\ window \in [start : Times, end : Times]
  /\ listed \subseteq Messages
  /\ lines \subseteq listed
  /\ base \in 0 .. NotYet
  /\ offered \subseteq Messages
  /\ handled \subseteq Messages
  /\ faults \in 0 .. MaxFaults

Init ==
  /\ ClaimInit
  /\ now = 1
  /\ created = [m \in Messages |-> NotYet]
  /\ visible = {}
  /\ checkpoint \in FirstCheckpoints
  /\ run = "none"
  /\ window = [start |-> 0, end |-> 0]
  /\ listed = {}
  /\ lines = {}
  /\ base = IF checkpoint = 0 THEN NotYet ELSE 0
  /\ offered = {}
  /\ handled = {}
  /\ faults = 0

-----------------------------------------------------------------------------
(* The chat.                                                                *)

Tick ==
  /\ now < MaxTime
  /\ \A m \in Messages : created[m] + Delay <= now => m \in visible
  /\ now' = now + 1
  /\ UNCHANGED <<claimVars, created, visible, checkpoint, runVars, ghostVars, faults>>

Send(m) ==
  /\ created[m] = NotYet
  /\ created' = [created EXCEPT ![m] = now]
  /\ UNCHANGED <<claimVars, now, visible, checkpoint, runVars, ghostVars, faults>>

Appear(m) ==
  /\ created[m] # NotYet
  /\ m \notin visible
  /\ visible' = visible \cup {m}
  /\ UNCHANGED <<claimVars, now, created, checkpoint, runVars, ghostVars, faults>>

-----------------------------------------------------------------------------
(* The intake process.                                                      *)

(* Mutant: no overlap with the window before. *)
StartAtCheckpoint ==
  IF checkpoint # 0 THEN checkpoint ELSE Before(now, Lookback)

WindowStart ==
  IF checkpoint # 0 THEN Before(checkpoint, Overlap) ELSE Before(now, Lookback)

StartRun ==
  /\ run = "none"
  /\ window' = [start |-> WindowStart, end |-> now]
  /\ run' = "listing"
  /\ UNCHANGED <<claimVars, chatVars, checkpoint, listed, lines, ghostVars, faults>>

InWindow(m) == created[m] \in window.start .. window.end

(* All pages are listed and the lines written; the checkpoint line comes    *)
(* last, and not at all if a page cannot be had.                            *)
List ==
  /\ run = "listing"
  /\ listed' = {m \in visible : InWindow(m)}
  /\ lines' = listed'
  /\ offered' = (offered \cup listed') \ handled
  /\ run' = "piped"
  /\ UNCHANGED <<claimVars, chatVars, checkpoint, window, base, handled, faults>>

ListPartly ==
  /\ run = "listing"
  /\ faults < MaxFaults
  /\ \E found \in SUBSET {m \in visible : InWindow(m)} :
       listed' = found /\ lines' = found /\ offered' = (offered \cup found) \ handled
  /\ run' = "cut"
  /\ faults' = faults + 1
  /\ UNCHANGED <<claimVars, chatVars, checkpoint, window, base, handled>>

(* Mutant: the lines of a broken run are left to the next one. *)
EndRunKeepingLines ==
  /\ run' = "none"
  /\ listed' = {}
  /\ UNCHANGED lines
  /\ window' = [start |-> 0, end |-> 0]

EndRun ==
  /\ run' = "none"
  /\ listed' = {}
  /\ lines' = {}
  /\ window' = [start |-> 0, end |-> 0]

-----------------------------------------------------------------------------
(* The `serve` process behind the pipe.                                     *)

Finish(w) ==
  /\ Complete(w)
  /\ handled' = handled \cup {handles[w]}
  /\ offered' = offered \ {handles[w]}

TakeLine(m) ==
  /\ m \in lines
  /\ Take(supplement, m)
  /\ UNCHANGED <<chatVars, checkpoint, runVars, ghostVars, faults>>

(* A message that is complete, or that the realtime process has claimed, is *)
(* a duplicate.                                                             *)
SkipLine(m) ==
  /\ m \in lines
  /\ handles[supplement] = NoEvent
  /\ claim[m] \in {"held", "complete"}
  /\ lines' = lines \ {m}
  /\ UNCHANGED <<claimVars, chatVars, checkpoint, run, window, listed, ghostVars,
                 faults>>

FinishLine ==
  /\ Finish(supplement)
  /\ lines' = lines \ {handles[supplement]}
  /\ UNCHANGED <<chatVars, checkpoint, run, window, listed, base, faults>>

(* Mutant: the listed messages need not be complete. *)
AnyComplete(events) == TRUE

AreEventsComplete(events) == \A m \in events : claim[m] = "complete"
LastReadAt == window.end

(* The checkpoint event, or the end of a pipe that has none.                *)
HandleCheckpoint ==
  /\ run \in {"piped", "cut"}
  /\ lines = {}
  /\ IF run = "piped" /\ AreEventsComplete(listed) /\ checkpoint < LastReadAt
     THEN /\ checkpoint' = LastReadAt
          /\ base' = IF base = NotYet THEN window.start ELSE base
     ELSE UNCHANGED <<checkpoint, base>>
  /\ EndRun
  /\ UNCHANGED <<claimVars, chatVars, offered, handled, faults>>

(* The handler throws or its process dies: the lines behind it are lost.    *)
BreakRun ==
  /\ run \in {"listing", "piped", "cut"}
  /\ faults < MaxFaults
  /\ \/ Release(supplement) \/ Abandon(supplement)
     \/ handles[supplement] = NoEvent /\ UNCHANGED claimVars
  /\ faults' = faults + 1
  /\ EndRun
  /\ UNCHANGED <<chatVars, checkpoint, ghostVars>>

-----------------------------------------------------------------------------
(* The realtime process, maintenance, and time passing over claims.         *)

RealtimeTakes(m) ==
  /\ created[m] # NotYet
  /\ Take(realtime, m)
  /\ UNCHANGED <<chatVars, checkpoint, runVars, ghostVars, faults>>

RealtimeCompletes ==
  /\ Finish(realtime)
  /\ UNCHANGED <<chatVars, checkpoint, runVars, base, faults>>

RealtimeFails ==
  /\ faults < MaxFaults
  /\ Release(realtime) \/ Abandon(realtime)
  /\ faults' = faults + 1
  /\ UNCHANGED <<chatVars, checkpoint, runVars, ghostVars>>

ClaimsAge(m) ==
  /\ \E S \in SUBSET Messages : m \in S /\ Lapse(S)
  /\ UNCHANGED <<chatVars, checkpoint, runVars, ghostVars, faults>>

(* maintainState, in whichever process.  When a row was completed is not    *)
(* kept here: not before its message was sent.                              *)
MaintainState ==
  /\ \E F \in SUBSET {m \in Messages : claim[m] = "complete" /\ created[m] + Retention < now} :
       Sweep(F)
  /\ IF checkpoint # 0 /\ checkpoint + Retention < now
     THEN checkpoint' = 0 /\ base' = NotYet
     ELSE UNCHANGED <<checkpoint, base>>
  /\ UNCHANGED <<chatVars, runVars, offered, handled, faults>>

-----------------------------------------------------------------------------

RunStep ==
  \/ StartRun \/ List \/ HandleCheckpoint \/ FinishLine
  \/ \E m \in Messages : TakeLine(m) \/ SkipLine(m)

Next ==
  \/ Tick
  \/ \E m \in Messages : Send(m) \/ Appear(m) \/ RealtimeTakes(m) \/ ClaimsAge(m)
  \/ RunStep \/ ListPartly \/ BreakRun
  \/ RealtimeCompletes \/ RealtimeFails \/ MaintainState

Spec == Init /\ [][Next]_supplementVars

(* Runs are started again and again and go on, messages appear in time, and *)
(* what a process has claimed it completes or loses.                        *)
Fairness ==
  /\ WF_supplementVars(RunStep)
  /\ WF_supplementVars(RealtimeCompletes)
  /\ \A m \in Messages : WF_supplementVars(Appear(m)) /\ WF_supplementVars(ClaimsAge(m))

FairSpec == Spec /\ Fairness

-----------------------------------------------------------------------------

(* No message is left behind the windows to come: one that is older than    *)
(* the next window begins has been handled, if the windows ever reached     *)
(* back to it since the chat last had no checkpoint.  Late listing,         *)
(* failures, crashes, maintenance and the realtime process's own claims do  *)
(* not open a gap; the deletion of an old checkpoint does.                  *)
NoSkip ==
  \A m \in Messages :
    base <= created[m] /\ created[m] < Before(checkpoint, Overlap) => m \in handled

(* runtime.md: the checkpoint and the lookback window prevent omissions.    *)
(* So no message that a run has listed is left behind unhandled.            *)
OfferedIsNotLost ==
  \A m \in offered : Before(checkpoint, Overlap) <= created[m]

(* Every message that the windows reach back to is handled, unless the      *)
(* checkpoint is deleted and the windows that follow begin after it.        *)
CatchesUp ==
  \A m \in Messages :
    created[m] # NotYet /\ base <= created[m] ~> m \in handled \/ created[m] < base

=============================================================================
