---------------------------- MODULE ClaimLedger ----------------------------
(***************************************************************************)
(* What the handlers of events may rely on: claimEvent, completeEvent and  *)
(* releaseEvent of runtime-state.mjs with the clock left out.  EventLedger *)
(* is the same table with its clock, and implements this one.              *)
(*                                                                         *)
(* A claim of which the TTL has run out is "lapsed": its row is still      *)
(* there, and the next process that wants the event may take it over.      *)
(***************************************************************************)
CONSTANTS
  Workers,      \* runtime processes that handle events
  Messages,     \* message events
  Checkpoints,  \* supplement_checkpoint events
  NoEvent,      \* what a process handles that handles no event
  Bounded       \* an instance may take it that handlers end within their TTL;
                \* the code does not enforce it

ASSUME ClaimAssumption ==
  /\ Messages \cap Checkpoints = {}
  /\ NoEvent \notin Messages \cup Checkpoints
  /\ Bounded \in BOOLEAN

VARIABLES
  claim,    \* the row of each event
  handles   \* the event each process handles

claimVars == <<claim, handles>>

Events == Messages \cup Checkpoints

ClaimTypeOK ==
  /\ claim \in [Events -> {"free", "held", "lapsed", "complete"}]
  /\ handles \in [Workers -> Events \cup {NoEvent}]

ClaimInit ==
  /\ claim = [e \in Events |-> "free"]
  /\ handles = [w \in Workers |-> NoEvent]

-----------------------------------------------------------------------------

Take(w, e) ==
  /\ handles[w] = NoEvent
  /\ claim[e] \in {"free", "lapsed"}
  /\ claim' = [claim EXCEPT ![e] = "held"]
  /\ handles' = [handles EXCEPT ![w] = e]

(* The row of e, set to status if it is claimed, by whichever process.     *)
Closed(e, status) ==
  [claim EXCEPT ![e] = IF @ \in {"held", "lapsed"} THEN status ELSE @]

Leave(w) ==
  /\ handles[w] # NoEvent
  /\ handles' = [handles EXCEPT ![w] = NoEvent]

Complete(w) ==
  /\ Leave(w)
  /\ claim' = Closed(handles[w],
                     IF handles[w] \in Checkpoints THEN "free" ELSE "complete")

Release(w) == Leave(w) /\ claim' = Closed(handles[w], "free")

(* A crash. *)
Abandon(w) == Leave(w) /\ UNCHANGED claim

(* Time passes the end of the claims on the events of S. *)
Lapse(S) ==
  /\ \A e \in S : claim[e] = "held"
  /\ Bounded => \A w \in Workers : handles[w] \notin S
  /\ claim' = [e \in Events |-> IF e \in S THEN "lapsed" ELSE claim[e]]
  /\ UNCHANGED handles

(* Maintenance deletes the lapsed rows, and the rows of F, complete and     *)
(* past their retention.                                                    *)
Sweep(F) ==
  /\ \A e \in F : claim[e] = "complete"
  /\ claim' = [e \in Events |->
       IF claim[e] = "lapsed" \/ e \in F THEN "free" ELSE claim[e]]
  /\ UNCHANGED handles

ClaimNext ==
  \/ \E w \in Workers :
       \/ \E e \in Events : Take(w, e)
       \/ Complete(w) \/ Release(w) \/ Abandon(w)
  \/ \E S \in SUBSET Events : Lapse(S) \/ Sweep(S)

ClaimSpec == ClaimInit /\ [][ClaimNext]_claimVars

=============================================================================
