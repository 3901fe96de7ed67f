-------------------------- MODULE ConfirmedAction --------------------------
(***************************************************************************)
(* What a confirmation promises the principal: an action is performed on   *)
(* its confirmation at most once, and only after it was approved; an       *)
(* answer is final, and one refused or left unanswered too long is never   *)
(* performed on it.  Only an action that is not guarded (not high-risk for *)
(* the platform) may also be performed on the model's own decision.        *)
(***************************************************************************)
CONSTANTS
  Actions,
  Guarded  \* the actions that are performed on their confirmation only

VARIABLES
  answer,  \* "none", "approved" or "refused"
  done,    \* the actions performed on their confirmation
  own      \* the actions performed without one

promiseVars == <<answer, done, own>>

PromiseInit ==
  /\ answer = [a \in Actions |-> "none"]
  /\ done = {}
  /\ own = {}

(* The principal answers, or the time to answer has run out, for each       *)
(* action of R: maintenance closes several unanswered ones in one step.     *)
Approve(a) ==
  /\ answer[a] = "none"
  /\ answer' = [answer EXCEPT ![a] = "approved"]
  /\ UNCHANGED <<done, own>>

Refuse(R) ==
  /\ \A a \in R : answer[a] = "none"
  /\ answer' = [a \in Actions |-> IF a \in R THEN "refused" ELSE answer[a]]
  /\ UNCHANGED <<done, own>>

Do(a) ==
  /\ answer[a] = "approved"
  /\ a \notin done
  /\ done' = done \cup {a}
  /\ UNCHANGED <<answer, own>>

DoOwn(a) ==
  /\ a \notin Guarded
  /\ own' = own \cup {a}
  /\ UNCHANGED <<answer, done>>

PromiseNext ==
  \/ \E a \in Actions : Approve(a) \/ Do(a) \/ DoOwn(a)
  \/ \E R \in SUBSET Actions : Refuse(R)

PromiseSpec == PromiseInit /\ [][PromiseNext]_promiseVars

=============================================================================
