-------------------------- MODULE MCConfirmations --------------------------
(***************************************************************************)
(* Instances of Confirmations for TLC.                                     *)
(***************************************************************************)
EXTENDS Confirmations, TLC

CONSTANTS w1, w2, r1, r2, pay, note, h1

Processes == {w1, w2}
OneProcess == {w1}
NoCheckpoint == {}
OneReply == {r1}
TwoReplies == {r1, r2}
OneAsker == {h1}
NoAsker == {}
Payment == {pay}
PaymentAndNote == {pay, note}
OneNote == {note}
NoAction == {}

(* One run covers the two kinds of action, a high-risk one and another, one *)
(* at a time: no action looks at the state of another.                      *)
Touched(a) ==
  \/ execution[a] # "absent"
  \/ \E yes \in BOOLEAN : status[<<a, yes>>] # "absent"
  \/ \E h \in Askers : asking[h] # None /\ asking[h][1] = a

OneActionAtATime == \A a, b \in Actions : Touched(a) /\ Touched(b) => a = b

ConfirmationSymmetry == Permutations(Workers) \cup Permutations(Messages)

=============================================================================
