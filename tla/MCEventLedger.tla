--------------------------- MODULE MCEventLedger ---------------------------
(***************************************************************************)
(* Instances of EventLedger for TLC, with the form a bug would take in it. *)
(***************************************************************************)
EXTENDS EventLedger, TLC

CONSTANTS w1, w2, w3, m1, m2, k1

TwoWorkers == {w1, w2}
ThreeWorkers == {w1, w2, w3}
OneMessage == {m1}
TwoMessages == {m1, m2}
OneCheckpoint == {k1}
NoCheckpoint == {}

WorkerSymmetry == Permutations(Workers)

=============================================================================
