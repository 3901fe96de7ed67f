------------------------- MODULE MCSupplementIntake -------------------------
(***************************************************************************)
(* Instances of SupplementIntake for TLC.                                  *)
(***************************************************************************)
EXTENDS SupplementIntake, TLC

CONSTANTS m1, m2

Processes == {supplement, realtime}
NewOrKnown == {0, 1}
NewChat == {0}

NoCheckpoint == {}
OneMessage == {m1}
TwoMessages == {m1, m2}

=============================================================================
