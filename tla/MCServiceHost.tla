--------------------------- MODULE MCServiceHost ---------------------------
(***************************************************************************)
(* Instances of ServiceHost for TLC.                                       *)
(***************************************************************************)
EXTENDS ServiceHost, TLC

CONSTANTS r1, r2

TwoRuns == {r1, r2}
TwoDates == 1 .. 2
OneDate == 1 .. 1

=============================================================================
