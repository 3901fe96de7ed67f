--------------------------- MODULE MCTwinService ---------------------------
(***************************************************************************)
(* Instances of TwinService for TLC.                                       *)
(***************************************************************************)
EXTENDS TwinService, TLC

CONSTANTS w1, w2, m1, stop, send, hello

Processes == {w1, w2}
NoCheckpoint == {}
ChatMessage == {m1}
ChatAndControl == {m1, stop}
StopMessage == {stop}
NoControl == {}
OneCommand == {send}
OneText == {hello}

ServiceSymmetry == Permutations(Processes)

=============================================================================
