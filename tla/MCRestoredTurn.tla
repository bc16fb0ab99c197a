--------------------------- MODULE MCRestoredTurn ---------------------------
(* RestoredTurn for TLC. *)
EXTENDS RestoredTurn

Every == Checkpoint
=============================================================================
