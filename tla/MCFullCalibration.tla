------------------------- MODULE MCFullCalibration -------------------------
(***************************************************************************)
(* Model-checking instances of FullCalibration: how many stages are asked  *)
(* for. 0 stands for a press with no channel selected.                     *)
(***************************************************************************)
EXTENDS FullCalibration

MCStageCounts == {0, 1, 2}
MCTwoStages   == {2}

=============================================================================
