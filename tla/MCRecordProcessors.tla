------------------------- MODULE MCRecordProcessors -------------------------
(***************************************************************************)
(* Model-checking instance of RecordProcessors: two addresses for file     *)
(* writers are enough for an exchange, which makes the new writer before   *)
(* it destroys the old one.                                                *)
(***************************************************************************)
EXTENDS RecordProcessors, TLC

Symmetry == Permutations(Writers)

=============================================================================
