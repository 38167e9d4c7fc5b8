-------------------------- MODULE MCSettingsWindow --------------------------
(***************************************************************************)
(* Model-checking instances of SettingsWindow: no duration and those      *)
(* around the minimum of the spin box, which is 50 ms in the program.      *)
(***************************************************************************)
EXTENDS SettingsWindow

MCDurations == 0 .. MinTime + 1

=============================================================================
