--------------------------- MODULE MCCommandLine ---------------------------
(***************************************************************************)
(* Model-checking instances of CommandLine: the configurations it may load.*)
(***************************************************************************)
EXTENDS CommandLine

\* The modes that start accepts, and all of them.
MCAccepted == {"BINARY"}
MCAllModes == FileSaveModes

=============================================================================
