------------------------- MODULE MCReliableCommands --------------------------
(* An instance of the reliable commands for TLC. *)
EXTENDS ReliableCommands
=============================================================================
