--------------------------- MODULE MCServerChannel ---------------------------
(* Instances of the server's channel for TLC. *)
EXTENDS ServerChannel

(* With fragments of two bytes: a packet, exactly two fragments and the   *)
(* empty one behind them, four fragments.                                  *)
ShortToLong == {1, 4, 7}
=============================================================================
