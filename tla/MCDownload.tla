----------------------------- MODULE MCDownload ------------------------------
(* An instance of the downloads for TLC. *)
EXTENDS Download

(* A pak whose blocks do not fit the window, a short one, one the server   *)
(* lacks, and one whose empty block has the number SHORT \div 2.           *)
FourPaks == <<2, 1, 0, 3>>
SomeHeld == {{4}, {3, 4}, {1, 2, 3}}
=============================================================================
