--------------------------- MODULE MCGrandmaster ---------------------------
(* Small instance of Grandmaster for TLC. *)
EXTENDS Grandmaster
=============================================================================
