------------------------------ MODULE MCPhcEra ------------------------------
(* Small instance of PhcEra for TLC. *)
EXTENDS PhcEra
=============================================================================
