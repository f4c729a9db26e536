------------------------------- MODULE MCPush -------------------------------
(* A small instance of Push for TLC. *)
EXTENDS Push
MCAlphabet == {[kind |-> "end", msgID |-> 1], [kind |-> "more", msgID |-> 1]}
=============================================================================
