------------------------------- MODULE MCPull -------------------------------
(* Small instances of Pull for TLC. *)
EXTENDS Pull
MCAlphabet == {[kind |-> "end", msgID |-> 1], [kind |-> "more", msgID |-> 1]}
\* With a GGA sender, no packets; without, enough to fill the queue behind the writer.
MCMaxPackets == [m \in Modes |-> IF m = "gga" THEN 0 ELSE 5]
=============================================================================
