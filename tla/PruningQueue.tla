---------------------------- MODULE PruningQueue ----------------------------
(***************************************************************************)
(* The bounded queue of gps/app/stream that Pull and Push share.  A packet *)
(* of RTCM replaces the ones of its message type that still wait, except   *)
(* that the MSM packets of one epoch, which may be of one type, do not     *)
(* replace each other.                                                     *)
(*                                                                         *)
(* A packet has a message type and is the last MSM packet of its epoch     *)
(* ("end"), another MSM packet ("more"), other RTCM ("rtcm") or of another *)
(* protocol ("plain").  Packets are known by their number, and the entries *)
(* are in the order of these numbers: a set of entries stands for them.    *)
(***************************************************************************)
EXTENDS Integers, Sequences, FiniteSets

CONSTANT QueueMax   \* pruningQueueMaxLen

ASSUME QueueMaxAssumption == QueueMax \in Nat \ {0}

NoEpoch == -1
Kinds == {"end", "more", "rtcm", "plain"}
IsMSM(p) == p.kind \in {"end", "more"}

emptyQueue == [entries |-> {}, msmEpoch |-> 0]

reconnect(q) == [q EXCEPT !.msmEpoch = @ + 1]

oldest(es) == CHOOSE e \in es : \A f \in es : e.n <= f.n

dropOldest(es) == IF Cardinality(es) <= QueueMax THEN es ELSE es \ {oldest(es)}

\* Variant: packets of one epoch replace each other.
Replaces_InEpoch(p, ep, e) == p.kind # "plain" /\ e.pkt.kind # "plain" /\ e.pkt.msgID = p.msgID

\* Packet p, with epoch ep, makes the queued entry e superfluous.
Replaces(p, ep, e) ==
  /\ p.kind # "plain" /\ e.pkt.kind # "plain" /\ e.pkt.msgID = p.msgID
  /\ ep = NoEpoch \/ e.msmEpoch = NoEpoch \/ ep # e.msmEpoch

enqueue(q, n, p) ==
  LET ep   == IF IsMSM(p) THEN q.msmEpoch ELSE NoEpoch
      kept == {e \in q.entries : ~Replaces(p, ep, e)}
  IN  [entries  |-> dropOldest(kept \cup {[n |-> n, pkt |-> p, msmEpoch |-> ep]}),
       msmEpoch |-> IF p.kind = "end" THEN q.msmEpoch + 1 ELSE q.msmEpoch]

\* What dequeue returns, and what it leaves.
first(q) == oldest(q.entries).n
dequeue(q) == [q EXCEPT !.entries = @ \ {oldest(@)}]
=============================================================================
