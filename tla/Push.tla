-------------------------------- MODULE Push --------------------------------
(***************************************************************************)
(* Push and UDPSink of gps/app/stream: a goroutine that filters and queues *)
(* the receiver's packets, and a writer that sends them to a destination   *)
(* and, for Push, connects again after an error.  The broadcast delivers   *)
(* every packet in order until it is closed (see Bcast).  How long the     *)
(* writer backs off is left open: delay() is random.                       *)
(***************************************************************************)
EXTENDS PruningQueue

CONSTANTS Alphabet,    \* packets: [kind : Kinds, msgID]
          MaxPackets,  \* bound on the packets
          MaxFailures  \* bound on failed connects and writes

ASSUME ParamsAssumption == MaxPackets \in Nat /\ MaxFailures \in Nat

VARIABLES
  dest,      \* "ntrip" (Push) or "udp" (UDPSink)
  in,        \* the packets that the queue goroutine has received and forwards
  source,    \* "open", or "closed" when the broadcast has closed subCh
  qCtx,      \* the context of both goroutines: "live" or "cancelled"
  qpc,       \* the queue goroutine: "run" or "exited", which closes writerCh
  q, next,   \* its queue and the packet it offers, 0 for none (sendCh = nil)
  ch,        \* writerCh
  signal,    \* reconnectCh
  w, msg,    \* the writer and the packet it is writing, or 0
  sent,      \* what reached the destination
  failures,
  reported,  \* the last state reported to onState
  \* of the past, for the properties only
  dropped,   \* packets given up with a broken connection, or a datagram
  cuts       \* how many packets had come at each reconnect the queue was told of

qVars == <<qpc, q, next, cuts>>
wVars == <<w, msg, sent, failures, reported>>
vars == <<dest, in, source, qCtx, qVars, ch, signal, wVars, dropped>>

TypeOK ==
  /\ dest \in {"ntrip", "udp"} /\ source \in {"open", "closed"}
  /\ in \in Seq(Alphabet) /\ Len(in) <= MaxPackets
  /\ qCtx \in {"live", "cancelled"}
  /\ qpc \in {"run", "exited"} /\ next \in 0 .. Len(in)
  /\ Cardinality(q.entries) <= QueueMax /\ \A e \in q.entries : e.n \in 1 .. Len(in)
  /\ Len(ch) <= 1 /\ \A i \in 1 .. Len(ch) : ch[i] \in 1 .. Len(in)
  /\ signal \in BOOLEAN
  /\ w \in {"connect", "stream", "write", "backoff", "exited"} /\ msg \in 0 .. Len(in)
  /\ w = "write" <=> msg # 0
  /\ failures \in 0 .. MaxFailures
  /\ reported \in {"connecting", "connected", "reconnecting", "failed"}

Init ==
  /\ dest \in {"ntrip", "udp"}
  /\ in = <<>> /\ source = "open" /\ qCtx = "live"
  /\ qpc = "run" /\ q = emptyQueue /\ next = 0 /\ ch = <<>> /\ signal = FALSE
  /\ w = IF dest = "udp" THEN "stream" ELSE "connect"
  /\ msg = 0 /\ sent = <<>> /\ failures = 0
  /\ reported = "connecting" /\ dropped = {} /\ cuts = {}

Done == qCtx = "cancelled"

-----------------------------------------------------------------------------
(* The environment *)

SourceEnds ==
  /\ source = "open" /\ source' = "closed"
  /\ UNCHANGED <<dest, in, qCtx, qVars, ch, signal, wVars, dropped>>

\* The caller of Run cancels its context.
Cancel ==
  /\ ~Done /\ qCtx' = "cancelled"
  /\ UNCHANGED <<dest, in, source, qVars, ch, signal, wVars, dropped>>

-----------------------------------------------------------------------------
(* The queue goroutine *)

\* next is the head of r when something waits, and r is left without it.
Offer(r) ==
  IF r.entries = {} THEN next' = 0 /\ q' = r ELSE next' = first(r) /\ q' = dequeue(r)

\* A packet of the wrong protocol or with a wrong checksum changes nothing.
queueReceive(p) ==
  /\ qpc = "run" /\ source = "open" /\ Len(in) < MaxPackets
  /\ in' = Append(in, p)
  /\ LET r == enqueue(q, Len(in) + 1, p)
     IN  IF next = 0 THEN Offer(r) ELSE q' = r /\ UNCHANGED next
  /\ UNCHANGED <<dest, source, qCtx, qpc, cuts, ch, signal, wVars, dropped>>

queueSend ==
  /\ qpc = "run" /\ next # 0 /\ ch = <<>>
  /\ ch' = <<next>> /\ Offer(q)
  /\ UNCHANGED <<dest, in, source, qCtx, qpc, cuts, signal, wVars, dropped>>

\* Variant: the MSM epoch goes on.
queueReconnect_SameEpoch ==
  /\ qpc = "run" /\ signal /\ signal' = FALSE
  /\ dropped' = dropped \cup {ch[i] : i \in 1 .. Len(ch)} \cup ({next} \ {0})
  /\ ch' = <<>> /\ Offer(q)
  /\ cuts' = cuts \cup {Len(in)}
  /\ UNCHANGED <<dest, in, source, qCtx, qpc, wVars>>

\* reconnectCh: writerCh is drained, what was on offer is given up, a new epoch begins.
queueReconnect ==
  /\ qpc = "run" /\ signal /\ signal' = FALSE
  /\ dropped' = dropped \cup {ch[i] : i \in 1 .. Len(ch)} \cup ({next} \ {0})
  /\ ch' = <<>> /\ Offer(reconnect(q))
  /\ cuts' = cuts \cup {Len(in)}
  /\ UNCHANGED <<dest, in, source, qCtx, qpc, wVars>>

\* Cancellation, or the end of the packets, which cancels the writer.
queueExit ==
  /\ qpc = "run" /\ qpc' = "exited"
  /\ \/ Done /\ UNCHANGED qCtx
     \/ source = "closed" /\ qCtx' = "cancelled"
  /\ UNCHANGED <<dest, in, source, q, next, cuts, ch, signal, wVars, dropped>>

-----------------------------------------------------------------------------
(* The writer *)

connected ==
  /\ w = "connect" /\ w' = "stream" /\ reported' = "connected"
  /\ UNCHANGED <<dest, in, source, qCtx, qVars, ch, signal, msg, sent, failures, dropped>>

\* Connect fails: for good, which cancels the queue, or to be tried again.
connectFails ==
  /\ w = "connect" /\ ~Done /\ failures < MaxFailures /\ failures' = failures + 1
  /\ \/ w' = "exited" /\ reported' = "failed" /\ qCtx' = "cancelled"
     \/ w' = "backoff" /\ reported' = "reconnecting" /\ UNCHANGED qCtx
  /\ UNCHANGED <<dest, in, source, qVars, ch, signal, msg, sent, dropped>>

\* Variant: the connection is not tried again while packets wait.
backoffEnds_Idle ==
  /\ w = "backoff" /\ next = 0 /\ w' = "connect" /\ reported' = "connecting"
  /\ UNCHANGED <<dest, in, source, qCtx, qVars, ch, signal, msg, sent, failures, dropped>>

backoffEnds ==
  /\ w = "backoff" /\ w' = "connect" /\ reported' = "connecting"
  /\ UNCHANGED <<dest, in, source, qCtx, qVars, ch, signal, msg, sent, failures, dropped>>

\* writeLoop takes a packet.
take ==
  /\ w = "stream" /\ ch # <<>>
  /\ msg' = ch[1] /\ ch' = <<>> /\ w' = "write"
  /\ UNCHANGED <<dest, in, source, qCtx, qVars, signal, sent, failures, reported, dropped>>

writeOK ==
  /\ w = "write" /\ w' = "stream" /\ sent' = Append(sent, msg) /\ msg' = 0
  /\ UNCHANGED <<dest, in, source, qCtx, qVars, ch, signal, failures, reported, dropped>>

\* A write fails or times out.  A datagram is dropped; a connection is closed, the
\* queue is told, unless it has been already, and the writer backs off.
writeFails ==
  /\ w = "write" /\ ~Done /\ failures < MaxFailures /\ failures' = failures + 1
  /\ msg' = 0 /\ dropped' = dropped \cup {msg}
  /\ IF dest = "udp" THEN w' = "stream" /\ UNCHANGED <<signal, reported>>
     ELSE w' = "backoff" /\ signal' = TRUE /\ reported' = "reconnecting"
  /\ UNCHANGED <<dest, in, source, qCtx, qVars, ch, sent>>

\* Wherever the writer is blocked, cancellation or a closed qCh gets it out.
writerExit ==
  /\ w # "exited" /\ (Done \/ (w = "stream" /\ qpc = "exited" /\ ch = <<>>))
  /\ w' = "exited" /\ msg' = 0
  /\ UNCHANGED <<dest, in, source, qCtx, qVars, ch, signal, sent, failures, reported, dropped>>

-----------------------------------------------------------------------------
Progress ==
  \/ queueSend \/ queueReconnect \/ queueExit
  \/ connected \/ backoffEnds \/ take \/ writeOK \/ writerExit

Next ==
  \/ \E p \in Alphabet : queueReceive(p)
  \/ SourceEnds \/ Cancel \/ connectFails \/ writeFails
  \/ Progress

\* Goroutines go on, delays end, and connects and writes end in one way or another.
Spec == Init /\ [][Next]_vars /\ WF_vars(Progress)

-----------------------------------------------------------------------------
(* Properties *)

Entries == {e.n : e \in q.entries}
Waiting == Entries \cup {ch[i] : i \in 1 .. Len(ch)} \cup ({next, msg} \ {0})
Sent == {sent[i] : i \in 1 .. Len(sent)}
Wanted == 1 .. Len(in)

\* What separates two MSM packets, said of the whole history: an "end" packet or a
\* reconnect in between.
SameEpoch(i, j) ==
  /\ IsMSM(in[i]) /\ IsMSM(in[j])
  /\ \A k \in i .. j - 1 : in[k].kind # "end"
  /\ \A c \in cuts : ~(i <= c /\ c < j)

Supersedes(j, i) ==
  /\ i < j /\ in[i].kind # "plain" /\ in[j].kind # "plain" /\ in[i].msgID = in[j].msgID
  /\ ~SameEpoch(i, j)

\* The destination gets packets in the order of the receiver, each at most once,
\* through a queue, a channel that two goroutines empty, and reconnects.
SentInOrder == \A i, j \in 1 .. Len(sent) : i < j => sent[i] < sent[j]

\* A packet is missing only because a newer one of its type from another epoch has
\* come (pruningQueue), because QueueMax newer ones wait or waited, or because it was about to
\* land on a broken connection; of those there are no more than three for each.  What
\* is sent is sent in order.
LossJustified ==
  /\ SentInOrder
  /\ qpc = "run" /\ ~Done =>
       \A i \in Wanted \ (Sent \cup Waiting \cup dropped) :
         \/ \E j \in Wanted : Supersedes(j, i)
         \/ Cardinality({j \in Wanted : j > i}) >= QueueMax
  /\ Cardinality(dropped) <= 3 * failures

\* What waits in the queue has no successor there: only packets of one epoch of MSM
\* are there twice, and an epoch does not go on over a reconnect.
QueueFresh == \A i, j \in Entries : ~Supersedes(j, i)

\* The state is of its type and the queue holds nothing that has been replaced.
Consistent == TypeOK /\ QueueFresh

Returned == qpc = "exited" /\ w = "exited"

\* Run returns after a cancellation, the end of the packets or a rejection by the
\* caster, wherever its two goroutines are blocked.
Returns == <>[](Done \/ source = "closed" \/ reported = "failed" => Returned)

\* Otherwise the writer comes back, the queue learns of it, and everything that
\* waits is sent.
CaughtUp == <>[](Returned \/ (Waiting = {} /\ ~signal))

\* Run neither hangs nor leaves packets behind.
Finishes == Returns /\ CaughtUp
=============================================================================
