-------------------------------- MODULE Pull --------------------------------
(***************************************************************************)
(* Pull of gps/app/stream: a reader that connects to a correction source,  *)
(* again and again, a broadcast, the pruning queue, a writer to the serial *)
(* port under the port lock, and, for a source that wants to know where    *)
(* the receiver is, a GGASender that writes to the reader's connection.    *)
(*                                                                         *)
(* The broadcast hands packets over in order (see Bcast); here it does so  *)
(* at once, and only its end is a step.  How long the reader backs off is  *)
(* left open: delay() is random.                                           *)
(***************************************************************************)
EXTENDS PruningQueue

CONSTANTS Alphabet,            \* correction packets: [kind : Kinds, msgID]
          Modes,               \* "plain", "gga" (selectedGGA is not nil)
          Resends,             \* nmeaSendInterval > 0
          maxGGASendTimeouts,
          MaxPackets,          \* bound on the packets, for each mode
          MaxConns             \* bound on the connects, failed ones included

ASSUME ParamsAssumption ==
  /\ Modes \subseteq {"plain", "gga"} /\ Resends \in BOOLEAN
  /\ maxGGASendTimeouts \in Nat /\ MaxConns \in Nat /\ MaxPackets \in [Modes -> Nat]

Conns == 1 .. MaxConns

VARIABLES
  mode,
  iCtx,             \* "live" or "cancelled"
  run,              \* Run: "wait" (pipelineWg), "closing" (bcastWg), "returned"
  bc,               \* the broadcast: "run" or "exited", which closes subCh
  reported,         \* the last state reported to onState
  rd,               \* the reader
  conn,             \* the number of its connection
  net,              \* the connections: "none", "open", "closed"
  ready, done,      \* GGASender's channels, closed or not
  feed,             \* s.selected: "open", "ended" (closed), "nil"
  gs, gConn, connCh, nTimeouts,  \* the sender, its conn (0 for nil), channel and count
  qpc, in, q, next, ch,          \* the queue goroutine, as in Push
  wr, msg, port,    \* the writer, its packet, and who has the port: "free", "writer", "other"
  written, writeErr,
  \* of the past, for the properties only
  cuts,             \* how many packets had come at each reconnect
  uploads,          \* the connections that got a GGA
  stalls, stalled   \* upload timeouts in a row, and the connections given up for them

rdVars == <<rd, conn>>
gsVars == <<ready, done, feed, gs, gConn, nTimeouts, uploads, stalls, stalled>>
qVars == <<qpc, in, q, next, cuts>>
wrVars == <<wr, msg, port, written, writeErr>>
vars == <<mode, iCtx, run, bc, reported, rdVars, net, connCh, gsVars, qVars, ch, wrVars>>

TypeOK ==
  /\ mode \in Modes /\ iCtx \in {"live", "cancelled"}
  /\ run \in {"wait", "closing", "returned"} /\ bc \in {"run", "exited"}
  /\ reported \in {"none", "connecting", "connected", "reconnecting", "failed"}
  /\ rd \in {"waitReady", "connect", "setWriter", "scan", "mark", "backoff", "exited"}
  /\ conn \in 0 .. MaxConns /\ net \in [Conns -> {"none", "open", "closed"}]
  /\ {ready, done} \subseteq BOOLEAN /\ feed \in {"open", "ended", "nil"}
  /\ gs \in {"select", "write", "exited"} /\ gConn \in 0 .. conn
  /\ nTimeouts \in 0 .. maxGGASendTimeouts
  /\ Len(connCh) <= 1 /\ \A i \in 1 .. Len(connCh) : connCh[i] \in 1 .. conn
  /\ qpc \in {"run", "exited"} /\ in \in Seq(Alphabet) /\ next \in 0 .. Len(in)
  /\ Cardinality(q.entries) <= QueueMax /\ \A e \in q.entries : e.n \in 1 .. Len(in)
  /\ Len(ch) <= 1 /\ \A i \in 1 .. Len(ch) : ch[i] \in 1 .. Len(in)
  /\ wr \in {"recv", "lock", "write", "exited"} /\ msg \in 0 .. Len(in)
  /\ port \in {"free", "writer", "other"} /\ writeErr \in BOOLEAN

Init ==
  /\ mode \in Modes
  /\ iCtx = "live" /\ run = "wait" /\ bc = "run"
  /\ reported = IF mode = "gga" THEN "none" ELSE "connecting"
  /\ rd = IF mode = "gga" THEN "waitReady" ELSE "connect"
  /\ conn = 0 /\ net = [c \in Conns |-> "none"]
  /\ ready = FALSE /\ done = FALSE /\ feed = "open"
  /\ gs = IF mode = "gga" THEN "select" ELSE "exited"
  /\ gConn = 0 /\ connCh = <<>> /\ nTimeouts = 0
  /\ qpc = "run" /\ in = <<>> /\ q = emptyQueue /\ next = 0 /\ ch = <<>>
  /\ wr = "recv" /\ msg = 0 /\ port \in {"free", "other"} /\ written = <<>> /\ writeErr = FALSE
  /\ cuts = {} /\ uploads = {} /\ stalls = [c \in Conns |-> 0] /\ stalled = {}

Done == iCtx = "cancelled"

-----------------------------------------------------------------------------
(* The caller, and the other user of the port, which may have it at first *)

Cancel ==
  /\ ~Done /\ iCtx' = "cancelled"
  /\ UNCHANGED <<mode, run, bc, reported, rdVars, net, connCh, gsVars, qVars, ch, wrVars>>

OtherReturns ==
  /\ port = "other" /\ port' = "free"
  /\ UNCHANGED <<mode, iCtx, run, bc, reported, rdVars, net, connCh, gsVars, qVars, ch,
                 wr, msg, written, writeErr>>

-----------------------------------------------------------------------------
(* The reader *)

\* WaitReady: a fix, or the sender is done without one, or cancellation.
waitReady ==
  /\ rd = "waitReady"
  /\ \/ ready /\ rd' = "connect" /\ reported' = "connecting"
     \/ ((done /\ ~ready) \/ Done) /\ rd' = "exited" /\ UNCHANGED reported
  /\ UNCHANGED <<mode, iCtx, run, bc, conn, net, connCh, gsVars, qVars, ch, wrVars>>

connects ==
  /\ rd = "connect" /\ conn < MaxConns
  /\ conn' = conn + 1 /\ net' = [net EXCEPT ![conn + 1] = "open"]
  /\ IF mode = "gga" THEN rd' = "setWriter" /\ UNCHANGED reported
     ELSE rd' = "scan" /\ reported' = "connected"
  /\ UNCHANGED <<mode, iCtx, run, bc, connCh, gsVars, qVars, ch, wrVars>>

\* Variant: gives up without ending the others.
connectFails_Silent ==
  /\ rd = "connect" /\ ~Done /\ conn < MaxConns /\ conn' = conn + 1
  /\ \/ rd' = "exited" /\ reported' = "failed" /\ UNCHANGED iCtx
     \/ rd' = "backoff" /\ reported' = "reconnecting" /\ UNCHANGED iCtx
  /\ UNCHANGED <<mode, run, bc, net, connCh, gsVars, qVars, ch, wrVars>>

\* Connect fails: for good, which cancels everything, or to be tried again.
connectFails ==
  /\ rd = "connect" /\ ~Done /\ conn < MaxConns /\ conn' = conn + 1
  /\ \/ rd' = "exited" /\ reported' = "failed" /\ iCtx' = "cancelled"
     \/ rd' = "backoff" /\ reported' = "reconnecting" /\ UNCHANGED iCtx
  /\ UNCHANGED <<mode, run, bc, net, connCh, gsVars, qVars, ch, wrVars>>

\* Connect and the delay end on cancellation.
readerCancelled ==
  /\ rd \in {"connect", "backoff", "mark"} /\ Done /\ rd' = "exited"
  /\ UNCHANGED <<mode, iCtx, run, bc, reported, conn, net, connCh, gsVars, qVars, ch, wrVars>>

\* Variant: the connection that nobody took stays open.
setWriter_Leak ==
  /\ rd = "setWriter"
  /\ \/ /\ connCh = <<>> /\ connCh' = <<conn>> /\ rd' = "scan" /\ reported' = "connected"
        /\ UNCHANGED net
     \/ /\ Done /\ rd' = "exited" /\ UNCHANGED <<net, connCh, reported>>
  /\ UNCHANGED <<mode, iCtx, run, bc, conn, gsVars, qVars, ch, wrVars>>

\* SetWriter: the connection goes to the sender, or is closed on cancellation.
setWriter ==
  /\ rd = "setWriter"
  /\ \/ /\ connCh = <<>> /\ connCh' = <<conn>> /\ rd' = "scan" /\ reported' = "connected"
        /\ UNCHANGED net
     \/ /\ Done /\ net' = [net EXCEPT ![conn] = "closed"] /\ rd' = "exited"
        /\ UNCHANGED <<connCh, reported>>
  /\ UNCHANGED <<mode, iCtx, run, bc, conn, gsVars, qVars, ch, wrVars>>

\* The goroutine that closes conn when ctx is done, to unblock Scan.
closeOnCancel ==
  /\ rd = "scan" /\ Done /\ net[conn] = "open"
  /\ net' = [net EXCEPT ![conn] = "closed"]
  /\ UNCHANGED <<mode, iCtx, run, bc, reported, rdVars, connCh, gsVars, qVars, ch, wrVars>>

\* next is the head of r when something waits, and r is left without it.
Offer(r) ==
  IF r.entries = {} THEN next' = 0 /\ q' = r ELSE next' = first(r) /\ q' = dequeue(r)

\* A packet goes through the broadcast to the queue.
scanPacket(p) ==
  /\ rd = "scan" /\ net[conn] = "open" /\ bc = "run" /\ qpc = "run"
  /\ Len(in) < MaxPackets[mode]
  /\ in' = Append(in, p)
  /\ LET r == enqueue(q, Len(in) + 1, p)
     IN  IF next = 0 THEN Offer(r) ELSE q' = r /\ UNCHANGED next
  /\ UNCHANGED <<mode, iCtx, run, bc, reported, rdVars, net, connCh, gsVars, qpc, cuts, ch, wrVars>>

\* readLoop ends: the source, the network, the sender or cancellation has closed
\* the connection.  The reader closes it too.
readEnds ==
  /\ rd = "scan" /\ (net[conn] = "closed" \/ conn < MaxConns)
  /\ rd' = "mark" /\ net' = [net EXCEPT ![conn] = "closed"]
  /\ UNCHANGED <<mode, iCtx, run, bc, reported, conn, connCh, gsVars, qVars, ch, wrVars>>

\* Variant: the queue is not told.
markReconnect_NotTold ==
  /\ rd = "mark" /\ bc = "run" /\ qpc = "run"
  /\ cuts' = cuts \cup {Len(in)}
  /\ IF Done THEN rd' = "exited" /\ UNCHANGED reported
     ELSE rd' = "backoff" /\ reported' = "reconnecting"
  /\ UNCHANGED <<mode, iCtx, run, bc, conn, net, connCh, gsVars, qpc, q, in, next, ch, wrVars>>

\* errReconnect goes through the broadcast like a packet.
markReconnect ==
  /\ rd = "mark" /\ bc = "run" /\ qpc = "run"
  /\ q' = reconnect(q) /\ cuts' = cuts \cup {Len(in)}
  /\ IF Done THEN rd' = "exited" /\ UNCHANGED reported
     ELSE rd' = "backoff" /\ reported' = "reconnecting"
  /\ UNCHANGED <<mode, iCtx, run, bc, conn, net, connCh, gsVars, qpc, in, next, ch, wrVars>>

backoffEnds ==
  /\ rd = "backoff" /\ rd' = "connect" /\ reported' = "connecting"
  /\ UNCHANGED <<mode, iCtx, run, bc, conn, net, connCh, gsVars, qVars, ch, wrVars>>

-----------------------------------------------------------------------------
(* GGASender *)

\* A usable fix; those after the first only replace it.
fix ==
  /\ gs = "select" /\ feed = "open" /\ ~ready /\ ready' = TRUE
  /\ UNCHANGED <<mode, iCtx, run, bc, reported, rdVars, net, connCh, done, feed, gs, gConn, nTimeouts,
                 uploads, stalls, stalled, qVars, ch, wrVars>>

FeedEnds ==
  /\ mode = "gga" /\ feed = "open" /\ feed' = "ended"
  /\ UNCHANGED <<mode, iCtx, run, bc, reported, rdVars, net, connCh, ready, done, gs, gConn, nTimeouts,
                 uploads, stalls, stalled, qVars, ch, wrVars>>

\* The feed is closed: without a fix there never will be one.
seeFeedEnd ==
  /\ gs = "select" /\ feed = "ended" /\ feed' = "nil"
  /\ IF ready THEN UNCHANGED <<gs, done>> ELSE gs' = "exited" /\ done' = TRUE
  /\ UNCHANGED <<mode, iCtx, run, bc, reported, rdVars, net, connCh, ready, gConn, nTimeouts,
                 uploads, stalls, stalled, qVars, ch, wrVars>>

\* Variant: the count goes on with the new connection.
takeConn_KeepCount ==
  /\ gs = "select" /\ connCh # <<>>
  /\ gConn' = connCh[1] /\ connCh' = <<>>
  /\ gs' = IF ready THEN "write" ELSE "select"
  /\ UNCHANGED <<mode, iCtx, run, bc, reported, rdVars, net, ready, done, feed, nTimeouts, uploads,
                 stalls, stalled, qVars, ch, wrVars>>

takeConn ==
  /\ gs = "select" /\ connCh # <<>>
  /\ gConn' = connCh[1] /\ connCh' = <<>> /\ nTimeouts' = 0
  /\ gs' = IF ready THEN "write" ELSE "select"
  /\ UNCHANGED <<mode, iCtx, run, bc, reported, rdVars, net, ready, done, feed, uploads, stalls,
                 stalled, qVars, ch, wrVars>>

tick ==
  /\ gs = "select" /\ Resends /\ gConn # 0 /\ ready /\ gs' = "write"
  /\ UNCHANGED <<mode, iCtx, run, bc, reported, rdVars, net, connCh, ready, done, feed, gConn, nTimeouts,
                 uploads, stalls, stalled, qVars, ch, wrVars>>

senderCancelled ==
  /\ gs = "select" /\ Done /\ gs' = "exited" /\ done' = TRUE
  /\ UNCHANGED <<mode, iCtx, run, bc, reported, rdVars, net, connCh, ready, feed, gConn, nTimeouts,
                 uploads, stalls, stalled, qVars, ch, wrVars>>

uploadOK ==
  /\ gs = "write" /\ net[gConn] = "open"
  /\ gs' = "select" /\ nTimeouts' = 0
  /\ uploads' = uploads \cup {gConn} /\ stalls' = [stalls EXCEPT ![gConn] = 0]
  /\ UNCHANGED <<mode, iCtx, run, bc, reported, rdVars, net, connCh, ready, done, feed, gConn, stalled,
                 qVars, ch, wrVars>>

DropConn == net' = [net EXCEPT ![gConn] = "closed"] /\ gConn' = 0 /\ nTimeouts' = 0

\* A closed connection, a network error or a partial write.
uploadFails ==
  /\ gs = "write" /\ (net[gConn] = "closed" \/ conn < MaxConns)
  /\ gs' = "select" /\ DropConn
  /\ UNCHANGED <<mode, iCtx, run, bc, reported, rdVars, connCh, ready, done, feed, uploads, stalls,
                 stalled, qVars, ch, wrVars>>

\* Variant: forgets the connection without closing it.
uploadTimesOut_Forget ==
  /\ gs = "write" /\ net[gConn] = "open" /\ gs' = "select"
  /\ stalls' = [stalls EXCEPT ![gConn] = @ + 1]
  /\ IF ~Done /\ nTimeouts < maxGGASendTimeouts
     THEN nTimeouts' = nTimeouts + 1 /\ UNCHANGED <<net, gConn, stalled>>
     ELSE /\ gConn' = 0 /\ nTimeouts' = 0 /\ UNCHANGED net
          /\ stalled' = IF Done THEN stalled ELSE stalled \cup {gConn}
  /\ UNCHANGED <<mode, iCtx, run, bc, reported, rdVars, connCh, ready, done, feed, uploads,
                 qVars, ch, wrVars>>

\* The deadline passes with nothing written: tolerated maxGGASendTimeouts times in a row.
uploadTimesOut ==
  /\ gs = "write" /\ net[gConn] = "open" /\ gs' = "select"
  /\ stalls' = [stalls EXCEPT ![gConn] = @ + 1]
  /\ IF ~Done /\ nTimeouts < maxGGASendTimeouts
     THEN nTimeouts' = nTimeouts + 1 /\ UNCHANGED <<net, gConn, stalled>>
     ELSE DropConn /\ stalled' = IF Done THEN stalled ELSE stalled \cup {gConn}
  /\ UNCHANGED <<mode, iCtx, run, bc, reported, rdVars, connCh, ready, done, feed, uploads,
                 qVars, ch, wrVars>>

-----------------------------------------------------------------------------
(* The broadcast, the queue and the writer *)

\* The broadcast ends with pktCh, with the context, or when Run closes it.
bcastExit ==
  /\ bc = "run" /\ (Done \/ rd = "exited" \/ run = "closing") /\ bc' = "exited"
  /\ UNCHANGED <<mode, iCtx, run, reported, rdVars, net, connCh, gsVars, qVars, ch, wrVars>>

queueSend ==
  /\ qpc = "run" /\ next # 0 /\ ch = <<>>
  /\ ch' = <<next>> /\ Offer(q)
  /\ UNCHANGED <<mode, iCtx, run, bc, reported, rdVars, net, connCh, gsVars, qpc, in, cuts, wrVars>>

\* subCh is closed; so is qCh now.
queueExit ==
  /\ qpc = "run" /\ bc = "exited" /\ qpc' = "exited"
  /\ UNCHANGED <<mode, iCtx, run, bc, reported, rdVars, net, connCh, gsVars, q, in, next, cuts, ch, wrVars>>

take ==
  /\ wr = "recv" /\ ch # <<>>
  /\ msg' = ch[1] /\ ch' = <<>> /\ wr' = "lock"
  /\ UNCHANGED <<mode, iCtx, run, bc, reported, rdVars, net, connCh, gsVars, qVars, port, written, writeErr>>

lockPort ==
  /\ wr = "lock" /\ port = "free" /\ port' = "writer" /\ wr' = "write"
  /\ UNCHANGED <<mode, iCtx, run, bc, reported, rdVars, net, connCh, gsVars, qVars, ch, msg, written, writeErr>>

writePacket ==
  /\ wr = "write" /\ port' = "free" /\ wr' = "recv" /\ written' = Append(written, msg) /\ msg' = 0
  /\ UNCHANGED <<mode, iCtx, run, bc, reported, rdVars, net, connCh, gsVars, qVars, ch, writeErr>>

\* The device is gone: not a failure if it is so during shutdown.
writeFails ==
  /\ wr = "write" /\ port' = "free" /\ wr' = "exited" /\ msg' = 0
  /\ IF Done THEN UNCHANGED <<iCtx, writeErr>> ELSE iCtx' = "cancelled" /\ writeErr' = TRUE
  /\ UNCHANGED <<mode, run, bc, reported, rdVars, net, connCh, gsVars, qVars, ch, written>>

writerExit ==
  /\ (wr = "lock" /\ Done) \/ (wr = "recv" /\ qpc = "exited" /\ ch = <<>>)
  /\ wr' = "exited" /\ msg' = 0
  /\ UNCHANGED <<mode, iCtx, run, bc, reported, rdVars, net, connCh, gsVars, qVars, ch, port, written, writeErr>>

-----------------------------------------------------------------------------
(* Run *)

runClose ==
  /\ run = "wait" /\ {rd, gs, qpc, wr} = {"exited"} /\ run' = "closing"
  /\ UNCHANGED <<mode, iCtx, bc, reported, rdVars, net, connCh, gsVars, qVars, ch, wrVars>>

runReturn ==
  /\ run = "closing" /\ bc = "exited" /\ run' = "returned"
  /\ reported' = IF writeErr THEN "failed" ELSE reported
  /\ UNCHANGED <<mode, iCtx, bc, rdVars, net, connCh, gsVars, qVars, ch, wrVars>>

SenderStep ==
  \/ seeFeedEnd \/ takeConn \/ tick \/ senderCancelled \/ uploadOK
  \/ uploadFails /\ net[gConn] = "closed"

PipelineStep ==
  \/ OtherReturns \/ waitReady \/ connects \/ readerCancelled \/ setWriter \/ closeOnCancel
  \/ readEnds /\ net[conn] = "closed"
  \/ markReconnect \/ backoffEnds
  \/ bcastExit \/ queueSend \/ queueExit \/ take \/ lockPort \/ writePacket \/ writerExit
  \/ runClose \/ runReturn

Next ==
  \/ Cancel \/ connectFails \/ readEnds \/ fix \/ FeedEnds \/ uploadFails \/ uploadTimesOut \/ writeFails
  \/ \E p \in Alphabet : scanPacket(p)
  \/ SenderStep \/ PipelineStep

\* The sender, which a ticker can keep busy for ever, and the others go on; delays
\* end.  Sources, fixes and errors come or do not come.
Spec == Init /\ [][Next]_vars /\ WF_vars(SenderStep) /\ WF_vars(PipelineStep)

-----------------------------------------------------------------------------
(* Properties *)

Entries == {e.n : e \in q.entries}
Waiting == Entries \cup {ch[i] : i \in 1 .. Len(ch)} \cup ({next, msg} \ {0})

\* What separates two MSM packets, said of the whole history: an "end" packet or a
\* reconnect in between.
SameEpoch(i, j) ==
  /\ IsMSM(in[i]) /\ IsMSM(in[j])
  /\ \A k \in i .. j - 1 : in[k].kind # "end"
  /\ \A c \in cuts : ~(i <= c /\ c < j)

Supersedes(j, i) ==
  /\ i < j /\ in[i].kind # "plain" /\ in[j].kind # "plain" /\ in[i].msgID = in[j].msgID
  /\ ~SameEpoch(i, j)

\* The receiver gets corrections in the order of the source, each at most once, and
\* misses only what a newer packet of another epoch replaces or what QueueMax newer
\* ones have pushed out, whatever happens to the connection meanwhile.
InOrderAndKept ==
  /\ \A i, j \in 1 .. Len(written) : i < j => written[i] < written[j]
  /\ ~Done /\ qpc = "run" =>
       \A i \in 1 .. Len(in) \ (Waiting \cup {written[k] : k \in 1 .. Len(written)}) :
         (\E j \in 1 .. Len(in) : Supersedes(j, i)) \/ Len(in) - i >= QueueMax

\* An MSM epoch that the network cut short is not continued by the packets of the
\* next connection: the old ones make way for the new.
NoTornEpoch == \A i, j \in Entries : ~Supersedes(j, i)

\* The state is of its type; what waits and what was written is as it should be.
CorrectionsRight == TypeOK /\ InOrderAndKept /\ NoTornEpoch

\* "No more than maxGGASendTimeouts consecutive timeouts": a connection is given up for a stalled
\* upload neither earlier nor later, and does not inherit the stalls of the last one.
StallsTolerated ==
  \A c \in Conns : /\ stalls[c] <= maxGGASendTimeouts + 1
                   /\ c \in stalled => stalls[c] = maxGGASendTimeouts + 1

\* Run leaves nothing behind: every connection is closed, the one in connCh that the
\* sender never took too, the broadcast has ended and the port is back.
NothingLeft ==
  run = "returned" => /\ \A c \in Conns : net[c] # "open"
                      /\ bc = "exited" /\ port # "writer" /\ gs = "exited"

\* Failed "is a terminal state", although the reader and Run both report states.
FailedIsTerminal == [][reported = "failed" => reported' = "failed"]_reported

\* Run returns when it is cancelled, the source rejects it for good, the serial port
\* fails, or the feed of fixes ends before the first.
Returns == <>[](Done \/ reported = "failed" \/ done => run = "returned")

\* What was queued is written even if the source never comes back.
CaughtUp == <>[](run = "returned" \/ Waiting = {})

\* Run neither hangs nor leaves packets behind, and what it reports in the end is true.
Finishes == FailedIsTerminal /\ Returns /\ CaughtUp

\* Every connection to a source that wants a position gets one, or is given up: an
\* upload that times out is tried again.
PositionSent == <>[](mode = "gga" => \A c \in Conns : net[c] = "open" => c \in uploads)
=============================================================================
