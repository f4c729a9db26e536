-------------------------------- MODULE Proxy --------------------------------
(***************************************************************************)
(* The serial proxy of time/internal/proxy: every client connection gets   *)
(* the receiver's packets through a queue that is pruned by age, and may   *)
(* write to the receiver under a lock on the port that it shares with the  *)
(* other connections and with the correction stream.                       *)
(*                                                                         *)
(* A connection has three goroutines, connReadWorker (rd), connWriteWorker *)
(* (wr) and connQueue (qpc); each receive, send and call is a step.  The   *)
(* broadcast delivers every packet in order, as Bcast shows.               *)
(***************************************************************************)
EXTENDS Integers, Sequences, FiniteSets

CONSTANTS Conns,       \* connections
          Tagged,      \* those of a service that forwards one protocol
          ReadOnly,    \* those of a service that is read-only
          MaxAge,      \* maxPacketAge
          MaxTime,     \* bound on the clock
          MaxPackets,  \* bound on the packets
          MaxWrites    \* bound on what a client writes

Free == "free"
Stream == "stream"

ASSUME ParamsAssumption ==
  /\ Tagged \subseteq Conns /\ ReadOnly \subseteq Conns /\ MaxAge \in Nat /\ MaxTime \in Nat
  /\ MaxPackets \in Nat /\ MaxWrites \in Nat
  /\ Free \notin Conns /\ Stream \notin Conns

VARIABLES
  now,     \* time
  pkts,    \* the packets of the receiver, in the order of the broadcast
  ctx,     \* "live", "ended" when the broadcast has closed its channels, "cancelled"
  lock,    \* where the OutPort is: free, or with whom
  conn,    \* the connections, see ConnType
  stream   \* the writer of the correction stream, and its one packet

vars == <<now, pkts, ctx, lock, conn, stream>>

\* A packet: when its first byte was read, and whether it is of the tag that the
\* tagged services forward.
PacketType == [tRead : 0 .. MaxTime, tag : {"match", "other"}]
ConnType ==
  [net : {"none", "open", "closed"}, client : {"up", "gone"},
   rd : {"none", "read", "wait", "write", "exited"}, port : {"held", "nil"},
   wr : {"none", "recv", "write", "unwind", "exited"},
   qpc : {"none", "run", "exited"}, qCtx : {"live", "cancelled"},
   from : 0 .. MaxPackets, ch : 0 .. MaxPackets, \* packets before Subscribe; received so far
   q : Seq(1 .. MaxPackets), msg : 0 .. MaxPackets,
   sent : Seq(1 .. MaxPackets), nWrites : 0 .. MaxWrites]

TypeOK ==
  /\ now \in 0 .. MaxTime
  /\ pkts \in Seq(PacketType) /\ Len(pkts) <= MaxPackets
  /\ ctx \in {"live", "ended", "cancelled"}
  /\ lock \in Conns \cup {Free, Stream}
  /\ conn \in [Conns -> ConnType]
  /\ stream \in {"idle", "wait", "held", "done"}

Init ==
  /\ now = 0 /\ pkts = <<>> /\ ctx = "live" /\ lock = Free /\ stream = "idle"
  /\ conn = [c \in Conns |->
       [net |-> "none", client |-> "up", rd |-> "none", port |-> "nil", wr |-> "none",
        qpc |-> "none", qCtx |-> "live", from |-> 0, ch |-> 0, q |-> <<>>, msg |-> 0, sent |-> <<>>,
        nWrites |-> 0]]

-----------------------------------------------------------------------------
(* The receiver, the clients, and the other user of the port. *)

Tick == now < MaxTime /\ now' = now + 1 /\ UNCHANGED <<pkts, ctx, lock, conn, stream>>

\* A packet that began at time t, not before the one that precedes it, is complete.
Publish(t, tag) ==
  /\ ctx = "live" /\ Len(pkts) < MaxPackets
  /\ \A i \in 1 .. Len(pkts) : pkts[i].tRead <= t
  /\ pkts' = Append(pkts, [tRead |-> t, tag |-> tag])
  /\ UNCHANGED <<now, ctx, lock, conn, stream>>

\* The receiver's packets end, as they do when its device is gone; the daemon stops.
Ended == ctx = "live" /\ ctx' = "ended" /\ UNCHANGED <<now, pkts, lock, conn, stream>>
Cancel == ctx # "cancelled" /\ ctx' = "cancelled" /\ UNCHANGED <<now, pkts, lock, conn, stream>>

ClientGone(c) ==
  /\ conn[c].net = "open" /\ conn[c].client = "up"
  /\ conn' = [conn EXCEPT ![c].client = "gone"]
  /\ UNCHANGED <<now, pkts, ctx, lock, stream>>

\* The writer of the correction stream takes the port for one packet.
StreamPacket == stream = "idle" /\ stream' = "wait" /\ UNCHANGED <<now, pkts, ctx, lock, conn>>
StreamWrite ==
  /\ \/ stream = "wait" /\ lock = Free /\ lock' = Stream /\ stream' = "held"
     \/ stream = "held" /\ lock' = Free /\ stream' = "done"
     \/ stream = "wait" /\ ctx = "cancelled" /\ stream' = "done" /\ UNCHANGED lock
  /\ UNCHANGED <<now, pkts, ctx, conn>>

\* handleConn: a client connects; the packets of the past are not for it.
handleConn(c) ==
  /\ conn[c].net = "none" /\ ctx # "cancelled"
  /\ conn' = [conn EXCEPT ![c].net = "open", ![c].wr = "recv", ![c].qpc = "run",
                          ![c].from = Len(pkts), ![c].ch = Len(pkts),
                          ![c].rd = IF c \in ReadOnly THEN "none" ELSE "read"]
  /\ UNCHANGED <<now, pkts, ctx, lock, stream>>

-----------------------------------------------------------------------------
(* connQueue *)

Forwards(c, p) == c \in Tagged => pkts[p].tag = "match"
Old(p) == now - pkts[p].tRead > MaxAge

\* Variant: the newest packet is not spared.
Pruned_All(s) == SelectSeq(s, LAMBDA p : ~Old(p))

\* Drop old packets from the front, except the newest.
Pruned(s) ==
  LET drop == {i \in 1 .. Len(s) - 1 : \A j \in 1 .. i : Old(s[j])}
  IN  SubSeq(s, Cardinality(drop) + 1, Len(s))

queueReceive(c) ==
  /\ conn[c].qpc = "run" /\ conn[c].ch < Len(pkts)
  /\ LET p == conn[c].ch + 1
     IN  conn' = [conn EXCEPT ![c].ch = p,
                              ![c].q = Pruned(IF Forwards(c, p) THEN Append(@, p) ELSE @)]
  /\ UNCHANGED <<now, pkts, ctx, lock, stream>>

\* The head of the queue goes to the writer, which is waiting for it.
queueSend(c) ==
  /\ conn[c].qpc = "run" /\ conn[c].q # <<>> /\ conn[c].wr = "recv"
  /\ conn' = [conn EXCEPT ![c].q = Tail(@), ![c].msg = Head(conn[c].q), ![c].wr = "write"]
  /\ UNCHANGED <<now, pkts, ctx, lock, stream>>

ChClosed(c) == ctx = "ended" /\ conn[c].ch = Len(pkts)

queueExit(c) ==
  /\ conn[c].qpc = "run" /\ (ctx = "cancelled" \/ conn[c].qCtx = "cancelled" \/ ChClosed(c))
  /\ conn' = [conn EXCEPT ![c].qpc = "exited"]
  /\ UNCHANGED <<now, pkts, ctx, lock, stream>>

-----------------------------------------------------------------------------
(* connWriteWorker *)

\* The client takes the packet; a client that does not read blocks the Write.
connWrite(c) ==
  /\ conn[c].wr = "write" /\ conn[c].net = "open" /\ conn[c].client = "up"
  /\ conn' = [conn EXCEPT ![c].wr = "recv", ![c].sent = Append(@, conn[c].msg), ![c].msg = 0]
  /\ UNCHANGED <<now, pkts, ctx, lock, stream>>

\* A Write that fails, or qCh closed: the deferred calls begin with qCancel.
connWriteEnds(c) ==
  /\ \/ conn[c].wr = "write" /\ (conn[c].net = "closed" \/ conn[c].client = "gone")
     \/ conn[c].wr = "recv" /\ conn[c].qpc = "exited"
  /\ conn' = [conn EXCEPT ![c].wr = "unwind", ![c].qCtx = "cancelled"]
  /\ UNCHANGED <<now, pkts, ctx, lock, stream>>

\* wg.Wait, Unsubscribe, conn.Close
connWriteExit(c) ==
  /\ conn[c].wr = "unwind" /\ conn[c].qpc = "exited"
  /\ conn' = [conn EXCEPT ![c].wr = "exited", ![c].net = "closed", ![c].msg = 0]
  /\ UNCHANGED <<now, pkts, ctx, lock, stream>>

\* The goroutine that closes conn on cancellation, as long as the worker is there.
closeOnCancel(c) ==
  /\ conn[c].wr \in {"recv", "write", "unwind"} /\ ctx = "cancelled" /\ conn[c].net = "open"
  /\ conn' = [conn EXCEPT ![c].net = "closed"]
  /\ UNCHANGED <<now, pkts, ctx, lock, stream>>

-----------------------------------------------------------------------------
(* connReadWorker *)

\* Read returns data: go for the port unless it is held already.
readData(c) ==
  /\ conn[c].rd = "read" /\ conn[c].net = "open" /\ conn[c].client = "up"
  /\ conn[c].nWrites < MaxWrites
  /\ conn' = [conn EXCEPT ![c].nWrites = @ + 1,
                          ![c].rd = IF conn[c].port = "held" THEN "write" ELSE "wait"]
  /\ UNCHANGED <<now, pkts, ctx, lock, stream>>

\* Variant: no deadline after the last write.
readDeadline_Once(c) ==
  /\ conn[c].rd = "read" /\ conn[c].net = "open" /\ conn[c].port = "held"
  /\ conn[c].nWrites < MaxWrites
  /\ lock' = Free
  /\ conn' = [conn EXCEPT ![c].port = "nil"]
  /\ UNCHANGED <<now, pkts, ctx, stream>>

\* The deadline, which is set only while the port is held.
readDeadline(c) ==
  /\ conn[c].rd = "read" /\ conn[c].net = "open" /\ conn[c].port = "held"
  /\ lock' = Free
  /\ conn' = [conn EXCEPT ![c].port = "nil"]
  /\ UNCHANGED <<now, pkts, ctx, stream>>

\* Variant: hands the port back only after the client has hung up.
exitRead_KeepPort(c) ==
  /\ conn' = [conn EXCEPT ![c].rd = "exited", ![c].net = "closed", ![c].port = "nil"]
  /\ lock' = IF conn[c].port = "held" /\ conn[c].client = "gone" THEN Free ELSE lock
  /\ UNCHANGED <<now, pkts, ctx, stream>>

\* The deferred calls: the port goes back, the connection is closed.
exitRead(c) ==
  /\ conn' = [conn EXCEPT ![c].rd = "exited", ![c].net = "closed", ![c].port = "nil"]
  /\ lock' = IF conn[c].port = "held" THEN Free ELSE lock
  /\ UNCHANGED <<now, pkts, ctx, stream>>

\* End of file, a closed connection, or an error of it.
readEnds(c) ==
  /\ conn[c].rd = "read" /\ (conn[c].net = "closed" \/ conn[c].client = "gone")
  /\ exitRead(c)

acquire(c) ==
  /\ conn[c].rd = "wait" /\ lock = Free
  /\ lock' = c
  /\ conn' = [conn EXCEPT ![c].port = "held", ![c].rd = "write"]
  /\ UNCHANGED <<now, pkts, ctx, stream>>

acquireCancelled(c) == conn[c].rd = "wait" /\ ctx = "cancelled" /\ exitRead(c)

\* port.Write and Drain: back to the top of the loop, or an error ends the worker.
portWrite(c) ==
  /\ conn[c].rd = "write"
  /\ \/ /\ conn' = [conn EXCEPT ![c].rd = "read"]
        /\ UNCHANGED <<now, pkts, ctx, lock, stream>>
     \/ exitRead(c)

-----------------------------------------------------------------------------
ReadStep(c) == readDeadline(c) \/ readEnds(c) \/ acquire(c) \/ acquireCancelled(c) \/ portWrite(c)
WriteStep(c) == connWriteEnds(c) \/ connWriteExit(c) \/ closeOnCancel(c)
QueueStep(c) == queueReceive(c) \/ queueSend(c) \/ queueExit(c)

\* What goes on by itself.  A client need not read, write or hang up.
Progress == StreamWrite \/ \E c \in Conns : ReadStep(c) \/ WriteStep(c) \/ QueueStep(c)

Next ==
  \/ Tick \/ Ended \/ Cancel \/ StreamPacket
  \/ \E t \in 0 .. now, tag \in {"match", "other"} : Publish(t, tag)
  \/ \E c \in Conns : handleConn(c) \/ ClientGone(c) \/ readData(c) \/ connWrite(c)
  \/ Progress

\* Goroutines go on and deadlines pass.  What clients do is bounded, so that nobody
\* can be overtaken for ever: this is all the fairness it takes.
Fairness == WF_vars(Progress)

Spec == Init /\ [][Next]_vars /\ Fairness

-----------------------------------------------------------------------------
(* Properties. *)

Entries(s) == {s[i] : i \in 1 .. Len(s)}
Held(c) == conn[c].sent \o (IF conn[c].msg = 0 THEN <<>> ELSE <<conn[c].msg>>) \o conn[c].q
ToForward(c) == {p \in conn[c].from + 1 .. conn[c].ch : Forwards(c, p)}

\* A client gets packets in their order, at most once, and of its protocol only,
\* and connQueue drops "any packet older than maxPacketAge, except the newest":
\* what is missing is too old and has something newer behind it.
DropsOnlyOld ==
  \A c \in Conns :
    LET h == Held(c)
    IN  /\ Entries(h) \subseteq ToForward(c)
        /\ \A i, j \in 1 .. Len(h) : i < j => h[i] < h[j]
        /\ conn[c].wr \in {"recv", "write"} =>
             \A p \in ToForward(c) \ Entries(h) : Old(p) /\ \E r \in Entries(h) : r > p

\* The port is with nobody or with one worker that will hand it back: one that has
\* ended, by an error in the middle of a write too, has not kept it, and nobody
\* has handed it back twice.
PortConserved ==
  \A c \in Conns :
    /\ lock = c <=> conn[c].port = "held"
    /\ lock = c => conn[c].rd \in {"read", "write"}
    /\ lock = Stream <=> stream = "held"

\* A client, or the correction stream, that waits for the port gets it, or ends: whoever holds
\* it loses it when it stops writing for writeLockTimeout, or is gone.
WaiterServed ==
  /\ \A c \in Conns : []<>(conn[c].rd # "wait")
  /\ []<>(stream # "wait")

\* A client that hangs up lets go of everything: its reader ends and frees the
\* port, and its writer, blocked in a Write or not, ends with the next packet.
DeadClientReleased ==
  <>[](\A c \in Conns :
         /\ conn[c].client = "gone" /\ c \notin ReadOnly => conn[c].rd = "exited"
         /\ conn[c].net = "closed" /\ (conn[c].q # <<>> \/ conn[c].msg # 0)
              => conn[c].wr = "exited")

\* When the daemon stops, every goroutine of every connection ends, whatever its
\* client does, and the port is free again.
Unwinds ==
  <>[](ctx = "cancelled" => /\ lock = Free
                            /\ \A c \in Conns : /\ conn[c].rd \in {"none", "exited"}
                                                 /\ conn[c].wr \in {"none", "exited"}
                                                 /\ conn[c].qpc \in {"none", "exited"})

\* Nobody waits for ever for the port, for a client or for the end.
NobodyStuck == WaiterServed /\ DeadClientReleased /\ Unwinds

\* handleConn: "Both workers close conn when they exit, so that when one worker
\* exits, the other returns too".
OtherReturns == \A c \in Conns : conn[c].rd = "exited" ~> conn[c].wr = "exited"
=============================================================================
