---------------------------- MODULE ProxyProofs ----------------------------
(***************************************************************************)
(* The port is conserved, and clients lose only old packets, for every     *)
(* number of connections, packets and writes, and every age limit.         *)
(***************************************************************************)
EXTENDS Proxy, FiniteSetTheorems, SequenceTheorems, WellFoundedInduction, TLAPS

\* What PortConserved needs of the shape of the state, and what the type of a
\* connection needs of the rest of it.
Shape ==
  /\ conn \in [Conns -> ConnType]
  /\ pkts \in Seq(PacketType) /\ Len(pkts) <= MaxPackets
  /\ \A c \in Conns : conn[c].wr = "write" => conn[c].msg # 0
  /\ \A c \in Conns : conn[c].ch <= Len(pkts)

Scalars ==
  /\ now \in 0 .. MaxTime /\ ctx \in {"live", "ended", "cancelled"}
  /\ lock \in Conns \cup {Free, Stream} /\ stream \in {"idle", "wait", "held", "done"}

\* A client that has not connected yet has no reader.
Fresh == \A c \in Conns : conn[c].net = "none" => conn[c].rd = "none"

IInv == Shape /\ Scalars /\ Fresh /\ PortConserved

LEMMA InitIInv == Init => IInv
  <1> SUFFICES ASSUME Init PROVE IInv OBVIOUS
  <1>1. Shape BY ParamsAssumption DEF Init, Shape, ConnType, PacketType
  <1>2. Scalars BY ParamsAssumption DEF Init, Scalars
  <1>3. PortConserved BY ParamsAssumption DEF Init, PortConserved, Free, Stream
  <1>4. Fresh BY DEF Init, Fresh
  <1> QED BY <1>1, <1>2, <1>3, <1>4 DEF IInv

\* What connQueue leaves in the queue comes from the queue.
LEMMA PrunedType ==
  ASSUME NEW S, NEW s \in Seq(S)
  PROVE  Pruned(s) \in Seq(S)
  <1> DEFINE drop == {i \in 1 .. Len(s) - 1 : \A j \in 1 .. i : Old(s[j])}
  <1>1. Len(s) \in Nat OBVIOUS
  <1>2. IsFiniteSet(1 .. Len(s) - 1) BY <1>1, FS_Interval
  <1>3. Cardinality(drop) \in Nat
    <2>1. drop \in SUBSET (1 .. Len(s) - 1) OBVIOUS
    <2>2. IsFiniteSet(drop) BY ONLY <1>2, <2>1, FS_Subset
    <2> QED BY ONLY <2>2, FS_CardinalityType
  <1> HIDE DEF drop
  <1>4. \A i \in Cardinality(drop) + 1 .. Len(s) : s[i] \in S BY <1>1, <1>3
  <1>5. SubSeq(s, Cardinality(drop) + 1, Len(s)) \in Seq(S) BY <1>1, <1>3, <1>4, SubSeqProperties
  <1> QED BY <1>5 DEF Pruned, drop

-----------------------------------------------------------------------------
(* The shape: a step of a connection gives it a new record of the type. *)

LEMMA ConnChange ==
  ASSUME Shape, NEW c \in Conns, NEW r \in ConnType, conn' = [conn EXCEPT ![c] = r],
         r.wr = "write" => r.msg # 0, r.ch <= Len(pkts), UNCHANGED pkts
  PROVE  Shape'
  BY DEF Shape

LEMMA NewPacket ==
  ASSUME Shape, Scalars, NEW t \in 0 .. now, NEW tag \in {"match", "other"}, Publish(t, tag)
  PROVE  Shape'
  <1> DEFINE p == [tRead |-> t, tag |-> tag]
  <1>1. p \in PacketType BY ParamsAssumption DEF Scalars, PacketType
  <1>2. pkts \in Seq(PacketType) BY DEF Shape
  <1> HIDE DEF p
  <1>3. Append(pkts, p) \in Seq(PacketType) /\ Len(Append(pkts, p)) = Len(pkts) + 1
    BY <1>1, <1>2
  <1>4. pkts' = Append(pkts, p) /\ UNCHANGED conn /\ Len(pkts) < MaxPackets BY DEF Publish, p
  <1>5. \A c \in Conns : conn[c].ch \in Nat BY ParamsAssumption DEF Shape, ConnType
  <1> QED BY <1>1, <1>2, <1>3, <1>4, <1>5, ParamsAssumption DEF Shape

\* What an action of a connection does to the connections.
LEMMA ClientShape ==
  ASSUME Shape, NEW c \in Conns, handleConn(c) \/ ClientGone(c) \/ readData(c) \/ connWrite(c)
  PROVE  Shape'
  <1> USE ParamsAssumption
  <1>0. conn[c] \in ConnType /\ pkts \in Seq(PacketType) /\ Len(pkts) \in 0 .. MaxPackets BY DEF Shape
  <1>1. CASE handleConn(c)
    <2> DEFINE r == [conn[c] EXCEPT !.net = "open", !.wr = "recv", !.qpc = "run",
                        !.from = Len(pkts), !.ch = Len(pkts),
                        !.rd = IF c \in ReadOnly THEN "none" ELSE "read"]
    <2>1. conn' = [conn EXCEPT ![c] = r] /\ UNCHANGED pkts BY <1>1 DEF handleConn
    <2>2. r \in ConnType /\ r.wr = "recv" /\ r.ch = Len(pkts) BY ONLY ZenonT(30), <1>0 DEF ConnType, r
    <2> HIDE DEF r
    <2>3. r.ch <= Len(pkts) BY <1>0, <2>2
    <2> QED BY <2>1, <2>2, <2>3, ConnChange
  <1>2. CASE ClientGone(c)
    <2> DEFINE r == [conn[c] EXCEPT !.client = "gone"]
    <2>1. conn' = [conn EXCEPT ![c] = r] /\ UNCHANGED pkts BY <1>2 DEF ClientGone
    <2>2. r \in ConnType /\ r.wr = conn[c].wr /\ r.msg = conn[c].msg /\ r.ch = conn[c].ch
      BY <1>0 DEF ConnType
    <2> QED BY <2>1, <2>2, ConnChange DEF Shape
  <1>3. CASE readData(c)
    <2> DEFINE r == [conn[c] EXCEPT !.nWrites = @ + 1,
                        !.rd = IF conn[c].port = "held" THEN "write" ELSE "wait"]
    <2>1. conn' = [conn EXCEPT ![c] = r] /\ UNCHANGED pkts BY <1>3 DEF readData
    <2>3. conn[c].nWrites + 1 \in 0 .. MaxWrites BY <1>0, <1>3 DEF ConnType, readData
    <2>4. (IF conn[c].port = "held" THEN "write" ELSE "wait") \in {"write", "wait"} OBVIOUS
    <2>2. r \in ConnType /\ r.wr = conn[c].wr /\ r.msg = conn[c].msg /\ r.ch = conn[c].ch
      BY <1>0, <2>3, <2>4 DEF ConnType
    <2> QED BY <2>1, <2>2, ConnChange DEF Shape
  <1>4. CASE connWrite(c)
    <2> DEFINE r == [conn[c] EXCEPT !.wr = "recv", !.sent = Append(@, conn[c].msg), !.msg = 0]
    <2>1. conn' = [conn EXCEPT ![c] = r] /\ UNCHANGED pkts BY <1>4 DEF connWrite
    <2>2. conn[c].msg \in 1 .. MaxPackets BY <1>0, <1>4 DEF Shape, connWrite, ConnType
    <2>4. conn[c].sent \in Seq(1 .. MaxPackets) BY <1>0 DEF ConnType
    <2>5. Append(conn[c].sent, conn[c].msg) \in Seq(1 .. MaxPackets) BY <2>2, <2>4
    <2>6. 0 \in 0 .. MaxPackets OBVIOUS
    <2>3. r \in ConnType /\ r.wr = "recv" /\ r.ch = conn[c].ch BY <1>0, <2>5, <2>6 DEF ConnType
    <2> QED BY <2>1, <2>3, ConnChange DEF Shape
  <1> QED BY <1>1, <1>2, <1>3, <1>4

LEMMA QueueShape ==
  ASSUME Shape, NEW c \in Conns, QueueStep(c)
  PROVE  Shape'
  <1> USE ParamsAssumption
  <1>0. conn[c] \in ConnType /\ pkts \in Seq(PacketType) /\ Len(pkts) \in 0 .. MaxPackets BY DEF Shape
  <1>1. CASE queueReceive(c)
    <2> DEFINE p == conn[c].ch + 1
               q1 == IF Forwards(c, p) THEN Append(conn[c].q, p) ELSE conn[c].q
               r == [conn[c] EXCEPT !.ch = p, !.q = Pruned(q1)]
    <2>1. conn' = [conn EXCEPT ![c] = r] /\ UNCHANGED pkts BY <1>1 DEF queueReceive
    <2>2. p \in 1 .. MaxPackets /\ p <= Len(pkts) BY SMTT(30), <1>0, <1>1 DEF queueReceive, ConnType
    <2>3. conn[c].q \in Seq(1 .. MaxPackets) BY <1>0 DEF ConnType
    <2>7. Append(conn[c].q, p) \in Seq(1 .. MaxPackets) BY <2>2, <2>3
    <2>4. q1 \in Seq(1 .. MaxPackets) BY <2>3, <2>7
    <2> HIDE DEF q1, p
    <2>5. Pruned(q1) \in Seq(1 .. MaxPackets) BY <2>4, PrunedType
    <2>8. p \in 0 .. MaxPackets BY <2>2
    <2>6. r \in ConnType /\ r.wr = conn[c].wr /\ r.msg = conn[c].msg /\ r.ch = p
      BY <1>0, <2>5, <2>8 DEF ConnType
    <2> QED BY <2>1, <2>2, <2>6, ConnChange DEF Shape
  <1>2. CASE queueSend(c)
    <2> DEFINE r == [conn[c] EXCEPT !.q = Tail(@), !.msg = Head(conn[c].q), !.wr = "write"]
    <2>1. conn' = [conn EXCEPT ![c] = r] /\ UNCHANGED pkts BY <1>2 DEF queueSend
    <2>2. conn[c].q \in Seq(1 .. MaxPackets) /\ conn[c].q # <<>> BY <1>0, <1>2 DEF ConnType, queueSend
    <2>3. Head(conn[c].q) \in 1 .. MaxPackets /\ Tail(conn[c].q) \in Seq(1 .. MaxPackets)
      BY <2>2, HeadTailProperties
    <2> DEFINE h == Head(conn[c].q)
               t == Tail(conn[c].q)
    <2>5. h \in 0 .. MaxPackets /\ h # 0 /\ t \in Seq(1 .. MaxPackets) BY <2>3
    <2>6. r = [conn[c] EXCEPT !.q = t, !.msg = h, !.wr = "write"] OBVIOUS
    <2> HIDE DEF h, t, r
    <2>4. r \in ConnType /\ r.msg # 0 /\ r.ch = conn[c].ch BY <1>0, <2>5, <2>6 DEF ConnType
    <2> QED BY <2>1, <2>4, ConnChange DEF Shape
  <1>3. CASE queueExit(c)
    <2> DEFINE r == [conn[c] EXCEPT !.qpc = "exited"]
    <2>1. conn' = [conn EXCEPT ![c] = r] /\ UNCHANGED pkts BY <1>3 DEF queueExit
    <2>2. r \in ConnType /\ r.wr = conn[c].wr /\ r.msg = conn[c].msg /\ r.ch = conn[c].ch
      BY <1>0 DEF ConnType
    <2> QED BY <2>1, <2>2, ConnChange DEF Shape
  <1> QED BY <1>1, <1>2, <1>3 DEF QueueStep

LEMMA WriteShape ==
  ASSUME Shape, NEW c \in Conns, WriteStep(c)
  PROVE  Shape'
  <1> USE ParamsAssumption
  <1>0. conn[c] \in ConnType /\ conn[c].ch <= Len(pkts) BY DEF Shape
  <1>1. CASE connWriteEnds(c)
    <2> DEFINE r == [conn[c] EXCEPT !.wr = "unwind", !.qCtx = "cancelled"]
    <2>1. conn' = [conn EXCEPT ![c] = r] /\ UNCHANGED pkts BY <1>1 DEF connWriteEnds
    <2>2. r \in ConnType /\ r.wr = "unwind" /\ r.ch = conn[c].ch BY ONLY ZenonT(30), <1>0 DEF ConnType, r
    <2> QED BY <1>0, <2>1, <2>2, ConnChange
  <1>2. CASE connWriteExit(c)
    <2> DEFINE r == [conn[c] EXCEPT !.wr = "exited", !.net = "closed", !.msg = 0]
    <2>1. conn' = [conn EXCEPT ![c] = r] /\ UNCHANGED pkts BY <1>2 DEF connWriteExit
    <2>3. 0 \in 0 .. MaxPackets OBVIOUS
    <2>2. r \in ConnType /\ r.wr = "exited" /\ r.ch = conn[c].ch BY <1>0, <2>3 DEF ConnType
    <2> QED BY <1>0, <2>1, <2>2, ConnChange
  <1>3. CASE closeOnCancel(c)
    <2> DEFINE r == [conn[c] EXCEPT !.net = "closed"]
    <2>1. conn' = [conn EXCEPT ![c] = r] /\ UNCHANGED pkts BY <1>3 DEF closeOnCancel
    <2>2. r \in ConnType /\ r.wr = conn[c].wr /\ r.msg = conn[c].msg /\ r.ch = conn[c].ch
      BY <1>0 DEF ConnType
    <2> QED BY <2>1, <2>2, ConnChange DEF Shape
  <1> QED BY <1>1, <1>2, <1>3 DEF WriteStep

LEMMA ReadShape ==
  ASSUME Shape, NEW c \in Conns, ReadStep(c)
  PROVE  Shape'
  <1>0. conn[c] \in ConnType BY DEF Shape
  <1> DEFINE Same(r) == r.wr = conn[c].wr /\ r.msg = conn[c].msg /\ r.ch = conn[c].ch
             gone == [conn[c] EXCEPT !.rd = "exited", !.net = "closed", !.port = "nil"]
  <1>1. gone \in ConnType /\ Same(gone) BY <1>0 DEF ConnType
  <1>2. CASE exitRead(c)
    <2>1. conn' = [conn EXCEPT ![c] = gone] /\ UNCHANGED pkts BY <1>2 DEF exitRead
    <2> QED BY <1>1, <2>1, ConnChange DEF Shape
  <1>3. CASE readDeadline(c)
    <2> DEFINE r == [conn[c] EXCEPT !.port = "nil"]
    <2>1. conn' = [conn EXCEPT ![c] = r] /\ UNCHANGED pkts BY <1>3 DEF readDeadline
    <2>2. r \in ConnType /\ Same(r) BY <1>0 DEF ConnType
    <2> QED BY <2>1, <2>2, ConnChange DEF Shape
  <1>4. CASE acquire(c)
    <2> DEFINE r == [conn[c] EXCEPT !.port = "held", !.rd = "write"]
    <2>1. conn' = [conn EXCEPT ![c] = r] /\ UNCHANGED pkts BY <1>4 DEF acquire
    <2>2. r \in ConnType /\ Same(r) BY <1>0 DEF ConnType
    <2> QED BY <2>1, <2>2, ConnChange DEF Shape
  <1>5. CASE conn' = [conn EXCEPT ![c].rd = "read"] /\ UNCHANGED pkts
    <2> DEFINE r == [conn[c] EXCEPT !.rd = "read"]
    <2>1. conn' = [conn EXCEPT ![c] = r] /\ UNCHANGED pkts BY <1>5
    <2>2. r \in ConnType /\ Same(r) BY <1>0 DEF ConnType
    <2> QED BY <2>1, <2>2, ConnChange DEF Shape
  <1> QED BY <1>2, <1>3, <1>4, <1>5 DEF ReadStep, readEnds, acquireCancelled, portWrite

-----------------------------------------------------------------------------
(* The port: where it goes in each step. *)

\* Steps that touch neither the port nor a reader.
LEMMA PortApart ==
  ASSUME PortConserved, UNCHANGED <<lock, stream>>,
         \A c \in Conns : conn'[c].port = conn[c].port /\ conn'[c].rd = conn[c].rd
  PROVE  PortConserved'
  BY DEF PortConserved

LEMMA PortOthers ==
  ASSUME IInv, NEW c \in Conns,
         ClientGone(c) \/ connWrite(c) \/ QueueStep(c) \/ WriteStep(c)
  PROVE  PortConserved'
  <1>1. UNCHANGED <<lock, stream>>
    BY DEF ClientGone, connWrite, QueueStep, queueReceive, queueSend, queueExit, WriteStep,
           connWriteEnds, connWriteExit, closeOnCancel
  <1>2. conn \in [Conns -> ConnType] BY DEF IInv, Shape
  <1>3. \A d \in Conns : conn'[d].port = conn[d].port /\ conn'[d].rd = conn[d].rd
    <2>1. CASE ClientGone(c) BY <1>2, <2>1 DEF ClientGone, ConnType
    <2>2. CASE connWrite(c) BY <1>2, <2>2 DEF connWrite, ConnType
    <2>3. CASE queueReceive(c) BY <1>2, <2>3 DEF queueReceive, ConnType
    <2>4. CASE queueSend(c) BY <1>2, <2>4 DEF queueSend, ConnType
    <2>5. CASE queueExit(c) BY <1>2, <2>5 DEF queueExit, ConnType
    <2>6. CASE connWriteEnds(c) BY <1>2, <2>6 DEF connWriteEnds, ConnType
    <2>7. CASE connWriteExit(c) BY <1>2, <2>7 DEF connWriteExit, ConnType
    <2>8. CASE closeOnCancel(c) BY <1>2, <2>8 DEF closeOnCancel, ConnType
    <2> QED BY <2>1, <2>2, <2>3, <2>4, <2>5, <2>6, <2>7, <2>8 DEF QueueStep, WriteStep
  <1> QED BY <1>1, <1>3, PortApart DEF IInv

\* A connection begins: its reader is new, and held nothing.
LEMMA PortConnects ==
  ASSUME IInv, NEW c \in Conns, handleConn(c) \/ readData(c)
  PROVE  PortConserved'
  <1>1. conn \in [Conns -> ConnType] /\ PortConserved BY DEF IInv, Shape
  <1>2. CASE handleConn(c)
    <2>1. UNCHANGED <<lock, stream>> BY <1>2 DEF handleConn
    <2>2. \A d \in Conns : conn'[d].port = conn[d].port /\ (d # c => conn'[d].rd = conn[d].rd)
      BY <1>1, <1>2 DEF handleConn, ConnType
    <2>3. conn'[c].rd = IF c \in ReadOnly THEN "none" ELSE "read" BY <1>1, <1>2 DEF handleConn, ConnType
    <2>5. conn[c].rd = "none" BY <1>2 DEF IInv, Fresh, handleConn
    <2>4. lock # c BY <1>1, <2>5 DEF PortConserved
    <2> QED BY <1>1, <2>1, <2>2, <2>3, <2>4 DEF PortConserved
  <1>3. CASE readData(c)
    <2>1. UNCHANGED <<lock, stream>> BY <1>3 DEF readData
    <2>2. \A d \in Conns : conn'[d].port = conn[d].port /\ (d # c => conn'[d].rd = conn[d].rd)
      BY <1>1, <1>3 DEF readData, ConnType
    <2>3. conn'[c].rd = IF conn[c].port = "held" THEN "write" ELSE "wait"
      BY <1>1, <1>3 DEF readData, ConnType
    <2> QED BY <1>1, <2>1, <2>2, <2>3 DEF PortConserved
  <1> QED BY <1>2, <1>3

\* What a reader does: it lets go of the port, takes it, or keeps it.
LEMMA PortReader ==
  ASSUME IInv, NEW c \in Conns, ReadStep(c)
  PROVE  PortConserved'
  <1>1. conn \in [Conns -> ConnType] /\ PortConserved BY DEF IInv, Shape
  <1>2. Free \notin Conns /\ Stream \notin Conns /\ Free # Stream
    BY ParamsAssumption DEF Free, Stream
  <1>3. CASE exitRead(c)
    <2>1. UNCHANGED stream /\ lock' = (IF conn[c].port = "held" THEN Free ELSE lock)
      BY <1>3 DEF exitRead
    <2>2. \A d \in Conns \ {c} : conn'[d].port = conn[d].port /\ conn'[d].rd = conn[d].rd
      BY <1>1, <1>3 DEF exitRead, ConnType
    <2>3. conn'[c].port = "nil" BY <1>1, <1>3 DEF exitRead, ConnType
    <2> QED BY <1>1, <1>2, <2>1, <2>2, <2>3 DEF PortConserved
  <1>4. CASE readDeadline(c)
    <2>1. UNCHANGED stream /\ lock' = Free /\ lock = c BY <1>1, <1>4 DEF readDeadline, PortConserved
    <2>2. \A d \in Conns \ {c} : conn'[d].port = conn[d].port /\ conn'[d].rd = conn[d].rd
      BY <1>1, <1>4 DEF readDeadline, ConnType
    <2>3. conn'[c].port = "nil" BY <1>1, <1>4 DEF readDeadline, ConnType
    <2> QED BY <1>1, <1>2, <2>1, <2>2, <2>3 DEF PortConserved
  <1>5. CASE acquire(c)
    <2>1. UNCHANGED stream /\ lock' = c /\ lock = Free BY <1>5 DEF acquire
    <2>2. \A d \in Conns \ {c} : conn'[d].port = conn[d].port /\ conn'[d].rd = conn[d].rd
      BY <1>1, <1>5 DEF acquire, ConnType
    <2>3. conn'[c].port = "held" /\ conn'[c].rd = "write" BY <1>1, <1>5 DEF acquire, ConnType
    <2> QED BY <1>1, <1>2, <2>1, <2>2, <2>3 DEF PortConserved
  <1>6. CASE conn' = [conn EXCEPT ![c].rd = "read"] /\ UNCHANGED <<lock, stream>>
    <2>1. \A d \in Conns : conn'[d].port = conn[d].port /\ (d # c => conn'[d].rd = conn[d].rd)
      BY <1>1, <1>6 DEF ConnType
    <2>2. conn'[c].rd = "read" BY <1>1, <1>6 DEF ConnType
    <2> QED BY <1>1, <1>6, <2>1, <2>2 DEF PortConserved
  <1> QED BY <1>3, <1>4, <1>5, <1>6 DEF ReadStep, readEnds, acquireCancelled, portWrite

LEMMA PortStream ==
  ASSUME IInv, StreamWrite
  PROVE  PortConserved'
  <1>1. Free \notin Conns /\ Stream \notin Conns /\ Free # Stream
    BY ParamsAssumption DEF Free, Stream
  <1> QED BY <1>1 DEF IInv, PortConserved, StreamWrite

-----------------------------------------------------------------------------
LEMMA FreshStep ==
  ASSUME IInv, NEW c \in Conns,
         handleConn(c) \/ ClientGone(c) \/ readData(c) \/ connWrite(c)
           \/ QueueStep(c) \/ WriteStep(c) \/ ReadStep(c)
  PROVE  Fresh'
  <1>1. conn \in [Conns -> ConnType] /\ Fresh BY DEF IInv, Shape
  <1>2. CASE handleConn(c) BY <1>1, <1>2 DEF handleConn, Fresh, ConnType
  <1>3. CASE ClientGone(c) BY <1>1, <1>3 DEF ClientGone, Fresh, ConnType
  <1>4. CASE readData(c) BY <1>1, <1>4 DEF readData, Fresh, ConnType
  <1>5. CASE connWrite(c) BY <1>1, <1>5 DEF connWrite, Fresh, ConnType
  <1>6. CASE QueueStep(c)
    <2>1. CASE queueReceive(c) BY <1>1, <2>1 DEF queueReceive, Fresh, ConnType
    <2>2. CASE queueSend(c) BY <1>1, <2>2 DEF queueSend, Fresh, ConnType
    <2>3. CASE queueExit(c) BY <1>1, <2>3 DEF queueExit, Fresh, ConnType
    <2> QED BY <1>6, <2>1, <2>2, <2>3 DEF QueueStep
  <1>7. CASE WriteStep(c)
    <2>1. CASE connWriteEnds(c) BY <1>1, <2>1 DEF connWriteEnds, Fresh, ConnType
    <2>2. CASE connWriteExit(c) BY <1>1, <2>2 DEF connWriteExit, Fresh, ConnType
    <2>3. CASE closeOnCancel(c) BY <1>1, <2>3 DEF closeOnCancel, Fresh, ConnType
    <2> QED BY <1>7, <2>1, <2>2, <2>3 DEF WriteStep
  <1>8. CASE ReadStep(c)
    <2>1. CASE exitRead(c) BY <1>1, <2>1 DEF exitRead, Fresh, ConnType
    <2>2. CASE readDeadline(c) BY <1>1, <2>2 DEF readDeadline, Fresh, ConnType
    <2>3. CASE acquire(c) BY <1>1, <2>3 DEF acquire, Fresh, ConnType
    <2>4. CASE conn[c].rd = "write" /\ conn' = [conn EXCEPT ![c].rd = "read"]
      BY <1>1, <2>4 DEF Fresh, ConnType
    <2> QED BY <1>8, <2>1, <2>2, <2>3, <2>4 DEF ReadStep, readEnds, acquireCancelled, portWrite
  <1> QED BY <1>2, <1>3, <1>4, <1>5, <1>6, <1>7, <1>8

LEMMA ScalarsStep ==
  ASSUME IInv, Next
  PROVE  Scalars'
  <1> USE ParamsAssumption DEF IInv, Scalars
  <1>1. CASE Tick BY <1>1 DEF Tick
  <1>2. CASE Ended \/ Cancel \/ StreamPacket \/ StreamWrite
    BY <1>2 DEF Ended, Cancel, StreamPacket, StreamWrite
  <1>3. ASSUME NEW t \in 0 .. now, NEW tag \in {"match", "other"}, Publish(t, tag)
        PROVE  Scalars'
    BY <1>3 DEF Publish
  <1>4. ASSUME NEW c \in Conns, handleConn(c) \/ ClientGone(c) \/ readData(c) \/ connWrite(c)
        PROVE  Scalars'
    BY <1>4 DEF handleConn, ClientGone, readData, connWrite
  <1>5. ASSUME NEW c \in Conns, QueueStep(c) \/ WriteStep(c)
        PROVE  Scalars'
    BY <1>5 DEF QueueStep, queueReceive, queueSend, queueExit, WriteStep, connWriteEnds,
                connWriteExit, closeOnCancel
  <1>6. ASSUME NEW c \in Conns, ReadStep(c)
        PROVE  Scalars'
    BY <1>6 DEF ReadStep, readDeadline, readEnds, acquire, acquireCancelled, portWrite, exitRead
  <1> QED BY <1>1, <1>2, <1>3, <1>4, <1>5, <1>6 DEF Next, Progress

\* The steps that are not of a connection leave the connections alone.
LEMMA WorldStep ==
  ASSUME IInv, Tick \/ Ended \/ Cancel \/ StreamPacket
                 \/ \E t \in 0 .. now, tag \in {"match", "other"} : Publish(t, tag)
  PROVE  Shape' /\ Fresh' /\ PortConserved'
  <1>1. CASE Tick \/ Ended \/ Cancel
    BY <1>1 DEF Tick, Ended, Cancel, IInv, Shape, Fresh, PortConserved
  <1>2. CASE StreamPacket
    BY <1>2 DEF StreamPacket, IInv, Shape, Fresh, PortConserved
  <1>3. ASSUME NEW t \in 0 .. now, NEW tag \in {"match", "other"}, Publish(t, tag)
        PROVE  Shape' /\ Fresh' /\ PortConserved'
    <2>1. Shape' BY <1>3, NewPacket DEF IInv
    <2>2. UNCHANGED <<conn, lock, stream>> BY <1>3 DEF Publish
    <2> QED BY <2>1, <2>2 DEF IInv, Fresh, PortConserved
  <1> QED BY <1>1, <1>2, <1>3

LEMMA NextIInv == IInv /\ [Next]_vars => IInv'
  <1> SUFFICES ASSUME IInv, [Next]_vars PROVE IInv' OBVIOUS
  <1>1. CASE UNCHANGED vars BY <1>1 DEF vars, IInv, Shape, Scalars, Fresh, PortConserved
  <1>2. CASE Next
    <2>1. Scalars' BY <1>2, ScalarsStep
    <2>2. CASE Tick \/ Ended \/ Cancel \/ StreamPacket
                 \/ \E t \in 0 .. now, tag \in {"match", "other"} : Publish(t, tag)
      BY <2>1, <2>2, WorldStep DEF IInv
    <2>3. CASE StreamWrite
      <3>1. Shape' /\ Fresh' BY <2>3 DEF StreamWrite, IInv, Shape, Fresh
      <3> QED BY <2>1, <2>3, <3>1, PortStream DEF IInv
    <2>4. ASSUME NEW c \in Conns,
                 handleConn(c) \/ ClientGone(c) \/ readData(c) \/ connWrite(c)
                   \/ QueueStep(c) \/ WriteStep(c) \/ ReadStep(c)
          PROVE  IInv'
      <3>1. Shape' BY <2>4, ClientShape, QueueShape, WriteShape, ReadShape DEF IInv
      <3>2. Fresh' BY <2>4, FreshStep
      <3>3. PortConserved' BY <2>4, PortOthers, PortConnects, PortReader
      <3> QED BY <2>1, <3>1, <3>2, <3>3 DEF IInv
    <2> QED BY <1>2, <2>2, <2>3, <2>4 DEF Next, Progress
  <1> QED BY <1>1, <1>2

\* The type invariant: the packets and queues of every connection included.
THEOREM TypeCorrect == Spec => []TypeOK
  <1>1. IInv => TypeOK BY DEF IInv, Shape, Scalars, TypeOK
  <1> QED BY <1>1, InitIInv, NextIInv, PTL DEF Spec

\* The OutPort of portLock is never lost and never in two hands, however the
\* workers of any number of connections end (connReadWorker's deferred send).
THEOREM PortConservation == Spec => []PortConserved
  <1>1. IInv => PortConserved BY DEF IInv
  <1> QED BY <1>1, InitIInv, NextIInv, PTL DEF Spec

-----------------------------------------------------------------------------
(* What a connection has of the packets for it, as sets of their numbers. *)

SentBy(r) == Entries(r.sent)
AtWriter(r) == {r.msg} \ {0}
Queued(r) == Entries(r.q)
Has(r) == SentBy(r) \cup AtWriter(r) \cup Queued(r)

Before(A, B) == \A a \in A, b \in B : a < b
Increasing(s) == \A i, j \in 1 .. Len(s) : i < j => s[i] < s[j]

Chain(r) ==
  /\ Increasing(r.sent) /\ Increasing(r.q)
  /\ Before(SentBy(r), AtWriter(r) \cup Queued(r)) /\ Before(AtWriter(r), Queued(r))

\* Packet p is too old, and c has a newer one.
Replaced(c, p) == Old(p) /\ \E r \in Has(conn[c]) : r > p

\* A client that has not connected yet has no packets.
Unused(r) ==
  r.net = "none" =>
    r.wr = "none" /\ r.qpc = "none" /\ Has(r) = {} /\ r.q = <<>> /\ r.sent = <<>>

ClientInv(c) ==
  /\ Chain(conn[c]) /\ Has(conn[c]) \subseteq ToForward(c)
  /\ conn[c].wr \in {"recv", "write"} => \A p \in ToForward(c) \ Has(conn[c]) : Replaced(c, p)
  /\ conn[c].wr = "recv" => conn[c].msg = 0
  /\ Unused(conn[c]) /\ conn[c].from <= conn[c].ch

DropInv == \A c \in Conns : ClientInv(c)

\* What drops from a queue are its first elements.
LEMMA PrunedTail ==
  ASSUME NEW s \in Seq(Nat)
  PROVE  \E d \in Nat :
           /\ d <= Len(s) /\ (Len(s) # 0 => d < Len(s))
           /\ Pruned(s) = SubSeq(s, d + 1, Len(s))
           /\ \A i \in 1 .. d : Old(s[i])
  <1> DEFINE drop == {i \in 1 .. Len(s) - 1 : \A j \in 1 .. i : Old(s[j])}
             stay == {i \in Nat \ {0} : i \notin drop}
             Less == OpToRel(<, Nat)
  <1>1. Len(s) \in Nat OBVIOUS
  <1>0. \A i : i \in drop <=> i \in 1 .. Len(s) - 1 /\ \A j \in 1 .. i : Old(s[j]) OBVIOUS
  <1>11. Pruned(s) = SubSeq(s, Cardinality(drop) + 1, Len(s)) BY DEF Pruned
  <1> HIDE DEF drop
  <1>12. \A i : i \in stay <=> i \in Nat /\ i # 0 /\ i \notin drop OBVIOUS
  <1> HIDE DEF stay
  <1>2. PICK m \in stay : \A i \in stay : m <= i
    <2>1. Len(s) + 1 \in stay
      <3>1. ~(Len(s) + 1 \in 1 .. Len(s) - 1) BY <1>1
      <3> QED BY <1>0, <1>1, <1>12, <3>1
    <2>2. stay \subseteq Nat /\ stay # {} BY <1>12, <2>1
    <2>3. IsWellFoundedOn(Less, Nat) BY NatLessThanWellFounded
    <2> HIDE DEF Less
    <2>4. PICK x \in stay : \A y \in stay : ~(<<y, x>> \in Less) BY ONLY <2>2, <2>3, WFMin
    <2>5. \A y \in stay : x <= y
      <3> TAKE y \in stay
      <3>1. x \in Nat /\ y \in Nat /\ ~(<<y, x>> \in Less) BY <2>2, <2>4
      <3>2. ~(y < x) BY <3>1 DEF Less, OpToRel
      <3> QED BY <3>1, <3>2
    <2> QED BY <2>5
  <1>3. m \in Nat /\ m # 0 /\ m \notin drop BY <1>2, <1>12
  <1>4. \A i \in 1 .. m - 1 : i \in drop
    <2> TAKE i \in 1 .. m - 1
    <2>1. i \in Nat /\ i # 0 /\ ~(m <= i) BY <1>3
    <2> QED BY <1>2, <1>12, <2>1
  <1>5. \A i \in drop : i \in 1 .. m - 1
    <2> SUFFICES ASSUME NEW i \in drop, m <= i PROVE FALSE
      BY <1>0, <1>1, <1>3
    <2>1. i \in 1 .. Len(s) - 1 /\ \A j \in 1 .. i : Old(s[j]) BY <1>0
    <2>2. m \in 1 .. Len(s) - 1 /\ \A j \in 1 .. m : j \in 1 .. i BY <1>1, <1>3, <2>1
    <2>3. \A j \in 1 .. m : Old(s[j]) BY <2>1, <2>2
    <2> QED BY <1>0, <1>3, <2>2, <2>3
  <1>6. drop = 1 .. m - 1 BY <1>4, <1>5
  <1>7. Cardinality(1 .. m - 1) = m - 1
    <2>1. 1 \in Int /\ m - 1 \in Int BY <1>3
    <2>2. Cardinality(1 .. m - 1) = IF 1 > m - 1 THEN 0 ELSE (m - 1) - 1 + 1 BY ONLY <2>1, FS_Interval
    <2> QED BY <1>3, <2>2
  <1>8. Pruned(s) = SubSeq(s, m - 1 + 1, Len(s)) BY <1>6, <1>7, <1>11
  <1>9. \A i \in 1 .. m - 1 : Old(s[i])
    <2> TAKE i \in 1 .. m - 1
    <2>1. i \in 1 .. i BY <1>3
    <2> QED BY <1>0, <1>4, <2>1
  <1>10. m - 1 <= Len(s) /\ (Len(s) # 0 => m - 1 < Len(s))
    <2>1. CASE m = 1 BY <1>1, <2>1
    <2>2. CASE m # 1
      <3>1. m - 1 \in drop BY <1>3, <1>4, <2>2
      <3>2. m - 1 \in 1 .. Len(s) - 1 BY <1>0, <3>1
      <3> QED BY <1>1, <3>2
    <2> QED BY <2>1, <2>2
  <1>13. m - 1 \in Nat BY <1>3
  <1> QED BY <1>8, <1>9, <1>10, <1>13

\* What pruning drops is old, and there is something newer behind it.
LEMMA PrunedEffect ==
  ASSUME NEW s \in Seq(Nat), Increasing(s), NEW t, t = Pruned(s)
  PROVE  /\ t \in Seq(Nat) /\ Increasing(t) /\ Entries(t) \subseteq Entries(s)
         /\ \A x \in Entries(s) : x \notin Entries(t) => Old(x) /\ \E y \in Entries(t) : y > x
  <1>6. PICK d \in Nat : /\ d <= Len(s) /\ (Len(s) # 0 => d < Len(s))
                         /\ t = SubSeq(s, d + 1, Len(s))
                         /\ \A i \in 1 .. d : Old(s[i])
    BY PrunedTail
  <1>1. /\ t \in Seq(Nat) /\ Len(t) = Len(s) - d /\ Len(s) \in Nat
        /\ \A k \in 1 .. Len(t) : t[k] = s[d + k]
    BY <1>6, SubSeqProperties
  <1>2. Increasing(t)
    <2> SUFFICES ASSUME NEW i \in 1 .. Len(t), NEW j \in 1 .. Len(t), i < j PROVE t[i] < t[j]
      BY DEF Increasing
    <2>1. d + i \in 1 .. Len(s) /\ d + j \in 1 .. Len(s) /\ d + i < d + j BY <1>1
    <2> QED BY <1>1, <2>1 DEF Increasing
  <1>3. \A i \in d + 1 .. Len(s) : s[i] \in Entries(t)
    <2> TAKE i \in d + 1 .. Len(s)
    <2>1. i - d \in 1 .. Len(t) /\ d + (i - d) = i BY <1>1
    <2>2. t[i - d] = s[i] BY <1>1, <2>1
    <2> QED BY <2>1, <2>2 DEF Entries
  <1>4. Entries(t) \subseteq Entries(s)
    <2> SUFFICES ASSUME NEW k \in 1 .. Len(t) PROVE t[k] \in Entries(s) BY DEF Entries
    <2>1. d + k \in 1 .. Len(s) BY <1>1
    <2>2. t[k] = s[d + k] BY <1>1
    <2> QED BY <2>1, <2>2 DEF Entries
  <1>5. ASSUME NEW i \in 1 .. Len(s)
        PROVE  \/ s[i] \in Entries(t)
               \/ i \in 1 .. d /\ \E y \in Entries(t) : y > s[i]
    <2>1. CASE i \in d + 1 .. Len(s) BY <1>3, <2>1
    <2>2. CASE i \in 1 .. d
      <3>1. Len(s) \in d + 1 .. Len(s) /\ i < Len(s) /\ Len(s) \in 1 .. Len(s) BY <1>1, <1>6, <2>2
      <3>2. s[i] < s[Len(s)] BY <3>1 DEF Increasing
      <3>3. s[i] \in Nat /\ s[Len(s)] \in Nat BY <3>1
      <3> QED BY <1>3, <2>2, <3>1, <3>2, <3>3
    <2> QED BY <1>1, <2>1, <2>2
  <1> QED BY <1>1, <1>2, <1>4, <1>5, <1>6 DEF Entries

-----------------------------------------------------------------------------
(* The steps. *)

LEMMA ClientType ==
  ASSUME IInv, NEW c \in Conns
  PROVE  /\ conn[c].sent \in Seq(Nat) /\ conn[c].q \in Seq(Nat) /\ conn[c].msg \in Nat
         /\ conn[c].ch \in Nat /\ conn[c].from \in Nat /\ conn[c].ch <= Len(pkts) /\ Len(pkts) \in Nat
         /\ \A p \in 1 .. Len(pkts) : pkts[p].tRead \in Nat
         /\ now \in Nat /\ conn \in [Conns -> ConnType]
  <1>1. conn \in [Conns -> ConnType] /\ pkts \in Seq(PacketType) /\ conn[c].ch <= Len(pkts)
    BY DEF IInv, Shape
  <1>2. 1 .. MaxPackets \subseteq Nat /\ 0 .. MaxPackets \subseteq Nat /\ 0 .. MaxTime \subseteq Nat
    BY ParamsAssumption
  <1>3. conn[c].sent \in Seq(1 .. MaxPackets) /\ conn[c].q \in Seq(1 .. MaxPackets)
        /\ conn[c].msg \in Nat /\ conn[c].ch \in Nat /\ conn[c].from \in Nat
    BY <1>1, <1>2 DEF ConnType
  <1>4. \A s \in Seq(1 .. MaxPackets) : s \in Seq(Nat)
    <2> TAKE s \in Seq(1 .. MaxPackets)
    <2>1. Len(s) \in Nat /\ s = [i \in 1 .. Len(s) |-> s[i]] OBVIOUS
    <2>2. \A i \in 1 .. Len(s) : s[i] \in Nat BY <1>2, ElementOfSeq
    <2> QED BY <2>1, <2>2, IsASeq
  <1>5. \A p \in 1 .. Len(pkts) : pkts[p].tRead \in Nat
    <2>1. \A p \in 1 .. Len(pkts) : pkts[p] \in PacketType BY <1>1, ElementOfSeq
    <2> QED BY <1>2, <2>1 DEF PacketType
  <1> QED BY <1>1, <1>2, <1>3, <1>4, <1>5 DEF IInv, Scalars

\* Time goes on and packets come: the old stay old.
Later == /\ now' \in Nat /\ now' >= now /\ Len(pkts') >= Len(pkts)
         /\ \A p \in 1 .. Len(pkts) : pkts'[p] = pkts[p]

LEMMA StaysOld ==
  ASSUME IInv, NEW c \in Conns, Later, UNCHANGED <<conn[c].ch, conn[c].from>>
  PROVE  /\ ToForward(c)' = ToForward(c)
         /\ \A p \in ToForward(c) : Old(p) => Old(p)'
  <1>1. \A p \in conn[c].from + 1 .. conn[c].ch : p \in 1 .. Len(pkts) BY ClientType
  <1>2. conn'[c].ch = conn[c].ch /\ conn'[c].from = conn[c].from OBVIOUS
  <1>3. ToForward(c)' = ToForward(c) BY <1>1, <1>2 DEF ToForward, Forwards, Later
  <1>4. \A p \in ToForward(c) : p \in 1 .. Len(pkts) BY <1>1 DEF ToForward
  <1>5. ASSUME NEW p \in ToForward(c), Old(p) PROVE Old(p)'
    <2>1. pkts'[p] = pkts[p] /\ pkts[p].tRead \in Nat /\ now \in Nat
      BY <1>4, ClientType DEF Later
    <2> QED BY <1>5, <2>1, ParamsAssumption DEF Old, Later
  <1> QED BY <1>3, <1>5

\* A step that moves none of the packets of c.
LEMMA NotMoved ==
  ASSUME IInv, NEW c \in Conns, ClientInv(c), Later,
         UNCHANGED <<conn[c].ch, conn[c].from, conn[c].sent, conn[c].q, conn[c].msg>>,
         conn'[c].wr \in {"recv", "write"} => conn'[c].wr = conn[c].wr,
         conn'[c].net = "none" =>
           conn[c].net = "none" /\ conn'[c].wr = conn[c].wr /\ conn'[c].qpc = conn[c].qpc
  PROVE  ClientInv(c)'
  <1>1. ToForward(c)' = ToForward(c) /\ \A p \in ToForward(c) : Old(p) => Old(p)' BY StaysOld
  <1>2. /\ SentBy(conn[c])' = SentBy(conn[c]) /\ AtWriter(conn[c])' = AtWriter(conn[c])
        /\ Queued(conn[c])' = Queued(conn[c]) /\ Has(conn[c])' = Has(conn[c])
    BY DEF SentBy, AtWriter, Queued, Has, Entries
  <1>3. Chain(conn[c])' BY <1>2 DEF ClientInv, Chain, Before, Increasing
  <1>4. \A p \in ToForward(c) : Replaced(c, p) => Replaced(c, p)' BY <1>1, <1>2 DEF Replaced
  <1>5. Unused(conn[c])' BY <1>2 DEF ClientInv, Unused
  <1> QED BY <1>1, <1>2, <1>3, <1>4, <1>5 DEF ClientInv

\* Where nothing but the packets of c, its writer and its count change, the world stays.
LEMMA SameWorld ==
  ASSUME IInv, NEW c \in Conns, UNCHANGED <<pkts, now>>
  PROVE  Later /\ \A p : Old(p)' <=> Old(p)
  BY ClientType DEF Later, Old

LEMMA OtherClients ==
  ASSUME IInv, NEW c \in Conns, NEW d \in Conns, ClientInv(d), conn'[d] = conn[d], Later
  PROVE  ClientInv(d)'
  BY NotMoved

LEMMA StepReceive ==
  ASSUME IInv, NEW c \in Conns, ClientInv(c), queueReceive(c)
  PROVE  ClientInv(c)'
  <1> DEFINE p  == conn[c].ch + 1
             q1 == IF Forwards(c, p) THEN Append(conn[c].q, p) ELSE conn[c].q
  <1>1. /\ conn[c].sent \in Seq(Nat) /\ conn[c].q \in Seq(Nat) /\ conn[c].msg \in Nat
        /\ conn[c].ch \in Nat /\ conn[c].from \in Nat /\ Len(pkts) \in Nat
        /\ conn \in [Conns -> ConnType]
    BY ClientType
  <1>2. /\ conn[c].qpc = "run" /\ UNCHANGED <<pkts, now>>
        /\ conn' = [conn EXCEPT ![c] = [conn[c] EXCEPT !.ch = p, !.q = Pruned(q1)]]
    BY DEF queueReceive
  <1> HIDE DEF q1
  <1>3. /\ conn'[c].ch = p /\ conn'[c].q = Pruned(q1) /\ conn'[c].from = conn[c].from
        /\ conn'[c].sent = conn[c].sent /\ conn'[c].msg = conn[c].msg /\ conn'[c].wr = conn[c].wr
        /\ conn'[c].net = conn[c].net /\ conn'[c].qpc = conn[c].qpc
    BY <1>1, <1>2 DEF ConnType
  <1>4. p \in Nat /\ p = conn[c].ch + 1 BY <1>1
  <1>5. ToForward(c)' = ToForward(c) \cup (IF Forwards(c, p) THEN {p} ELSE {})
    <2>1. conn[c].from + 1 .. p \subseteq (conn[c].from + 1 .. conn[c].ch) \cup {p} BY <1>1, <1>4
    <2>2. conn[c].from + 1 .. conn[c].ch \subseteq conn[c].from + 1 .. p BY <1>1, <1>4
    <2>3. \A k : Forwards(c, k)' <=> Forwards(c, k) BY <1>2 DEF Forwards
    <2>4. p \in conn[c].from + 1 .. p BY <1>1, <1>4 DEF ClientInv
    <2> HIDE DEF p
    <2> QED BY <1>3, <2>1, <2>2, <2>3, <2>4 DEF ToForward
  <1> HIDE DEF p
  <1>6. \A k \in Has(conn[c]) : k < p
    <2>1. \A k \in ToForward(c) : k < p BY <1>1, <1>4 DEF ToForward
    <2> QED BY <2>1 DEF ClientInv
  <1>7. q1 \in Seq(Nat) /\ Increasing(q1) /\ Entries(q1) = Queued(conn[c]) \cup (IF Forwards(c, p) THEN {p} ELSE {})
    <2>1. CASE ~Forwards(c, p)
      BY <1>1, <2>1 DEF q1, ClientInv, Chain, Queued
    <2>2. CASE Forwards(c, p)
      <3> DEFINE s == conn[c].q
      <3>1. s \in Seq(Nat) /\ Len(s) \in Nat /\ Increasing(s) BY <1>1 DEF ClientInv, Chain
      <3>2. \A k \in 1 .. Len(s) : s[k] < p BY <1>6 DEF Has, Queued, Entries
      <3>3. q1 = Append(s, p) BY <2>2 DEF q1
      <3>4. Queued(conn[c]) = Entries(s) BY DEF Queued
      <3> HIDE DEF s
      <3>5. /\ q1 \in Seq(Nat) /\ Len(q1) = Len(s) + 1
            /\ q1[Len(s) + 1] = p /\ \A k \in 1 .. Len(s) : q1[k] = s[k]
        BY <1>4, <3>1, <3>3, AppendProperties
      <3>6. Increasing(q1)
        <4> SUFFICES ASSUME NEW i \in 1 .. Len(q1), NEW j \in 1 .. Len(q1), i < j PROVE q1[i] < q1[j]
          BY DEF Increasing
        <4>4. Len(s) \in Nat /\ Len(q1) = Len(s) + 1 BY <3>1, <3>5
        <4>1. i \in 1 .. Len(s) /\ (j \in 1 .. Len(s) \/ j = Len(s) + 1) BY <4>4
        <4>2. CASE j \in 1 .. Len(s) BY <3>1, <3>5, <4>1, <4>2 DEF Increasing
        <4>3. CASE j = Len(s) + 1 BY <3>2, <3>5, <4>1, <4>3
        <4> QED BY <4>1, <4>2, <4>3
      <3>7. Entries(q1) = Entries(s) \cup {p}
        <4>1. 1 .. Len(q1) = 1 .. Len(s) \cup {Len(s) + 1} BY <3>1, <3>5
        <4> QED BY <3>5, <4>1 DEF Entries
      <3> QED BY <2>2, <3>4, <3>5, <3>6, <3>7
    <2> QED BY <2>1, <2>2
  <1>9. /\ Increasing(conn'[c].q) /\ Entries(conn'[c].q) \subseteq Entries(q1)
        /\ \A x \in Entries(q1) : \/ x \in Entries(conn'[c].q)
                                  \/ Old(x) /\ \E y \in Entries(conn'[c].q) : y > x
    BY <1>3, <1>7, PrunedEffect
  <1>10. /\ SentBy(conn[c])' = SentBy(conn[c]) /\ AtWriter(conn[c])' = AtWriter(conn[c])
         /\ Queued(conn[c])' = Entries(conn'[c].q)
    BY <1>3 DEF SentBy, AtWriter, Queued, Entries
  <1>11. \A k \in Has(conn[c]) : k < p BY <1>6
  <1>12. Chain(conn[c])'
    <2>1. Increasing(conn'[c].sent) BY <1>3 DEF ClientInv, Chain
    <2>2. Queued(conn[c])' \subseteq Queued(conn[c]) \cup {p} BY <1>7, <1>9, <1>10
    <2>3. Before(SentBy(conn[c]), AtWriter(conn[c]) \cup Queued(conn[c]))
          /\ Before(AtWriter(conn[c]), Queued(conn[c]))
      BY DEF ClientInv, Chain
    <2>4. Before(SentBy(conn[c]) \cup AtWriter(conn[c]), {p}) BY <1>6 DEF Has, Before
    <2> QED BY <1>9, <1>10, <2>1, <2>2, <2>3, <2>4 DEF Chain, Before
  <1>13. Has(conn[c])' \subseteq ToForward(c)'
    BY <1>5, <1>7, <1>9, <1>10 DEF Has, ClientInv
  <1>14. ASSUME conn'[c].wr \in {"recv", "write"}, NEW k \in ToForward(c)', k \notin Has(conn[c])'
         PROVE  Replaced(c, k)'
    <2>1. \A x : Old(x)' <=> Old(x) BY <1>2, SameWorld
    <2>2. CASE k \in Entries(q1)
      <3>1. k \notin Entries(conn'[c].q) BY <1>10, <1>14 DEF Has
      <3>2. Old(k) /\ \E y \in Entries(conn'[c].q) : y > k BY <1>9, <2>2, <3>1
      <3> QED BY <1>10, <2>1, <3>2 DEF Replaced, Has
    <2>3. CASE k \notin Entries(q1)
      <3>1. k \in ToForward(c) BY <1>5, <1>7, <1>14, <2>3
      <3>2. k \notin Has(conn[c]) BY <1>7, <1>10, <1>14, <2>3 DEF Has
      <3>3. PICK y \in Has(conn[c]) : Old(k) /\ y > k BY <1>3, <1>14, <3>1, <3>2 DEF ClientInv, Replaced
      <3>4. CASE y \in Has(conn[c])' BY <2>1, <3>3, <3>4 DEF Replaced
      <3>5. CASE y \notin Has(conn[c])'
        <4>1. y \in Entries(q1) /\ y \notin Entries(conn'[c].q) BY <1>7, <1>10, <3>3, <3>5 DEF Has
        <4>2. PICK z \in Entries(conn'[c].q) : z > y BY <1>9, <4>1
        <4>3. z \in Nat /\ y \in Nat /\ k \in Nat
          <5>1. Entries(q1) \subseteq Nat BY <1>7, ElementOfSeq DEF Entries
          <5>2. k \in Nat BY <1>1, <3>1 DEF ToForward
          <5> QED BY <1>9, <4>1, <5>1, <5>2
        <4>4. z > k BY <3>3, <4>2, <4>3
        <4> QED BY <1>10, <2>1, <3>3, <4>4 DEF Replaced, Has
      <3> QED BY <3>4, <3>5
    <2> QED BY <2>2, <2>3
  <1>15. Unused(conn[c])'
    <2>1. conn[c].net # "none" BY <1>2 DEF ClientInv, Unused
    <2> QED BY <1>3, <2>1 DEF Unused
  <1>16. conn'[c].wr = "recv" => conn'[c].msg = 0 BY <1>3 DEF ClientInv
  <1>17. conn'[c].from <= conn'[c].ch BY <1>1, <1>3, <1>4 DEF ClientInv
  <1> QED BY <1>12, <1>13, <1>14, <1>15, <1>16, <1>17 DEF ClientInv

LEMMA StepSend ==
  ASSUME IInv, NEW c \in Conns, ClientInv(c), queueSend(c)
  PROVE  ClientInv(c)'
  <1> DEFINE s == conn[c].q
  <1>1. /\ s \in Seq(Nat) /\ Len(s) \in Nat /\ Increasing(s) /\ s # <<>> /\ conn \in [Conns -> ConnType]
        /\ conn[c].wr = "recv" /\ conn[c].qpc = "run" /\ conn[c].msg = 0
    BY ClientType DEF queueSend, ClientInv, Chain
  <1>2. /\ conn'[c].q = Tail(s) /\ conn'[c].msg = Head(s) /\ conn'[c].wr = "write"
        /\ conn'[c].sent = conn[c].sent /\ conn'[c].ch = conn[c].ch /\ conn'[c].from = conn[c].from
        /\ conn'[c].net = conn[c].net /\ UNCHANGED <<now, pkts>>
    BY <1>1 DEF queueSend, ConnType
  <1>11. Queued(conn[c]) = Entries(s) BY DEF Queued
  <1>12. AtWriter(conn[c]) = {} BY <1>1 DEF AtWriter
  <1>13. \A k \in Entries(s) : k \in Nat /\ k # 0
    BY <1>1, <1>11, ClientType DEF ClientInv, Has, ToForward
  <1> HIDE DEF s
  <1>3. /\ Tail(s) \in Seq(Nat) /\ Len(Tail(s)) = Len(s) - 1 /\ Head(s) = s[1] /\ Len(s) # 0
        /\ \A k \in 1 .. Len(Tail(s)) : Tail(s)[k] = s[k + 1]
    BY <1>1, HeadTailProperties, EmptySeq
  <1>4. Increasing(Tail(s))
    <2> SUFFICES ASSUME NEW i \in 1 .. Len(Tail(s)), NEW j \in 1 .. Len(Tail(s)), i < j
                 PROVE  Tail(s)[i] < Tail(s)[j]
      BY DEF Increasing
    <2>1. i + 1 \in 1 .. Len(s) /\ j + 1 \in 1 .. Len(s) /\ i + 1 < j + 1 BY <1>1, <1>3
    <2> QED BY <1>1, <1>3, <2>1 DEF Increasing
  <1>5. \A k \in Entries(Tail(s)) : k \in Entries(s) /\ Head(s) < k
    <2> SUFFICES ASSUME NEW i \in 1 .. Len(Tail(s)) PROVE Tail(s)[i] \in Entries(s) /\ Head(s) < Tail(s)[i]
      BY DEF Entries
    <2>1. i + 1 \in 1 .. Len(s) /\ 1 \in 1 .. Len(s) /\ 1 < i + 1 BY <1>1, <1>3
    <2> QED BY <1>1, <1>3, <2>1 DEF Increasing, Entries
  <1>6. Entries(s) \subseteq {Head(s)} \cup Entries(Tail(s))
    <2> SUFFICES ASSUME NEW i \in 1 .. Len(s) PROVE s[i] \in {Head(s)} \cup Entries(Tail(s))
      BY DEF Entries
    <2>1. CASE i = 1 BY <1>3, <2>1
    <2>2. CASE i # 1
      <3>1. i - 1 \in 1 .. Len(Tail(s)) /\ (i - 1) + 1 = i BY <1>1, <1>3, <2>2
      <3>2. Tail(s)[i - 1] = s[i] BY <1>3, <3>1
      <3> QED BY <3>1, <3>2 DEF Entries
    <2> QED BY <2>1, <2>2
  <1>7. Head(s) \in Entries(s) /\ Head(s) # 0
    <2>1. 1 \in 1 .. Len(s) BY <1>1, <1>3
    <2>2. Head(s) \in Entries(s) BY <1>3, <2>1 DEF Entries
    <2> QED BY <1>13, <2>2
  <1>8. /\ SentBy(conn[c])' = SentBy(conn[c]) /\ AtWriter(conn[c])' = {Head(s)}
        /\ Queued(conn[c])' = Entries(Tail(s))
    BY <1>2, <1>7 DEF SentBy, AtWriter, Queued, Entries
  <1>9. Has(conn[c])' = Has(conn[c])
    BY <1>5, <1>6, <1>7, <1>8, <1>11, <1>12 DEF Has
  <1>10. Chain(conn[c])'
    <2>1. Increasing(conn'[c].q) /\ Increasing(conn'[c].sent) BY <1>2, <1>4 DEF ClientInv, Chain
    <2>2. Before(SentBy(conn[c]), Entries(s)) BY <1>11 DEF ClientInv, Chain, Before
    <2> QED BY <1>5, <1>7, <1>8, <2>1, <2>2 DEF Chain, Before
  <1>14. Later /\ ToForward(c)' = ToForward(c) /\ \A p : Old(p)' <=> Old(p)
    <2>1. Later /\ \A p : Old(p)' <=> Old(p) BY <1>2, SameWorld
    <2> QED BY <1>2, <2>1, StaysOld
  <1>15. \A p : Replaced(c, p) => Replaced(c, p)' BY <1>9, <1>14 DEF Replaced
  <1>16. Unused(conn[c])' BY <1>1, <1>2 DEF ClientInv, Unused
  <1> QED BY <1>1, <1>2, <1>9, <1>10, <1>14, <1>15, <1>16 DEF ClientInv

LEMMA StepWrite ==
  ASSUME IInv, NEW c \in Conns, ClientInv(c), connWrite(c)
  PROVE  ClientInv(c)'
  <1> DEFINE s == conn[c].sent
             m == conn[c].msg
  <1>1. /\ s \in Seq(Nat) /\ Len(s) \in Nat /\ Increasing(s) /\ m \in Nat /\ m # 0
        /\ conn \in [Conns -> ConnType] /\ conn[c].wr = "write" /\ conn[c].net = "open"
    BY ClientType DEF connWrite, ClientInv, Chain, IInv, Shape
  <1>2. /\ conn'[c].sent = Append(s, m) /\ conn'[c].msg = 0 /\ conn'[c].wr = "recv"
        /\ conn'[c].q = conn[c].q /\ conn'[c].ch = conn[c].ch /\ conn'[c].from = conn[c].from
        /\ conn'[c].net = conn[c].net /\ UNCHANGED <<now, pkts>>
    BY <1>1 DEF connWrite, ConnType
  <1>3. SentBy(conn[c]) = Entries(s) /\ AtWriter(conn[c]) = {m}
    BY <1>1 DEF SentBy, AtWriter
  <1> HIDE DEF s, m
  <1>4. /\ Append(s, m) \in Seq(Nat) /\ Len(Append(s, m)) = Len(s) + 1
        /\ Append(s, m)[Len(s) + 1] = m /\ \A k \in 1 .. Len(s) : Append(s, m)[k] = s[k]
    BY <1>1, AppendProperties
  <1>5. \A k \in 1 .. Len(s) : s[k] < m
    BY <1>3 DEF ClientInv, Chain, Before, Entries
  <1>6. Increasing(Append(s, m))
    <2> SUFFICES ASSUME NEW i \in 1 .. Len(s) + 1, NEW j \in 1 .. Len(s) + 1, i < j
                 PROVE  Append(s, m)[i] < Append(s, m)[j]
      BY <1>4 DEF Increasing
    <2>1. i \in 1 .. Len(s) /\ (j \in 1 .. Len(s) \/ j = Len(s) + 1) BY <1>1
    <2>2. CASE j \in 1 .. Len(s) BY <1>1, <1>4, <2>1, <2>2 DEF Increasing
    <2>3. CASE j = Len(s) + 1 BY <1>4, <1>5, <2>1, <2>3
    <2> QED BY <2>1, <2>2, <2>3
  <1>7. Entries(Append(s, m)) = Entries(s) \cup {m}
    <2>1. 1 .. Len(s) + 1 = 1 .. Len(s) \cup {Len(s) + 1} BY <1>1
    <2> QED BY <1>4, <2>1 DEF Entries
  <1>8. /\ SentBy(conn[c])' = SentBy(conn[c]) \cup {m} /\ AtWriter(conn[c])' = {}
        /\ Queued(conn[c])' = Queued(conn[c])
    <2>1. SentBy(conn[c])' = Entries(Append(s, m)) BY <1>2 DEF SentBy, Entries
    <2>2. AtWriter(conn[c])' = {} /\ Queued(conn[c])' = Queued(conn[c])
      BY <1>2 DEF AtWriter, Queued, Entries
    <2> QED BY <1>3, <1>7, <2>1, <2>2
  <1>9. Has(conn[c])' = Has(conn[c]) BY <1>3, <1>8 DEF Has
  <1>10. Chain(conn[c])'
    <2>1. Increasing(conn'[c].q) /\ Increasing(conn'[c].sent) BY <1>2, <1>6 DEF ClientInv, Chain
    <2>2. Before(SentBy(conn[c]), Queued(conn[c])) /\ Before({m}, Queued(conn[c]))
      BY <1>3 DEF ClientInv, Chain, Before
    <2> QED BY <1>8, <2>1, <2>2 DEF Chain, Before
  <1>14. Later /\ ToForward(c)' = ToForward(c) /\ \A p : Old(p)' <=> Old(p)
    <2>1. Later /\ \A p : Old(p)' <=> Old(p) BY <1>2, SameWorld
    <2> QED BY <1>2, <2>1, StaysOld
  <1>15. \A p : Replaced(c, p) => Replaced(c, p)' BY <1>9, <1>14 DEF Replaced
  <1>16. Unused(conn[c])' BY <1>1, <1>2 DEF Unused
  <1> QED BY <1>1, <1>2, <1>9, <1>10, <1>14, <1>15, <1>16 DEF ClientInv

\* The writer ends: what it could not write is lost with the connection.
LEMMA StepExit ==
  ASSUME IInv, NEW c \in Conns, ClientInv(c), connWriteExit(c)
  PROVE  ClientInv(c)'
  <1>1. conn \in [Conns -> ConnType] BY ClientType
  <1>2. /\ conn'[c].msg = 0 /\ conn'[c].wr = "exited" /\ conn'[c].net = "closed"
        /\ conn'[c].q = conn[c].q /\ conn'[c].sent = conn[c].sent
        /\ conn'[c].ch = conn[c].ch /\ conn'[c].from = conn[c].from /\ UNCHANGED <<now, pkts>>
    BY <1>1 DEF connWriteExit, ConnType
  <1>3. /\ SentBy(conn[c])' = SentBy(conn[c]) /\ AtWriter(conn[c])' = {}
        /\ Queued(conn[c])' = Queued(conn[c])
    BY <1>2 DEF SentBy, AtWriter, Queued, Entries
  <1>4. Has(conn[c])' \subseteq Has(conn[c]) BY <1>3 DEF Has
  <1>5. Chain(conn[c])' BY <1>2, <1>3 DEF ClientInv, Chain, Before, Increasing
  <1>6. ToForward(c)' = ToForward(c)
    <2>1. Later BY <1>2, SameWorld
    <2> QED BY <1>2, <2>1, StaysOld
  <1> QED BY <1>2, <1>4, <1>5, <1>6 DEF ClientInv, Unused

LEMMA StepConnect ==
  ASSUME IInv, NEW c \in Conns, ClientInv(c), handleConn(c)
  PROVE  ClientInv(c)'
  <1>1. conn \in [Conns -> ConnType] /\ Len(pkts) \in Nat BY ClientType
  <1>2. conn[c].wr = "none" /\ conn[c].qpc = "none" /\ Has(conn[c]) = {} /\ conn[c].q = <<>>
        /\ conn[c].sent = <<>> /\ conn[c].msg = 0
    <2>1. Unused(conn[c]) /\ conn[c].net = "none" BY DEF ClientInv, handleConn
    <2>2. conn[c].msg \notin AtWriter(conn[c]) => conn[c].msg = 0 BY DEF AtWriter
    <2> QED BY <2>1, <2>2 DEF Unused, Has
  <1>3. /\ conn'[c].msg = conn[c].msg /\ conn'[c].wr = "recv" /\ conn'[c].net = "open"
        /\ conn'[c].q = conn[c].q /\ conn'[c].sent = conn[c].sent
        /\ conn'[c].ch = Len(pkts) /\ conn'[c].from = Len(pkts)
    BY <1>1 DEF handleConn, ConnType
  <1>4. Has(conn[c])' = Has(conn[c]) /\ Chain(conn[c])'
    BY <1>3 DEF Has, SentBy, AtWriter, Queued, Entries, ClientInv, Chain, Before, Increasing
  <1>5. ToForward(c)' = {}
    <2>1. Len(pkts) + 1 .. Len(pkts) = {} BY <1>1
    <2> QED BY <1>3, <2>1 DEF ToForward
  <1> QED BY <1>1, <1>2, <1>3, <1>4, <1>5 DEF ClientInv, Unused

-----------------------------------------------------------------------------
(* The other steps leave the packets of every client where they are. *)

LEMMA Idle ==
  ASSUME IInv, NEW c \in Conns, ClientInv(c),
         \/ Tick \/ Ended \/ Cancel \/ StreamPacket \/ StreamWrite \/ UNCHANGED vars
  PROVE  ClientInv(c)'
  <1>1. now \in Nat /\ Len(pkts) \in Nat BY ClientType
  <1>2. conn' = conn /\ Later
    BY <1>1 DEF Tick, Ended, Cancel, StreamPacket, StreamWrite, vars, Later
  <1> QED BY <1>2, NotMoved

LEMMA StepPublish ==
  ASSUME IInv, NEW c \in Conns, ClientInv(c), NEW t \in 0 .. now, NEW tag \in {"match", "other"},
         Publish(t, tag)
  PROVE  ClientInv(c)'
  <1>1. now \in Nat /\ Len(pkts) \in Nat BY ClientType
  <1>2. pkts \in Seq(PacketType) BY DEF IInv, Shape
  <1>3. conn' = conn /\ Later BY <1>1, <1>2, AppendProperties DEF Publish, Later
  <1> QED BY <1>3, NotMoved

LEMMA StepElse ==
  ASSUME IInv, NEW c \in Conns, ClientInv(c),
         \/ ClientGone(c) \/ readData(c) \/ ReadStep(c)
         \/ connWriteEnds(c) \/ closeOnCancel(c) \/ queueExit(c)
  PROVE  ClientInv(c)'
  <1>1. conn \in [Conns -> ConnType] BY ClientType
  <1>2. UNCHANGED <<now, pkts>>
    BY DEF ClientGone, readData, ReadStep, readDeadline, readEnds, exitRead, acquire,
           acquireCancelled, portWrite, connWriteEnds, closeOnCancel, queueExit
  <1>3. Unused(conn[c]) BY DEF ClientInv
  <1>4. /\ conn'[c].ch = conn[c].ch /\ conn'[c].from = conn[c].from /\ conn'[c].sent = conn[c].sent
        /\ conn'[c].q = conn[c].q /\ conn'[c].msg = conn[c].msg
        /\ (conn'[c].wr \in {"recv", "write"} => conn'[c].wr = conn[c].wr)
        /\ (conn'[c].net = "none" =>
              conn[c].net = "none" /\ conn'[c].wr = conn[c].wr /\ conn'[c].qpc = conn[c].qpc)
    <2>1. CASE ClientGone(c) BY <1>1, <2>1 DEF ClientGone, ConnType
    <2>2. CASE readData(c) BY <1>1, <2>2 DEF readData, ConnType
    <2>3. CASE connWriteEnds(c) BY <1>1, <1>3, <2>3 DEF connWriteEnds, Unused, ConnType
    <2>4. CASE closeOnCancel(c) BY <1>1, <2>4 DEF closeOnCancel, ConnType
    <2>5. CASE queueExit(c) BY <1>1, <1>3, <2>5 DEF queueExit, Unused, ConnType
    <2>6. CASE readDeadline(c) \/ acquire(c) BY <1>1, <2>6 DEF readDeadline, acquire, ConnType
    <2>7. CASE readEnds(c) \/ acquireCancelled(c) \/ portWrite(c)
      BY <1>1, <2>7 DEF readEnds, acquireCancelled, portWrite, exitRead, ConnType
    <2> QED BY <2>1, <2>2, <2>3, <2>4, <2>5, <2>6, <2>7 DEF ReadStep
  <1>5. Later BY <1>2, SameWorld
  <1> QED BY <1>4, <1>5, NotMoved

\* What one connection does leaves the others alone.
LEMMA OneMoves ==
  ASSUME IInv, NEW c \in Conns, NEW d \in Conns, d # c,
         \/ handleConn(c) \/ ClientGone(c) \/ readData(c) \/ connWrite(c)
         \/ ReadStep(c) \/ WriteStep(c) \/ QueueStep(c)
  PROVE  conn'[d] = conn[d] /\ Later
  <1>1. conn \in [Conns -> ConnType] BY ClientType
  <1>2. conn'[d] = conn[d] /\ UNCHANGED <<now, pkts>>
    <2>1. CASE handleConn(c) \/ ClientGone(c) \/ readData(c) \/ connWrite(c)
      BY <1>1, <2>1 DEF handleConn, ClientGone, readData, connWrite
    <2>2. CASE ReadStep(c)
      BY <1>1, <2>2 DEF ReadStep, readDeadline, readEnds, exitRead, acquire, acquireCancelled, portWrite
    <2>3. CASE WriteStep(c)
      BY <1>1, <2>3 DEF WriteStep, connWriteEnds, connWriteExit, closeOnCancel
    <2>4. CASE QueueStep(c)
      BY <1>1, <2>4 DEF QueueStep, queueReceive, queueSend, queueExit
    <2> QED BY <2>1, <2>2, <2>3, <2>4
  <1> QED BY <1>2, SameWorld

LEMMA NextDropInv == IInv /\ DropInv /\ [Next]_vars => DropInv'
  <1> SUFFICES ASSUME IInv, DropInv, [Next]_vars, NEW d \in Conns PROVE ClientInv(d)'
    BY DEF DropInv
  <1>1. ClientInv(d) BY DEF DropInv
  <1>2. CASE Tick \/ Ended \/ Cancel \/ StreamPacket \/ StreamWrite \/ UNCHANGED vars
    BY <1>1, <1>2, Idle
  <1>3. CASE \E t \in 0 .. now, tag \in {"match", "other"} : Publish(t, tag)
    BY <1>1, <1>3, StepPublish
  <1>4. ASSUME NEW c \in Conns,
               \/ handleConn(c) \/ ClientGone(c) \/ readData(c) \/ connWrite(c)
               \/ ReadStep(c) \/ WriteStep(c) \/ QueueStep(c)
        PROVE  ClientInv(d)'
    <2>1. CASE d # c BY <1>1, <1>4, <2>1, OneMoves, OtherClients
    <2>2. CASE d = c
      BY <1>1, <1>4, <2>2, StepConnect, StepElse, StepWrite, StepExit, StepReceive, StepSend
         DEF WriteStep, QueueStep
    <2> QED BY <2>1, <2>2
  <1> QED BY <1>2, <1>3, <1>4 DEF Next, Progress

LEMMA InitDropInv == Init => DropInv
  <1> SUFFICES ASSUME Init, NEW c \in Conns PROVE ClientInv(c) BY DEF DropInv
  <1>1. /\ conn[c].sent = <<>> /\ conn[c].q = <<>> /\ conn[c].msg = 0 /\ conn[c].wr = "none"
        /\ conn[c].qpc = "none" /\ conn[c].from = 0 /\ conn[c].ch = 0
    BY DEF Init
  <1>2. 1 .. Len(conn[c].sent) = {} /\ 1 .. Len(conn[c].q) = {} BY <1>1
  <1>3. SentBy(conn[c]) = {} /\ Queued(conn[c]) = {} /\ AtWriter(conn[c]) = {}
    BY <1>1, <1>2 DEF SentBy, Queued, AtWriter, Entries
  <1> QED BY <1>1, <1>2, <1>3 DEF ClientInv, Chain, Before, Increasing, Has, Unused

-----------------------------------------------------------------------------
(* What a connection has, in the order in which its client gets it. *)

LEMMA OneAfterTheOther ==
  ASSUME NEW s \in Seq(Nat), NEW t \in Seq(Nat), Increasing(s), Increasing(t),
         Before(Entries(s), Entries(t))
  PROVE  /\ s \o t \in Seq(Nat) /\ Increasing(s \o t)
         /\ Entries(s \o t) = Entries(s) \cup Entries(t)
  <1> DEFINE u == s \o t
  <1>1. /\ u \in Seq(Nat) /\ Len(u) = Len(s) + Len(t) /\ Len(s) \in Nat /\ Len(t) \in Nat
        /\ \A i \in 1 .. Len(s) + Len(t) : u[i] = IF i <= Len(s) THEN s[i] ELSE t[i - Len(s)]
    BY ConcatProperties
  <1> HIDE DEF u
  <1>2. \A i \in 1 .. Len(s) : i \in 1 .. Len(u) /\ u[i] = s[i] BY <1>1
  <1>3. \A i \in 1 .. Len(t) : Len(s) + i \in 1 .. Len(u) /\ u[Len(s) + i] = t[i]
    <2> TAKE i \in 1 .. Len(t)
    <2>1. Len(s) + i \in 1 .. Len(s) + Len(t) /\ ~(Len(s) + i <= Len(s)) /\ (Len(s) + i) - Len(s) = i
      BY <1>1
    <2> QED BY <1>1, <2>1
  <1>4. \A i \in 1 .. Len(u) : i \in 1 .. Len(s) \/ (i > Len(s) /\ i - Len(s) \in 1 .. Len(t)
                                                     /\ u[i] = t[i - Len(s)])
    <2> TAKE i \in 1 .. Len(u)
    <2>1. i \in 1 .. Len(s) \/ (i > Len(s) /\ i - Len(s) \in 1 .. Len(t)) BY <1>1
    <2> QED BY <1>1, <2>1
  <1>5. Entries(u) = Entries(s) \cup Entries(t)
    <2>1. Entries(u) \subseteq Entries(s) \cup Entries(t) BY <1>2, <1>4 DEF Entries
    <2>2. Entries(s) \subseteq Entries(u) BY <1>2 DEF Entries
    <2>3. Entries(t) \subseteq Entries(u) BY <1>3 DEF Entries
    <2> QED BY <2>1, <2>2, <2>3
  <1>6. Increasing(u)
    <2> SUFFICES ASSUME NEW i \in 1 .. Len(u), NEW j \in 1 .. Len(u), i < j PROVE u[i] < u[j]
      BY DEF Increasing
    <2>1. CASE j \in 1 .. Len(s)
      <3>1. i \in 1 .. Len(s) BY <1>1, <2>1
      <3> QED BY <1>2, <2>1, <3>1 DEF Increasing
    <2>2. CASE j > Len(s) /\ i \in 1 .. Len(s)
      <3>3. ~(j \in 1 .. Len(s)) BY <1>1, <2>2
      <3>1. j - Len(s) \in 1 .. Len(t) /\ u[j] = t[j - Len(s)] BY <1>4, <3>3
      <3>2. u[i] \in Entries(s) /\ u[j] \in Entries(t) BY <1>2, <2>2, <3>1 DEF Entries
      <3> QED BY <3>2 DEF Before
    <2>3. CASE i > Len(s)
      <3>1. i - Len(s) \in 1 .. Len(t) /\ u[i] = t[i - Len(s)] BY <1>1, <1>4, <2>3
      <3>2. j > Len(s) /\ ~(j \in 1 .. Len(s)) BY <1>1, <2>3
      <3>4. j - Len(s) \in 1 .. Len(t) /\ u[j] = t[j - Len(s)] BY <1>4, <3>2
      <3>3. i - Len(s) < j - Len(s) BY <1>1
      <3> QED BY <3>1, <3>3, <3>4 DEF Increasing
    <2> QED BY <1>1, <1>4, <2>1, <2>2, <2>3
  <1> QED BY <1>1, <1>5, <1>6 DEF u

LEMMA HeldIsChain ==
  ASSUME IInv, NEW c \in Conns, Chain(conn[c])
  PROVE  /\ Increasing(Held(c)) /\ Entries(Held(c)) = Has(conn[c])
  <1> DEFINE m == IF conn[c].msg = 0 THEN <<>> ELSE <<conn[c].msg>>
             s == conn[c].sent
             q == conn[c].q
  <1>1. s \in Seq(Nat) /\ q \in Seq(Nat) /\ m \in Seq(Nat) BY ClientType
  <1>2. Entries(m) = AtWriter(conn[c]) /\ Increasing(m)
    <2>1. CASE conn[c].msg = 0
      <3>1. 1 .. Len(m) = {} BY <2>1
      <3> QED BY <2>1, <3>1 DEF Entries, AtWriter, Increasing
    <2>2. CASE conn[c].msg # 0
      <3>1. Len(m) = 1 /\ m[1] = conn[c].msg /\ 1 .. 1 = {1} BY <2>2
      <3> HIDE DEF m
      <3>2. Entries(m) = {conn[c].msg} BY <3>1 DEF Entries
      <3>3. Increasing(m) BY <3>1 DEF Increasing
      <3> QED BY <2>2, <3>2, <3>3 DEF AtWriter
    <2> QED BY <2>1, <2>2
  <1>3. Held(c) = s \o m \o q BY DEF Held
  <1>4. /\ Increasing(s) /\ Increasing(q) /\ SentBy(conn[c]) = Entries(s) /\ Queued(conn[c]) = Entries(q)
        /\ Before(Entries(s), Entries(m) \cup Entries(q)) /\ Before(Entries(m), Entries(q))
    BY <1>2 DEF Chain, SentBy, Queued
  <1> HIDE DEF s, m, q
  <1>5. /\ s \o m \in Seq(Nat) /\ Increasing(s \o m) /\ Entries(s \o m) = Entries(s) \cup Entries(m)
    <2>1. Before(Entries(s), Entries(m)) BY <1>4 DEF Before
    <2> QED BY <1>1, <1>2, <1>4, <2>1, OneAfterTheOther
  <1>6. /\ Increasing((s \o m) \o q)
        /\ Entries((s \o m) \o q) = Entries(s \o m) \cup Entries(q)
    <2>1. Before(Entries(s \o m), Entries(q)) BY <1>4, <1>5 DEF Before
    <2> QED BY <1>1, <1>4, <1>5, <2>1, OneAfterTheOther
  <1> QED BY <1>2, <1>3, <1>4, <1>5, <1>6 DEF Has

\* A client gets its packets in order, at most once and of its protocol, and
\* connQueue takes from it only what is too old and has something newer behind
\* it, however many packets there are and however slow the client is.
THEOREM OnlyOldIsDropped == Spec => []DropsOnlyOld
  <1>1. IInv /\ DropInv => DropsOnlyOld
    <2> SUFFICES ASSUME IInv, DropInv, NEW c \in Conns
                 PROVE  /\ Entries(Held(c)) \subseteq ToForward(c)
                        /\ \A i, j \in 1 .. Len(Held(c)) : i < j => Held(c)[i] < Held(c)[j]
                        /\ conn[c].wr \in {"recv", "write"} =>
                             \A p \in ToForward(c) \ Entries(Held(c)) :
                               Old(p) /\ \E r \in Entries(Held(c)) : r > p
      BY DEF DropsOnlyOld
    <2>1. ClientInv(c) BY DEF DropInv
    <2>2. Increasing(Held(c)) /\ Entries(Held(c)) = Has(conn[c]) BY <2>1, HeldIsChain DEF ClientInv
    <2> QED BY <2>1, <2>2 DEF ClientInv, Increasing, Replaced
  <1> QED BY <1>1, InitIInv, NextIInv, InitDropInv, NextDropInv, PTL DEF Spec
=============================================================================
