----------------------------- MODULE PullProofs -----------------------------
(***************************************************************************)
(* Corrections reach the receiver in order, what is missing was replaced   *)
(* or pushed out, Pull leaves nothing behind, and it tolerates the stalls  *)
(* of an upload that it says it tolerates: for every alphabet of packets,  *)
(* queue length, number of connects and bound on timeouts.                 *)
(***************************************************************************)
EXTENDS Pull, FiniteSetTheorems, SequenceTheorems, WellFoundedInduction, TLAPS

-----------------------------------------------------------------------------
(* The pruning queue. *)

\* The entry with the least number is there.
LEMMA OldestIsLeast ==
  ASSUME NEW es, es # {}, \A e \in es : e.n \in Nat
  PROVE  oldest(es) \in es /\ \A f \in es : oldest(es).n <= f.n
  <1> DEFINE N == {e.n : e \in es}
             Less == OpToRel(<, Nat)
  <1>1. N \subseteq Nat /\ N # {} OBVIOUS
  <1> HIDE DEF N
  <1>2. IsWellFoundedOn(Less, Nat) BY NatLessThanWellFounded
  <1> HIDE DEF Less
  <1>3. \E x \in N : \A y \in N : ~(<<y, x>> \in Less) BY ONLY <1>1, <1>2, WFMin
  <1>4. PICK x \in N : \A y \in N : ~(<<y, x>> \in Less) BY <1>3
  <1>5. \A y \in N : x <= y
    <2> TAKE y \in N
    <2>1. x \in Nat /\ y \in Nat BY <1>1, <1>4
    <2>2. ~(<<y, x>> \in Less) BY <1>4
    <2>3. ~(y < x) BY <2>1, <2>2 DEF Less, OpToRel
    <2> QED BY <2>1, <2>3
  <1>6. \E e \in es : \A f \in es : e.n <= f.n BY <1>4, <1>5 DEF N
  <1> QED BY <1>6, Zenon DEF oldest

Entry(pq, n, p) == [n |-> n, pkt |-> p, msmEpoch |-> IF IsMSM(p) THEN pq.msmEpoch ELSE NoEpoch]

\* A queue of numbered entries.
Numbered(es, n) ==
  /\ IsFiniteSet(es) /\ Cardinality(es) <= QueueMax
  /\ \A e \in es : e.n \in 1 .. n
  /\ \A e, f \in es : e.n = f.n => e = f

\* What enqueue leaves out has been replaced or is QueueMax packets old.
LEMMA Enqueued ==
  ASSUME NEW pq, NEW n \in Nat \ {0}, NEW p, Numbered(pq.entries, n - 1)
  PROVE  LET r   == enqueue(pq, n, p)
             new == Entry(pq, n, p)
         IN  /\ r.msmEpoch = IF p.kind = "end" THEN pq.msmEpoch + 1 ELSE pq.msmEpoch
             /\ Numbered(r.entries, n)
             /\ new \in r.entries
             /\ \A e \in r.entries : e = new \/ (e \in pq.entries /\ ~Replaces(p, new.msmEpoch, e))
             /\ \A e \in pq.entries : e \in r.entries \/ Replaces(p, new.msmEpoch, e) \/ n - e.n >= QueueMax
  <1> USE QueueMaxAssumption
  <1> DEFINE new  == Entry(pq, n, p)
             kept == {e \in pq.entries : ~Replaces(p, new.msmEpoch, e)}
             all  == kept \cup {new}
             r    == enqueue(pq, n, p)
  <1>1. /\ r.entries = dropOldest(all)
        /\ r.msmEpoch = IF p.kind = "end" THEN pq.msmEpoch + 1 ELSE pq.msmEpoch
    BY Zenon DEF enqueue, Entry
  <1>2. new.n = n BY DEF Entry
  <1>3. \A e \in pq.entries : e.n \in 1 .. n - 1 BY DEF Numbered
  <1>4. new \notin pq.entries BY <1>2, <1>3
  <1>5. IsFiniteSet(kept) /\ Cardinality(kept) <= Cardinality(pq.entries)
    <2>1. kept \in SUBSET pq.entries OBVIOUS
    <2>2. IsFiniteSet(pq.entries) BY DEF Numbered
    <2> QED BY ONLY <2>1, <2>2, FS_Subset
  <1> HIDE DEF new
  <1>6. IsFiniteSet(all) /\ Cardinality(all) = Cardinality(kept) + 1
    <2>1. new \notin kept BY <1>4
    <2> HIDE DEF kept
    <2> QED BY <1>5, <2>1, FS_AddElement
  <1>7. Cardinality(kept) \in Nat /\ Cardinality(pq.entries) \in Nat /\ Cardinality(pq.entries) <= QueueMax
    BY <1>5, FS_CardinalityType DEF Numbered
  <1>8. \A e \in all : e.n \in 1 .. n BY <1>2, <1>3
  <1>9. \A e, f \in all : e.n = f.n => e = f BY <1>2, <1>3 DEF Numbered
  <1>10. CASE Cardinality(all) <= QueueMax
    <2>1. r.entries = all BY <1>1, <1>10 DEF dropOldest
    <2>2. Numbered(r.entries, n) BY <1>6, <1>8, <1>9, <1>10, <2>1 DEF Numbered
    <2> HIDE DEF r
    <2> QED BY <1>1, <2>1, <2>2 DEF r, new
  <1>11. CASE ~(Cardinality(all) <= QueueMax)
    <2> DEFINE o == oldest(all)
               rest == all \ {o}
    <2>1. r.entries = rest BY <1>1, <1>11 DEF dropOldest
    <2>2. o \in all /\ \A f \in all : o.n <= f.n
      <3>1. all # {} /\ \A e \in all : e.n \in Nat BY <1>8
      <3> HIDE DEF all
      <3> QED BY <3>1, OldestIsLeast
    <2> HIDE DEF o
    <2>3. IsFiniteSet(rest) /\ Cardinality(rest) = QueueMax
      <3>1. Cardinality(all) = QueueMax + 1 BY <1>5, <1>6, <1>7, <1>11
      <3> HIDE DEF all
      <3>2. IsFiniteSet(rest) /\ Cardinality(rest) = Cardinality(all) - 1 BY <1>6, <2>2, FS_RemoveElement
      <3> QED BY <3>1, <3>2
    <2>4. \A e \in rest : e.n \in o.n + 1 .. n
      <3> TAKE e \in rest
      <3>1. e \in all /\ e # o OBVIOUS
      <3>2. e.n \in 1 .. n /\ o.n \in 1 .. n /\ o.n <= e.n /\ o.n # e.n
        BY <1>8, <1>9, <2>2, <3>1
      <3> HIDE DEF all, rest
      <3> QED BY <3>2
    <2>5. n - o.n >= QueueMax
      <3> SUFFICES ASSUME ~(n - o.n >= QueueMax) PROVE FALSE OBVIOUS
      <3>0. o.n \in 1 .. n BY <1>8, <2>2
      <3> DEFINE T == o.n + 1 .. n
                 f == [e \in rest |-> e.n]
      <3>1. IsFiniteSet(T) /\ Cardinality(T) < QueueMax
        <4>1. o.n + 1 \in Int /\ n \in Int BY <3>0
        <4>2. IsFiniteSet(T) /\ Cardinality(T) = IF o.n + 1 > n THEN 0 ELSE n - (o.n + 1) + 1
          BY ONLY <4>1, FS_Interval
        <4> QED BY <3>0, <4>2
      <3>2. f \in [rest -> T] BY <2>4
      <3>3. \A x, y \in rest : f[x] = f[y] => x = y BY <1>9
      <3> HIDE DEF f, T, rest
      <3>4. \E x, y \in rest : x # y /\ f[x] = f[y]
        BY <2>3, <3>1, <3>2, FS_PigeonHole
      <3> QED BY <3>3, <3>4
    <2>6. o # new
      <3> SUFFICES ASSUME o = new PROVE FALSE OBVIOUS
      <3>1. o.n = n BY <1>2
      <3> QED BY <2>5, <3>1
    <2>7. Numbered(r.entries, n) BY <1>8, <1>9, <2>1, <2>3 DEF Numbered
    <2> HIDE DEF r
    <2> QED BY <1>1, <2>1, <2>2, <2>5, <2>6, <2>7 DEF r, new
  <1> QED BY <1>10, <1>11

\* A packet that leaves the queue is older than all that stay.
LEMMA Dequeued ==
  ASSUME NEW E, NEW pq \in [entries : SUBSET E, msmEpoch : Nat], NEW n \in Nat,
         Numbered(pq.entries, n), pq.entries # {}
  PROVE  /\ \E o \in pq.entries : o.n = first(pq) /\ dequeue(pq).entries = pq.entries \ {o}
         /\ dequeue(pq).msmEpoch = pq.msmEpoch
         /\ Numbered(dequeue(pq).entries, n)
         /\ first(pq) \in 1 .. n
         /\ \A e \in dequeue(pq).entries : first(pq) < e.n
  <1> DEFINE o == oldest(pq.entries)
  <1>0. \A e \in pq.entries : e.n \in 1 .. n BY DEF Numbered
  <1>1. o \in pq.entries /\ \A f \in pq.entries : o.n <= f.n
    <2>1. \A e \in pq.entries : e.n \in Nat BY <1>0
    <2> QED BY <2>1, OldestIsLeast
  <1> HIDE DEF o
  <1>2. first(pq) = o.n BY DEF first, o
  <1>3. dequeue(pq).entries = pq.entries \ {o} /\ dequeue(pq).msmEpoch = pq.msmEpoch
    BY DEF dequeue, o
  <1>4. IsFiniteSet(pq.entries \ {o}) /\ Cardinality(pq.entries \ {o}) = Cardinality(pq.entries) - 1
    BY <1>1, FS_RemoveElement DEF Numbered
  <1>5. Cardinality(pq.entries) \in Nat BY FS_CardinalityType DEF Numbered
  <1>6. Cardinality(pq.entries \ {o}) <= QueueMax BY <1>4, <1>5, QueueMaxAssumption DEF Numbered
  <1>7. Numbered(dequeue(pq).entries, n) BY <1>3, <1>4, <1>6 DEF Numbered
  <1>8. \A e \in pq.entries \ {o} : o.n < e.n BY <1>0, <1>1 DEF Numbered
  <1> QED BY <1>0, <1>1, <1>2, <1>3, <1>7, <1>8
-----------------------------------------------------------------------------
(* Corrections on their way, as sets of their numbers. *)

Written == {written[k] : k \in 1 .. Len(written)}
AtWriter == {msg} \ {0}
InChannel == {ch[i] : i \in 1 .. Len(ch)}
Offered == {next} \ {0}

Before(A, B) == \A a \in A, b \in B : a < b

EntryType == [n : 1 .. Len(in), pkt : Alphabet, msmEpoch : Nat \cup {NoEpoch}]

PipeType ==
  /\ in \in Seq(Alphabet) /\ cuts \subseteq 0 .. Len(in)
  /\ msg \in 0 .. Len(in) /\ next \in 0 .. Len(in)
  /\ ch = <<>> \/ \E x \in 1 .. Len(in) : ch = <<x>>
  /\ written \in Seq(1 .. Len(in))
  /\ q \in [entries : SUBSET EntryType, msmEpoch : Nat]
  /\ Numbered(q.entries, Len(in))

\* The writer has a packet only between taking it and having written it.
MsgHeld == msg = 0 <=> wr \in {"recv", "exited"}

Increasing == \A i, j \in 1 .. Len(written) : i < j => written[i] < written[j]

InOrder ==
  /\ Increasing
  /\ Before(Written, AtWriter \cup InChannel \cup Offered \cup Entries)
  /\ Before(AtWriter, InChannel \cup Offered \cup Entries)
  /\ Before(InChannel, Offered \cup Entries)
  /\ Before(Offered, Entries)

\* Something between packet i and the present has ended its epoch.
Ended(i) == (\E k \in i .. Len(in) : in[k].kind = "end") \/ (\E c \in cuts : i <= c)

\* The stamps of the queue tell what the history tells.
EpochsTold ==
  \A e \in q.entries :
    /\ e.pkt = in[e.n]
    /\ ~IsMSM(e.pkt) => e.msmEpoch = NoEpoch
    /\ IsMSM(e.pkt) => /\ e.msmEpoch \in 0 .. q.msmEpoch
                       /\ Ended(e.n) <=> e.msmEpoch # q.msmEpoch

\* What is missing was replaced, or pushed out.
Justified(i) == (\E j \in 1 .. Len(in) : Supersedes(j, i)) \/ Len(in) - i >= QueueMax
Kept ==
  ~Done /\ qpc = "run" =>
    \A i \in 1 .. Len(in) :
      i \in Written \cup AtWriter \cup InChannel \cup Offered \cup Entries \/ Justified(i)

PipeInv == PipeType /\ MsgHeld /\ InOrder /\ EpochsTold /\ NoTornEpoch /\ Kept

pipeVars == <<in, cuts, q, next, ch, msg, written>>

\* The steps that move no packet.
Idle ==
  \/ Cancel \/ connectFails \/ readEnds \/ fix \/ FeedEnds \/ uploadFails \/ uploadTimesOut
  \/ SenderStep
  \/ OtherReturns \/ waitReady \/ connects \/ readerCancelled \/ setWriter \/ closeOnCancel
  \/ backoffEnds \/ bcastExit \/ queueExit \/ lockPort \/ runClose \/ runReturn
  \/ UNCHANGED vars

LEMMA IdleFrame ==
  ASSUME Idle
  PROVE  /\ UNCHANGED pipeVars
         /\ wr' \in {"recv", "exited"} <=> wr \in {"recv", "exited"}
         /\ Done => Done'
         /\ qpc' = "run" => qpc = "run"
  <1> USE DEF pipeVars, rdVars, gsVars, qVars, wrVars, Done
  <1>1. CASE Cancel \/ connectFails \/ readEnds \/ fix \/ FeedEnds \/ uploadFails \/ uploadTimesOut
    BY <1>1 DEF Cancel, connectFails, readEnds, fix, FeedEnds, uploadFails, uploadTimesOut
  <1>2. CASE SenderStep
    BY <1>2 DEF SenderStep, seeFeedEnd, takeConn, tick, senderCancelled, uploadOK, uploadFails
  <1>3. CASE OtherReturns \/ waitReady \/ connects \/ readerCancelled \/ setWriter \/ closeOnCancel
    BY <1>3 DEF OtherReturns, waitReady, connects, readerCancelled, setWriter, closeOnCancel
  <1>4. CASE backoffEnds \/ bcastExit \/ queueExit \/ lockPort \/ runClose \/ runReturn
    BY <1>4 DEF backoffEnds, bcastExit, queueExit, lockPort, runClose, runReturn
  <1>5. CASE UNCHANGED vars BY <1>5 DEF vars
  <1> QED BY <1>1, <1>2, <1>3, <1>4, <1>5 DEF Idle

LEMMA StepIdle ==
  ASSUME PipeInv, Idle
  PROVE  PipeInv'
  <1>1. UNCHANGED pipeVars BY IdleFrame
  <1>2. PipeType' BY <1>1 DEF PipeInv, PipeType, pipeVars, EntryType, Numbered
  <1>3. MsgHeld' BY IdleFrame DEF PipeInv, MsgHeld, pipeVars
  <1>8. /\ Written' = Written /\ AtWriter' = AtWriter /\ InChannel' = InChannel
        /\ Offered' = Offered /\ Entries' = Entries
    BY <1>1 DEF Written, AtWriter, InChannel, Offered, Entries, pipeVars
  <1>4. InOrder'
    <2>1. Increasing' BY <1>1 DEF PipeInv, InOrder, Increasing, pipeVars
    <2> QED BY <1>8, <2>1 DEF PipeInv, InOrder, Before
  <1>5. EpochsTold'
    <2>1. \A i : Ended(i)' <=> Ended(i) BY <1>1 DEF Ended, pipeVars
    <2>2. q' = q /\ in' = in BY <1>1 DEF pipeVars
    <2> QED BY <2>1, <2>2 DEF PipeInv, EpochsTold
  <1>6. NoTornEpoch' BY <1>1 DEF PipeInv, NoTornEpoch, Entries, Supersedes, SameEpoch, pipeVars
  <1>7. Kept'
    <2>1. ~Done' /\ qpc' = "run" => ~Done /\ qpc = "run" BY IdleFrame
    <2>2. \A i : Justified(i) => Justified(i)' BY <1>1 DEF Justified, Supersedes, SameEpoch, pipeVars
    <2>3. in' = in BY <1>1 DEF pipeVars
    <2> QED BY <1>8, <2>1, <2>2, <2>3 DEF PipeInv, Kept
  <1> QED BY <1>2, <1>3, <1>4, <1>5, <1>6, <1>7 DEF PipeInv

-----------------------------------------------------------------------------
(* The steps that move packets. *)

LEMMA OfferEffect ==
  ASSUME NEW E, NEW r \in [entries : SUBSET E, msmEpoch : Nat], NEW n \in Nat,
         Numbered(r.entries, n), Offer(r)
  PROVE  /\ q'.entries \subseteq r.entries /\ q'.msmEpoch = r.msmEpoch
         /\ q' \in [entries : SUBSET E, msmEpoch : Nat]
         /\ Numbered(q'.entries, n) /\ next' \in 0 .. n
         /\ Offered' \cup Entries' = {e.n : e \in r.entries}
         /\ Before(Offered', Entries')
  <1>1. CASE r.entries = {}
    <2>1. next' = 0 /\ q' = r BY <1>1 DEF Offer
    <2>2. Offered' = {} /\ Entries' = {} BY <1>1, <2>1 DEF Offered, Entries
    <2> QED BY <1>1, <2>1, <2>2 DEF Before
  <1>2. CASE r.entries # {}
    <2>1. next' = first(r) /\ q' = dequeue(r) BY <1>2 DEF Offer
    <2>2. PICK o \in r.entries : o.n = first(r) /\ dequeue(r).entries = r.entries \ {o}
      BY <1>2, Dequeued
    <2>3. /\ dequeue(r).msmEpoch = r.msmEpoch /\ Numbered(dequeue(r).entries, n)
          /\ first(r) \in 1 .. n /\ \A e \in dequeue(r).entries : first(r) < e.n
      BY <1>2, Dequeued
    <2>4. q' \in [entries : SUBSET E, msmEpoch : Nat] BY <2>1 DEF dequeue
    <2>5. Offered' = {o.n} BY <2>1, <2>2, <2>3 DEF Offered
    <2>6. Entries' = {e.n : e \in r.entries \ {o}} BY <2>1, <2>2 DEF Entries
    <2>7. Offered' \cup Entries' = {e.n : e \in r.entries} BY <2>5, <2>6
    <2>8. Before(Offered', Entries') BY <2>1, <2>2, <2>3, <2>5, <2>6 DEF Before
    <2> QED BY <2>1, <2>2, <2>3, <2>4, <2>7, <2>8
  <1> QED BY <1>1, <1>2

\* What the packets before the last one mean to each other, the last one does not change.
LEMMA HistoryGrows ==
  ASSUME PipeType, NEW p \in Alphabet, in' = Append(in, p),
         cuts' = cuts
  PROVE  /\ Len(in') = Len(in) + 1 /\ Len(in) \in Nat /\ in' \in Seq(Alphabet)
         /\ in'[Len(in) + 1] = p /\ \A k \in 1 .. Len(in) : in'[k] = in[k]
         /\ \A i, j \in 1 .. Len(in) : Supersedes(j, i)' <=> Supersedes(j, i)
  <1>1. /\ Len(in') = Len(in) + 1 /\ Len(in) \in Nat /\ in' \in Seq(Alphabet)
        /\ in'[Len(in) + 1] = p /\ \A k \in 1 .. Len(in) : in'[k] = in[k]
    BY DEF PipeType
  <1>2. \A i, j \in 1 .. Len(in) : SameEpoch(i, j)' <=> SameEpoch(i, j)
    <2> TAKE i, j \in 1 .. Len(in)
    <2>1. \A k \in i .. j - 1 : k \in 1 .. Len(in) BY <1>1
    <2>2. \A k \in i .. j - 1 : in'[k] = in[k] BY <1>1, <2>1
    <2>3. in'[i] = in[i] /\ in'[j] = in[j] BY <1>1
    <2> QED BY <2>2, <2>3 DEF SameEpoch
  <1>3. \A i, j \in 1 .. Len(in) : Supersedes(j, i)' <=> Supersedes(j, i)
    <2> TAKE i, j \in 1 .. Len(in)
    <2>1. in'[i] = in[i] /\ in'[j] = in[j] BY <1>1
    <2> QED BY <1>2, <2>1 DEF Supersedes
  <1> QED BY <1>1, <1>3

\* In the queue, a packet of another epoch than the present one has been left behind.
LEMMA ReplacedIsSuperseded ==
  ASSUME PipeType, EpochsTold, NEW p \in Alphabet, in' = Append(in, p), cuts' = cuts,
         NEW e \in q.entries, NEW n, n = Len(in) + 1
  PROVE  Replaces(p, Entry(q, n, p).msmEpoch, e) <=> Supersedes(n, e.n)'
  <1> DEFINE ep == Entry(q, n, p).msmEpoch
  <1>1. /\ Len(in) \in Nat /\ in'[n] = p /\ \A k \in 1 .. Len(in) : in'[k] = in[k]
    BY HistoryGrows
  <1>2. e.n \in 1 .. Len(in) /\ e.pkt = in[e.n] BY DEF EpochsTold, PipeType, Numbered
  <1>3. ep = IF IsMSM(p) THEN q.msmEpoch ELSE NoEpoch BY DEF Entry
  <1>4. in'[e.n] = e.pkt BY <1>1, <1>2
  <1>5. q.msmEpoch \in Nat BY DEF PipeType
  <1> HIDE DEF ep
  <1>6. CASE IsMSM(p) /\ IsMSM(e.pkt)
    <2>1. ep = q.msmEpoch /\ ep # NoEpoch BY <1>3, <1>5, <1>6 DEF NoEpoch
    <2>2. e.msmEpoch # NoEpoch /\ (Ended(e.n) <=> e.msmEpoch # q.msmEpoch)
      BY <1>5, <1>6 DEF EpochsTold, NoEpoch
    <2>3. Ended(e.n) <=> ~SameEpoch(e.n, n)'
      <3>1. e.n .. Len(in) = e.n .. n - 1 BY <1>1
      <3>2. \A k \in e.n .. Len(in) : in'[k] = in[k] BY <1>1, <1>2
      <3>3. \A c \in cuts : c < n BY <1>1 DEF PipeType
      <3>4. IsMSM(in'[e.n]) /\ IsMSM(in'[n]) BY <1>1, <1>4, <1>6
      <3>5. (\E k \in e.n .. Len(in) : in[k].kind = "end") <=> ~\A k \in e.n .. n - 1 : in'[k].kind # "end"
        BY <3>1, <3>2
      <3>6. (\E c \in cuts : e.n <= c) <=> ~\A c \in cuts : ~(e.n <= c /\ c < n) BY <3>3
      <3>7. SameEpoch(e.n, n)' <=> /\ \A k \in e.n .. n - 1 : in'[k].kind # "end"
                                   /\ \A c \in cuts : ~(e.n <= c /\ c < n)
        BY <3>4 DEF SameEpoch
      <3> QED BY <3>5, <3>6, <3>7 DEF Ended
    <2>4. e.n < n BY <1>1, <1>2
    <2> QED BY <1>1, <1>4, <2>1, <2>2, <2>3, <2>4 DEF Replaces, Supersedes, IsMSM, ep
  <1>7. CASE ~(IsMSM(p) /\ IsMSM(e.pkt))
    <2>1. ep = NoEpoch \/ e.msmEpoch = NoEpoch BY <1>3, <1>7 DEF EpochsTold
    <2>2. ~SameEpoch(e.n, n)' BY <1>1, <1>4, <1>7 DEF SameEpoch
    <2>3. e.n < n BY <1>1, <1>2
    <2> QED BY <1>1, <1>4, <2>1, <2>2, <2>3 DEF Replaces, Supersedes, ep
  <1> QED BY <1>6, <1>7

\* What scanPacket does to the queue and the packet on offer, in both of its cases.
LEMMA ScanEffect ==
  ASSUME PipeInv, NEW p \in Alphabet, scanPacket(p), NEW n, n = Len(in) + 1
  PROVE  LET new == Entry(q, n, p)
         IN  /\ in' = Append(in, p)
             /\ UNCHANGED <<cuts, ch, msg, written, wr, iCtx, qpc>>
             /\ q' \in [entries : SUBSET EntryType', msmEpoch : Nat] /\ Numbered(q'.entries, n)
             /\ q'.msmEpoch = IF p.kind = "end" THEN q.msmEpoch + 1 ELSE q.msmEpoch
             /\ \A e \in q'.entries : e = new \/ (e \in q.entries /\ ~Replaces(p, new.msmEpoch, e))
             /\ next' \in 0 .. n /\ Before(Offered', Entries')
             /\ n \in Offered' \cup Entries'
             /\ Offered' \cup Entries' \subseteq Offered \cup Entries \cup {n}
             /\ Offered \subseteq Offered' \cup Entries'
             /\ \A e \in q.entries : \/ e.n \in Offered' \cup Entries'
                                     \/ Replaces(p, new.msmEpoch, e) \/ n - e.n >= QueueMax
  <1> DEFINE r == enqueue(q, n, p)
             new == Entry(q, n, p)
             E == [n : 1 .. n, pkt : Alphabet, msmEpoch : Nat \cup {NoEpoch}]
  <1>1. /\ in' = Append(in, p) /\ UNCHANGED <<cuts, ch, msg, written, wr, iCtx, qpc>>
        /\ IF next = 0 THEN Offer(r) ELSE q' = r /\ UNCHANGED next
    BY DEF scanPacket, rdVars, gsVars, wrVars
  <1>2. PipeType BY DEF PipeInv
  <1>3. Len(in') = n /\ n \in Nat \ {0} /\ Len(in) = n - 1 BY <1>1, <1>2, HistoryGrows
  <1>4. E = EntryType' BY <1>3 DEF EntryType
  <1>5. Numbered(q.entries, n - 1) BY <1>2, <1>3 DEF PipeType
  <1>6. /\ r.msmEpoch = IF p.kind = "end" THEN q.msmEpoch + 1 ELSE q.msmEpoch
        /\ Numbered(r.entries, n)
        /\ new \in r.entries
        /\ \A e \in r.entries : e = new \/ (e \in q.entries /\ ~Replaces(p, new.msmEpoch, e))
        /\ \A e \in q.entries : e \in r.entries \/ Replaces(p, new.msmEpoch, e) \/ n - e.n >= QueueMax
    BY <1>3, <1>5, Enqueued
  <1>7. q.msmEpoch \in Nat /\ q.entries \subseteq E
    <2>1. q.msmEpoch \in Nat /\ q.entries \subseteq EntryType BY <1>2 DEF PipeType
    <2>2. EntryType \subseteq E
      <3>1. 1 .. Len(in) \subseteq 1 .. n BY <1>3
      <3> QED BY <3>1 DEF EntryType
    <2> QED BY <2>1, <2>2
  <1>8. new \in E /\ new.n = n BY <1>3, <1>7 DEF Entry
  <1>9. r \in [entries : SUBSET E, msmEpoch : Nat]
    <2>1. r = [entries |-> r.entries, msmEpoch |-> r.msmEpoch] BY DEF enqueue
    <2>2. r.msmEpoch \in Nat BY <1>6, <1>7
    <2>3. r.entries \subseteq E BY <1>6, <1>7, <1>8
    <2> HIDE DEF r, E
    <2> QED BY <2>1, <2>2, <2>3
  <1> HIDE DEF r, new, E
  <1>10. CASE next = 0
    <2>1. Offer(r) BY <1>1, <1>10
    <2>2. /\ q'.entries \subseteq r.entries /\ q'.msmEpoch = r.msmEpoch
          /\ q' \in [entries : SUBSET E, msmEpoch : Nat]
          /\ Numbered(q'.entries, n) /\ next' \in 0 .. n
          /\ Offered' \cup Entries' = {e.n : e \in r.entries}
          /\ Before(Offered', Entries')
      BY <1>3, <1>6, <1>9, <2>1, OfferEffect
    <2>3. Offered = {} BY <1>10 DEF Offered
    <2>4. {e.n : e \in r.entries} \subseteq Entries \cup {n} BY <1>6, <1>8 DEF Entries
    <2>5. n \in {e.n : e \in r.entries} BY <1>6, <1>8
    <2> QED BY <1>1, <1>4, <1>6, <2>2, <2>3, <2>4, <2>5 DEF new
  <1>11. CASE next # 0
    <2>1. q' = r /\ next' = next BY <1>1, <1>11
    <2>2. Offered' = Offered /\ Entries' = {e.n : e \in r.entries}
      BY <2>1 DEF Offered, Entries
    <2>3. next \in 0 .. n /\ next < n BY <1>2, <1>3 DEF PipeType
    <2>4. Entries' \subseteq Entries \cup {n} BY <1>6, <1>8, <2>2 DEF Entries
    <2>5. Before(Offered', Entries')
      <3>1. Before(Offered, Entries) BY DEF PipeInv, InOrder
      <3>2. Before(Offered, {n}) BY <2>3 DEF Offered, Before
      <3> QED BY <2>2, <2>4, <3>1, <3>2 DEF Before
    <2>6. n \in Entries' BY <1>6, <1>8, <2>2
    <2> QED BY <1>1, <1>4, <1>6, <1>9, <2>1, <2>2, <2>3, <2>4, <2>5, <2>6 DEF new
  <1> QED BY <1>10, <1>11

LEMMA StepScan ==
  ASSUME PipeInv, NEW p \in Alphabet, scanPacket(p)
  PROVE  PipeInv'
  <1> PICK n : n = Len(in) + 1 OBVIOUS
  <1> DEFINE new == Entry(q, n, p)
  <1>0. PipeType /\ MsgHeld /\ InOrder /\ EpochsTold /\ NoTornEpoch /\ Kept BY DEF PipeInv
  <1>1. /\ in' = Append(in, p)
        /\ UNCHANGED <<cuts, ch, msg, written, wr, iCtx, qpc>>
        /\ q' \in [entries : SUBSET EntryType', msmEpoch : Nat] /\ Numbered(q'.entries, n)
        /\ q'.msmEpoch = IF p.kind = "end" THEN q.msmEpoch + 1 ELSE q.msmEpoch
        /\ \A e \in q'.entries : e = new \/ (e \in q.entries /\ ~Replaces(p, new.msmEpoch, e))
        /\ next' \in 0 .. n /\ Before(Offered', Entries')
        /\ n \in Offered' \cup Entries'
        /\ Offered' \cup Entries' \subseteq Offered \cup Entries \cup {n}
        /\ Offered \subseteq Offered' \cup Entries'
        /\ \A e \in q.entries : \/ e.n \in Offered' \cup Entries'
                                \/ Replaces(p, new.msmEpoch, e) \/ n - e.n >= QueueMax
    BY ScanEffect
  <1>2. /\ Len(in') = n /\ Len(in) \in Nat /\ in' \in Seq(Alphabet)
        /\ in'[n] = p /\ \A k \in 1 .. Len(in) : in'[k] = in[k]
        /\ \A i, j \in 1 .. Len(in) : Supersedes(j, i)' <=> Supersedes(j, i)
    BY <1>0, <1>1, HistoryGrows
  <1>3. 1 .. n = 1 .. Len(in) \cup {n} /\ n \in Nat BY <1>2
  <1>4. /\ new.n = n /\ new.pkt = p /\ new.msmEpoch = IF IsMSM(p) THEN q.msmEpoch ELSE NoEpoch
    BY DEF Entry
  <1>5. \A e \in q.entries : Replaces(p, new.msmEpoch, e) <=> Supersedes(n, e.n)'
    BY <1>0, <1>1, ReplacedIsSuperseded
  <1> HIDE DEF new
  <1>6. \A e \in q.entries : e.n \in 1 .. Len(in) BY <1>0 DEF PipeType, Numbered
  <1>7. /\ Written' = Written /\ AtWriter' = AtWriter /\ InChannel' = InChannel
    BY <1>1 DEF Written, AtWriter, InChannel
  <1>8. Written \cup AtWriter \cup InChannel \cup Offered \cup Entries \subseteq 1 .. Len(in)
    <2>1. Written \subseteq 1 .. Len(in) BY <1>0 DEF Written, PipeType
    <2>2. AtWriter \cup Offered \subseteq 1 .. Len(in) BY <1>0, <1>2 DEF AtWriter, Offered, PipeType
    <2>3. InChannel \subseteq 1 .. Len(in)
      <3>1. CASE ch = <<>> BY <3>1 DEF InChannel
      <3>2. CASE \E x \in 1 .. Len(in) : ch = <<x>> BY <3>2 DEF InChannel
      <3> QED BY <1>0, <3>1, <3>2 DEF PipeType
    <2>4. Entries \subseteq 1 .. Len(in) BY <1>6 DEF Entries
    <2> QED BY <2>1, <2>2, <2>3, <2>4
  <1>9. PipeType'
    <2>1. cuts' \subseteq 0 .. n BY <1>0, <1>1, <1>2 DEF PipeType
    <2>2. msg' \in 0 .. n BY <1>0, <1>1, <1>2 DEF PipeType
    <2>3. ch' = <<>> \/ \E x \in 1 .. n : ch' = <<x>> BY <1>0, <1>1, <1>3 DEF PipeType
    <2>4. written' \in Seq(1 .. n) BY <1>0, <1>1, <1>3 DEF PipeType
    <2> QED BY <1>1, <1>2, <2>1, <2>2, <2>3, <2>4 DEF PipeType
  <1>10. MsgHeld' BY <1>0, <1>1 DEF MsgHeld
  <1>11. InOrder'
    <2>1. Increasing' BY <1>0, <1>1 DEF InOrder, Increasing
    <2>2. Before(1 .. Len(in), {n}) BY <1>2 DEF Before
    <2>3. \A A \in SUBSET (1 .. Len(in)) :
            Before(A, Offered \cup Entries) => Before(A, Offered' \cup Entries')
      BY <1>1, <2>2 DEF Before
    <2>4. Before(Written, Offered' \cup Entries') /\ Before(AtWriter, Offered' \cup Entries')
          /\ Before(InChannel, Offered' \cup Entries')
      BY <1>0, <1>8, <2>3 DEF InOrder, Before
    <2> QED BY <1>0, <1>1, <1>7, <2>1, <2>4 DEF InOrder, Before
  <1>12. EpochsTold'
    <2>0. q.msmEpoch \in Nat BY <1>0 DEF PipeType
    <2>1. ASSUME NEW e \in q'.entries, e = new
          PROVE  /\ e.pkt = in'[e.n]
                 /\ ~IsMSM(e.pkt) => e.msmEpoch = NoEpoch
                 /\ IsMSM(e.pkt) => /\ e.msmEpoch \in 0 .. q'.msmEpoch
                                    /\ Ended(e.n)' <=> e.msmEpoch # q'.msmEpoch
      <3>1. Ended(n)' <=> p.kind = "end"
        <4>1. \A c \in cuts : ~(n <= c) BY <1>0, <1>2 DEF PipeType
        <4>2. n .. n = {n} BY <1>3
        <4> QED BY <1>1, <1>2, <4>1, <4>2 DEF Ended
      <3>2. e.n = n BY <1>4, <2>1
      <3>3. Ended(e.n)' <=> Ended(n)' BY <3>2 DEF Ended
      <3> QED BY <1>1, <1>2, <1>4, <2>0, <2>1, <3>1, <3>2, <3>3
    <2>2. ASSUME NEW e \in q'.entries, e \in q.entries
          PROVE  /\ e.pkt = in'[e.n]
                 /\ ~IsMSM(e.pkt) => e.msmEpoch = NoEpoch
                 /\ IsMSM(e.pkt) => /\ e.msmEpoch \in 0 .. q'.msmEpoch
                                    /\ Ended(e.n)' <=> e.msmEpoch # q'.msmEpoch
      <3>1. e.n \in 1 .. Len(in) BY <1>6, <2>2
      <3>2. Ended(e.n)' <=> Ended(e.n) \/ p.kind = "end"
        <4>1. e.n .. n = e.n .. Len(in) \cup {n} BY <1>2, <3>1
        <4>2. \A k \in e.n .. Len(in) : in'[k] = in[k] BY <1>2, <3>1
        <4> QED BY <1>1, <1>2, <4>1, <4>2 DEF Ended
      <3>3. in'[e.n] = in[e.n] BY <1>2, <3>1
      <3> QED BY <1>0, <1>1, <2>0, <2>2, <3>2, <3>3 DEF EpochsTold
    <2> QED BY <1>1, <2>1, <2>2 DEF EpochsTold
  <1>13. NoTornEpoch'
    <2> SUFFICES ASSUME NEW i \in Entries', NEW j \in Entries' PROVE ~Supersedes(j, i)'
      BY DEF NoTornEpoch
    <2>1. PICK e \in q'.entries : i = e.n BY DEF Entries
    <2>2. PICK f \in q'.entries : j = f.n BY DEF Entries
    <2>3. CASE e \in q.entries /\ f \in q.entries
      <3>1. i \in Entries /\ j \in Entries BY <2>1, <2>2, <2>3 DEF Entries
      <3>2. i \in 1 .. Len(in) /\ j \in 1 .. Len(in) BY <1>8, <3>1
      <3> QED BY <1>0, <1>2, <3>1, <3>2 DEF NoTornEpoch
    <2>4. CASE e \in q.entries /\ f = new
      <3>1. j = n BY <1>4, <2>2, <2>4
      <3>3. e # new BY <1>2, <1>4, <1>6, <2>4
      <3>2. ~Replaces(p, new.msmEpoch, e) BY <1>1, <3>3
      <3>4. ~Supersedes(n, e.n)' BY <1>5, <2>4, <3>2
      <3> QED BY <2>1, <3>1, <3>4
    <2>5. CASE e = new
      <3>1. i = n /\ j \in 1 .. n BY <1>1, <1>4, <2>1, <2>2, <2>5 DEF Numbered
      <3>2. ~(i < j) BY <1>3, <3>1
      <3> QED BY <3>2 DEF Supersedes
    <2> QED BY <1>1, <2>3, <2>4, <2>5
  <1>14. Kept'
    <2> SUFFICES ASSUME ~Done', qpc' = "run", NEW i \in 1 .. n
                 PROVE  \/ i \in Written' \cup AtWriter' \cup InChannel' \cup Offered' \cup Entries'
                        \/ Justified(i)'
      BY <1>2 DEF Kept
    <2>1. ~Done /\ qpc = "run" BY <1>1 DEF Done
    <2>2. ASSUME NEW k \in 1 .. Len(in), Supersedes(k, i)', i \in 1 .. Len(in) PROVE Justified(i)'
      <3>1. k \in 1 .. Len(in') BY <1>2, <1>3
      <3> QED BY <2>2, <3>1 DEF Justified
    <2>3. CASE i = n BY <1>1, <2>3
    <2>4. CASE i \in 1 .. Len(in)
      <3>1. CASE Justified(i)
        <4>1. CASE \E k \in 1 .. Len(in) : Supersedes(k, i) BY <1>2, <2>2, <2>4, <4>1
        <4>2. CASE Len(in) - i >= QueueMax
          <5>1. n - i >= QueueMax BY <1>2, <2>4, <4>2, QueueMaxAssumption
          <5> QED BY <1>2, <5>1 DEF Justified
        <4> QED BY <3>1, <4>1, <4>2 DEF Justified
      <3>2. CASE i \in Written \cup AtWriter \cup InChannel \cup Offered BY <1>1, <1>7, <3>2
      <3>3. CASE i \in Entries
        <4>1. PICK e \in q.entries : i = e.n BY <3>3 DEF Entries
        <4>2. CASE Replaces(p, new.msmEpoch, e)
          <5>1. Supersedes(n, i)' BY <1>5, <4>1, <4>2
          <5>2. n \in 1 .. Len(in') BY <1>2, <1>3
          <5> QED BY <5>1, <5>2 DEF Justified
        <4>3. CASE n - e.n >= QueueMax BY <1>2, <4>1, <4>3 DEF Justified
        <4> QED BY <1>1, <4>1, <4>2, <4>3
      <3> QED BY <1>0, <2>1, <2>4, <3>1, <3>2, <3>3 DEF Kept
    <2> QED BY <1>3, <2>3, <2>4
  <1> QED BY <1>9, <1>10, <1>11, <1>12, <1>13, <1>14 DEF PipeInv

\* A step that receives nothing and reconnects nothing keeps what the history says.
LEMMA HistoryStays ==
  ASSUME in' = in, cuts' = cuts
  PROVE  /\ \A i : Ended(i)' <=> Ended(i)
         /\ \A i, j : Supersedes(j, i)' <=> Supersedes(j, i)
         /\ \A i : Justified(i)' <=> Justified(i)
  <1>1. \A i : Ended(i)' <=> Ended(i) BY DEF Ended
  <1>2. \A i, j : Supersedes(j, i)' <=> Supersedes(j, i) BY DEF Supersedes, SameEpoch
  <1>3. \A i : Justified(i)' <=> Justified(i) BY <1>2 DEF Justified
  <1> QED BY <1>1, <1>2, <1>3

LEMMA StepQueueSend ==
  ASSUME PipeInv, queueSend
  PROVE  PipeInv'
  <1>0. PipeType /\ MsgHeld /\ InOrder /\ EpochsTold /\ NoTornEpoch /\ Kept BY DEF PipeInv
  <1>1. /\ next # 0 /\ ch = <<>> /\ ch' = <<next>> /\ Offer(q)
        /\ UNCHANGED <<in, cuts, msg, written, wr, iCtx, qpc>>
    BY DEF queueSend, rdVars, gsVars, wrVars
  <1>2. Len(in) \in Nat BY <1>0 DEF PipeType
  <1>3. /\ q'.entries \subseteq q.entries /\ q'.msmEpoch = q.msmEpoch
        /\ q' \in [entries : SUBSET EntryType, msmEpoch : Nat]
        /\ Numbered(q'.entries, Len(in)) /\ next' \in 0 .. Len(in)
        /\ Offered' \cup Entries' = Entries /\ Before(Offered', Entries')
    BY <1>0, <1>1, <1>2, OfferEffect DEF PipeType, Entries
  <1>4. /\ Written' = Written /\ AtWriter' = AtWriter /\ InChannel = {} /\ InChannel' = Offered
    BY <1>1 DEF Written, AtWriter, InChannel, Offered
  <1>5. PipeType'
    <2>1. ch' = <<>> \/ \E x \in 1 .. Len(in) : ch' = <<x>> BY <1>0, <1>1, <1>2 DEF PipeType
    <2>2. EntryType' = EntryType BY <1>1 DEF EntryType
    <2> QED BY <1>0, <1>1, <1>3, <2>1, <2>2 DEF PipeType
  <1>6. MsgHeld' BY <1>0, <1>1 DEF MsgHeld
  <1>7. InOrder'
    <2>1. Increasing' BY <1>0, <1>1 DEF InOrder, Increasing
    <2> QED BY <1>0, <1>3, <1>4, <2>1 DEF InOrder, Before
  <1>8. EpochsTold' BY <1>0, <1>1, <1>3, HistoryStays DEF EpochsTold
  <1>9. NoTornEpoch'
    <2>1. Entries' \subseteq Entries BY <1>3
    <2> QED BY <1>0, <1>1, <2>1, HistoryStays DEF NoTornEpoch
  <1>10. Kept' BY <1>0, <1>1, <1>3, <1>4, HistoryStays DEF Kept, Done
  <1> QED BY <1>5, <1>6, <1>7, <1>8, <1>9, <1>10 DEF PipeInv

LEMMA StepWriter ==
  ASSUME PipeInv, take \/ writePacket \/ writeFails \/ writerExit
  PROVE  PipeInv'
  <1>0. PipeType /\ MsgHeld /\ InOrder /\ EpochsTold /\ NoTornEpoch /\ Kept BY DEF PipeInv
  <1>1. UNCHANGED <<in, cuts, q, next, qpc>> /\ (Done => Done')
    BY DEF take, writePacket, writeFails, writerExit, rdVars, gsVars, qVars, Done
  <1>2. /\ Offered' = Offered /\ Entries' = Entries /\ EntryType' = EntryType
    BY <1>1 DEF Offered, Entries, EntryType
  <1>3. EpochsTold'
    <2>1. \A i : Ended(i)' <=> Ended(i) BY <1>1, HistoryStays
    <2>2. q' = q /\ in' = in BY <1>1
    <2> QED BY <1>0, <2>1, <2>2 DEF EpochsTold
  <1>4. NoTornEpoch' BY <1>0, <1>1, <1>2, HistoryStays DEF NoTornEpoch
  <1>5. Len(in) \in Nat BY <1>0 DEF PipeType
  <1>6. CASE take
    <2>1. /\ wr = "recv" /\ ch # <<>> /\ msg' = ch[1] /\ ch' = <<>> /\ wr' = "lock"
          /\ UNCHANGED <<written, iCtx>>
      BY <1>6 DEF take, wrVars
    <2>2. PICK x \in 1 .. Len(in) : ch = <<x>> BY <1>0, <2>1 DEF PipeType
    <2>3. msg' = x /\ x # 0 BY <1>5, <2>1, <2>2
    <2>4. AtWriter = {} /\ AtWriter' = InChannel /\ InChannel' = {} /\ Written' = Written
      BY <1>0, <2>1, <2>2, <2>3 DEF MsgHeld, AtWriter, InChannel, Written
    <2>5. PipeType' BY <1>0, <1>1, <1>2, <1>5, <2>1, <2>3 DEF PipeType
    <2>6. MsgHeld' BY <2>1, <2>3 DEF MsgHeld
    <2>7. InOrder'
      <3>1. Increasing' BY <1>0, <2>1 DEF InOrder, Increasing
      <3> QED BY <1>0, <1>2, <2>4, <3>1 DEF InOrder, Before
    <2>8. Kept' BY <1>0, <1>1, <1>2, <2>1, <2>4, HistoryStays DEF Kept, Done
    <2> QED BY <1>3, <1>4, <2>5, <2>6, <2>7, <2>8 DEF PipeInv
  <1>7. CASE writePacket
    <2>1. /\ wr = "write" /\ wr' = "recv" /\ written' = Append(written, msg) /\ msg' = 0
          /\ UNCHANGED <<ch, iCtx>>
      BY <1>7 DEF writePacket
    <2>2. msg \in 1 .. Len(in) BY <1>0, <1>5, <2>1 DEF PipeType, MsgHeld
    <2>3. written \in Seq(1 .. Len(in)) BY <1>0 DEF PipeType
    <2>4. /\ written' \in Seq(1 .. Len(in)) /\ Len(written') = Len(written) + 1 /\ Len(written) \in Nat
          /\ written'[Len(written) + 1] = msg
          /\ \A k \in 1 .. Len(written) : written'[k] = written[k]
      BY <2>1, <2>2, <2>3
    <2>5. Written' = Written \cup {msg}
      <3>1. 1 .. Len(written') = 1 .. Len(written) \cup {Len(written) + 1} BY <2>4
      <3> QED BY <2>4, <3>1 DEF Written
    <2>6. AtWriter = {msg} /\ AtWriter' = {} /\ InChannel' = InChannel
      BY <2>1, <2>2 DEF AtWriter, InChannel
    <2>7. PipeType' BY <1>0, <1>1, <1>2, <2>1, <2>4 DEF PipeType
    <2>8. MsgHeld' BY <2>1 DEF MsgHeld
    <2>9. Increasing'
      <3>1. \A k \in 1 .. Len(written) : written[k] < msg
        BY <1>0, <2>6 DEF InOrder, Before, Written
      <3> SUFFICES ASSUME NEW i \in 1 .. Len(written'), NEW j \in 1 .. Len(written'), i < j
                   PROVE  written'[i] < written'[j]
        BY DEF Increasing
      <3>2. i \in 1 .. Len(written) BY <2>4
      <3>3. CASE j \in 1 .. Len(written) BY <1>0, <2>4, <3>2, <3>3 DEF InOrder, Increasing
      <3>4. CASE j = Len(written) + 1 BY <2>4, <3>1, <3>2, <3>4
      <3>5. j \in 1 .. Len(written) + 1 BY ONLY <2>4, j \in 1 .. Len(written')
      <3>6. Len(written) \in Nat BY <2>4
      <3> QED BY ONLY <3>3, <3>4, <3>5, <3>6
    <2>10. InOrder' BY <1>0, <1>2, <2>5, <2>6, <2>9 DEF InOrder, Before
    <2>11. Kept' BY <1>0, <1>1, <1>2, <2>1, <2>5, <2>6, HistoryStays DEF Kept, Done
    <2> QED BY <1>3, <1>4, <2>7, <2>8, <2>10, <2>11 DEF PipeInv
  <1>8. CASE writeFails \/ writerExit
    <2>1. /\ wr' = "exited" /\ msg' = 0 /\ UNCHANGED <<ch, written>>
          /\ Done' \/ msg = 0
      BY <1>0, <1>8 DEF writeFails, writerExit, wrVars, Done, MsgHeld
    <2>2. AtWriter' = {} /\ InChannel' = InChannel /\ Written' = Written
      BY <2>1 DEF AtWriter, InChannel, Written
    <2>3. PipeType' BY <1>0, <1>1, <1>2, <1>5, <2>1 DEF PipeType
    <2>4. MsgHeld' BY <2>1 DEF MsgHeld
    <2>5. InOrder'
      <3>1. Increasing' BY <1>0, <2>1 DEF InOrder, Increasing
      <3> QED BY <1>0, <1>2, <2>2, <3>1 DEF InOrder, Before
    <2>6. Kept'
      <3>1. CASE Done' BY <3>1 DEF Kept
      <3>2. CASE ~Done'
        <4>1. AtWriter = {} BY <2>1, <3>2 DEF AtWriter
        <4> QED BY <1>0, <1>1, <1>2, <2>2, <4>1, HistoryStays DEF Kept
      <3> QED BY <3>1, <3>2
    <2> QED BY <1>3, <1>4, <2>3, <2>4, <2>5, <2>6 DEF PipeInv
  <1> QED BY <1>6, <1>7, <1>8

LEMMA StepReconnect ==
  ASSUME PipeInv, markReconnect
  PROVE  PipeInv'
  <1>0. PipeType /\ MsgHeld /\ InOrder /\ EpochsTold /\ NoTornEpoch /\ Kept BY DEF PipeInv
  <1>1. /\ q' = reconnect(q) /\ cuts' = cuts \cup {Len(in)}
        /\ UNCHANGED <<in, next, ch, msg, written, wr, iCtx, qpc>>
    BY DEF markReconnect, gsVars, wrVars
  <1>2. Len(in) \in Nat /\ q.msmEpoch \in Nat BY <1>0 DEF PipeType
  <1>3. q'.entries = q.entries /\ q'.msmEpoch = q.msmEpoch + 1 BY <1>0, <1>1 DEF reconnect, PipeType
  <1>4. /\ Written' = Written /\ AtWriter' = AtWriter /\ InChannel' = InChannel
        /\ Offered' = Offered /\ Entries' = Entries /\ EntryType' = EntryType
    BY <1>1, <1>3 DEF Written, AtWriter, InChannel, Offered, Entries, EntryType
  <1>5. \A i, j \in 1 .. Len(in) : Supersedes(j, i)' <=> Supersedes(j, i)
    <2> TAKE i, j \in 1 .. Len(in)
    <2>1. ~(i <= Len(in) /\ Len(in) < j) BY <1>2
    <2>2. in' = in BY <1>1
    <2>3. \A c : ~(i <= c /\ c < j) \/ c # Len(in) BY <2>1
    <2>4. (\A c \in cuts' : ~(i <= c /\ c < j)) <=> \A c \in cuts : ~(i <= c /\ c < j)
      BY <1>1, <2>3
    <2>5. SameEpoch(i, j)' <=> SameEpoch(i, j) BY <2>2, <2>4 DEF SameEpoch
    <2> QED BY <2>2, <2>5 DEF Supersedes
  <1>6. PipeType'
    <2>3. q \in [entries : SUBSET EntryType, msmEpoch : Nat] /\ cuts \subseteq 0 .. Len(in)
      BY <1>0 DEF PipeType
    <2>4. q.msmEpoch + 1 \in Nat /\ Len(in) \in 0 .. Len(in) BY <1>2
    <2>1. q' \in [entries : SUBSET EntryType, msmEpoch : Nat]
      BY ONLY <1>1, <2>3, <2>4 DEF reconnect
    <2>2. cuts' \subseteq 0 .. Len(in) BY ONLY <1>1, <2>3, <2>4
    <2> QED BY <1>0, <1>1, <1>3, <1>4, <2>1, <2>2 DEF PipeType
  <1>7. MsgHeld' BY <1>0, <1>1 DEF MsgHeld
  <1>8. InOrder'
    <2>1. Increasing' BY <1>0, <1>1 DEF InOrder, Increasing
    <2> QED BY <1>0, <1>4, <2>1 DEF InOrder, Before
  <1>9. EpochsTold'
    <2> SUFFICES ASSUME NEW e \in q.entries
                 PROVE  /\ e.pkt = in[e.n]
                        /\ ~IsMSM(e.pkt) => e.msmEpoch = NoEpoch
                        /\ IsMSM(e.pkt) => /\ e.msmEpoch \in 0 .. q.msmEpoch + 1
                                           /\ Ended(e.n)' <=> e.msmEpoch # q.msmEpoch + 1
      BY <1>1, <1>3 DEF EpochsTold
    <2>1. e.n <= Len(in) BY <1>0 DEF PipeType, Numbered
    <2>2. Ended(e.n)' BY <1>1, <2>1 DEF Ended
    <2> QED BY <1>0, <1>2, <2>2 DEF EpochsTold
  <1>10. NoTornEpoch'
    <2>1. Entries \subseteq 1 .. Len(in) BY <1>0 DEF PipeType, Numbered, Entries
    <2> QED BY <1>0, <1>4, <1>5, <2>1 DEF NoTornEpoch
  <1>11. Kept'
    <2>1. \A i \in 1 .. Len(in) : Justified(i) => Justified(i)' BY <1>1, <1>5 DEF Justified
    <2> QED BY <1>0, <1>1, <1>4, <2>1 DEF Kept, Done
  <1> QED BY <1>6, <1>7, <1>8, <1>9, <1>10, <1>11 DEF PipeInv

LEMMA InitPipe == Init => PipeInv
  <1> SUFFICES ASSUME Init PROVE PipeInv OBVIOUS
  <1>1. /\ in = <<>> /\ q = [entries |-> {}, msmEpoch |-> 0] /\ next = 0 /\ ch = <<>> /\ wr = "recv"
        /\ msg = 0 /\ written = <<>> /\ cuts = {} /\ Len(in) = 0
    BY DEF Init, emptyQueue
  <1>2. Written = {} /\ AtWriter = {} /\ InChannel = {} /\ Offered = {} /\ Entries = {}
    BY <1>1 DEF Written, AtWriter, InChannel, Offered, Entries
  <1>3. PipeType
    <2>1. Numbered(q.entries, Len(in)) BY <1>1, FS_EmptySet, QueueMaxAssumption DEF Numbered
    <2> QED BY <1>1, <2>1 DEF PipeType
  <1>4. MsgHeld /\ EpochsTold /\ NoTornEpoch
    BY <1>1, <1>2 DEF MsgHeld, EpochsTold, NoTornEpoch
  <1>5. InOrder BY <1>1, <1>2 DEF InOrder, Increasing, Before
  <1>6. Kept BY <1>1 DEF Kept
  <1> QED BY <1>3, <1>4, <1>5, <1>6 DEF PipeInv

LEMMA StepPipe ==
  ASSUME PipeInv, [Next]_vars
  PROVE  PipeInv'
  <1> QED BY StepIdle, StepScan, StepQueueSend, StepWriter, StepReconnect
          DEF Next, PipelineStep, Idle

-----------------------------------------------------------------------------
(* The connections, the goroutines and the stalls. *)

\* What the properties of connections and stalls need of the types.
ControlType ==
  /\ iCtx \in {"live", "cancelled"} /\ run \in {"wait", "closing", "returned"}
  /\ conn \in 0 .. MaxConns /\ net \in [Conns -> {"none", "open", "closed"}]
  /\ gConn \in 0 .. conn /\ nTimeouts \in 0 .. maxGGASendTimeouts
  /\ connCh = <<>> \/ \E c \in 1 .. conn : connCh = <<c>>
  /\ stalls \in [Conns -> Nat] /\ stalled \subseteq Conns

\* A connection is open only while the reader is between its connect and its close.
OpenHeld ==
  /\ \A c \in Conns : net[c] = "open" => c = conn /\ rd \in {"setWriter", "scan"}
  /\ rd \in {"setWriter", "scan"} => conn # 0

PortUsed == port = "writer" <=> wr = "write"

RunWaits ==
  /\ run # "wait" => rd = "exited" /\ gs = "exited" /\ qpc = "exited" /\ wr = "exited"
  /\ run = "returned" => bc = "exited"

\* Nobody but the reader and the end of Run reports a state.
FailedLast == reported = "failed" => rd = "exited"

\* No upload to connection c has stalled yet.
Untried(c) == stalls[c] = 0 /\ c \notin stalled

\* nTimeouts counts the stalls of the connection that the sender has; one that waits
\* for the sender, in connCh or with the reader, has none.
StallsCounted ==
  /\ gConn # 0 => stalls[gConn] = nTimeouts /\ gConn \notin stalled
  /\ gs = "write" => gConn # 0
  /\ \A c \in Conns : c > conn => Untried(c)
  /\ \A c \in Conns : connCh = <<c>> => Untried(c) /\ c > gConn
  /\ rd = "setWriter" => Untried(conn) /\ gConn # conn /\ connCh # <<conn>>

IInv ==
  /\ ControlType /\ OpenHeld /\ PortUsed /\ RunWaits /\ FailedLast
  /\ StallsCounted /\ StallsTolerated

LEMMA InitIInv == Init => IInv
  <1> SUFFICES ASSUME Init PROVE IInv OBVIOUS
  <1> USE ParamsAssumption
  <1>1. ControlType BY DEF Init, ControlType, Conns
  <1>2. OpenHeld /\ PortUsed /\ RunWaits /\ FailedLast
    BY DEF Init, OpenHeld, PortUsed, RunWaits, FailedLast
  <1>3. StallsCounted /\ StallsTolerated
    BY DEF Init, StallsCounted, Untried, StallsTolerated, Conns
  <1> QED BY <1>1, <1>2, <1>3 DEF IInv

-----------------------------------------------------------------------------
(* The control state of the goroutines, from all the steps. *)

LEMMA ControlFrame ==
  ASSUME Next
  PROVE  /\ PortUsed => PortUsed'
         /\ RunWaits => RunWaits'
         /\ FailedLast /\ RunWaits => FailedLast'
         /\ reported = "failed" /\ FailedLast => reported' = "failed"
  <1> USE DEF PortUsed, RunWaits, FailedLast, rdVars, gsVars, qVars, wrVars
  <1>1. CASE Cancel \/ connectFails \/ readEnds \/ fix \/ FeedEnds \/ uploadFails \/ uploadTimesOut
    BY <1>1 DEF Cancel, connectFails, readEnds, fix, FeedEnds, uploadFails, uploadTimesOut, DropConn
  <1>2. CASE writeFails \/ \E p \in Alphabet : scanPacket(p)
    BY <1>2 DEF writeFails, scanPacket
  <1>3. CASE SenderStep
    BY <1>3 DEF SenderStep, seeFeedEnd, takeConn, tick, senderCancelled, uploadOK, uploadFails
  <1>4. CASE OtherReturns \/ waitReady \/ connects \/ readerCancelled \/ setWriter \/ closeOnCancel
    BY <1>4 DEF OtherReturns, waitReady, connects, readerCancelled, setWriter, closeOnCancel
  <1>5. CASE markReconnect \/ backoffEnds \/ bcastExit \/ queueSend \/ queueExit
    BY <1>5 DEF markReconnect, backoffEnds, bcastExit, queueSend, queueExit
  <1>6. CASE take \/ lockPort \/ writePacket \/ writerExit \/ runClose \/ runReturn
    BY <1>6 DEF take, lockPort, writePacket, writerExit, runClose, runReturn
  <1> QED BY <1>1, <1>2, <1>3, <1>4, <1>5, <1>6 DEF Next, SenderStep, PipelineStep
-----------------------------------------------------------------------------
(* What the steps that change the connections or the stalls do. *)

ctlVars == <<conn, net, gConn, nTimeouts, connCh, stalls, stalled>>

\* The other steps leave them alone.
Elsewhere ==
  \/ Cancel \/ fix \/ FeedEnds \/ writeFails \/ (\E p \in Alphabet : scanPacket(p))
  \/ seeFeedEnd \/ tick \/ senderCancelled
  \/ OtherReturns \/ waitReady \/ readerCancelled \/ markReconnect \/ backoffEnds
  \/ bcastExit \/ queueSend \/ queueExit \/ take \/ lockPort \/ writePacket \/ writerExit
  \/ runClose \/ runReturn


LEMMA ElsewhereFrame ==
  ASSUME Elsewhere, ControlType
  PROVE  /\ UNCHANGED ctlVars /\ iCtx' \in {"live", "cancelled"}
         /\ run' \in {"wait", "closing", "returned"}
         /\ rd' \in {"setWriter", "scan"} => rd \in {"setWriter", "scan"}
         /\ rd \in {"setWriter", "scan"} => rd' = rd
         /\ rd' = "setWriter" => rd = "setWriter"
         /\ gs' = "write" => gs = "write" \/ gConn # 0
  <1> USE DEF ctlVars, rdVars, gsVars, qVars, wrVars, ControlType
  <1>1. CASE Cancel \/ fix \/ FeedEnds \/ writeFails \/ \E p \in Alphabet : scanPacket(p)
    BY <1>1 DEF Cancel, fix, FeedEnds, writeFails, scanPacket
  <1>2. CASE seeFeedEnd \/ tick \/ senderCancelled \/ OtherReturns \/ waitReady
    BY <1>2 DEF seeFeedEnd, tick, senderCancelled, OtherReturns, waitReady
  <1>3. CASE readerCancelled \/ markReconnect \/ backoffEnds \/ bcastExit \/ queueSend \/ queueExit
    BY <1>3 DEF readerCancelled, markReconnect, backoffEnds, bcastExit, queueSend, queueExit
  <1>4. CASE take \/ lockPort \/ writePacket \/ writerExit \/ runClose \/ runReturn
    BY <1>4 DEF take, lockPort, writePacket, writerExit, runClose, runReturn
  <1> QED BY <1>1, <1>2, <1>3, <1>4 DEF Elsewhere

\* The invariants of the connections and of the stalls.
ConnInv == ControlType /\ OpenHeld /\ StallsCounted /\ StallsTolerated

LEMMA StepElsewhere ==
  ASSUME ConnInv, Elsewhere
  PROVE  ConnInv'
  <1> USE DEF ConnInv
  <1>1. UNCHANGED ctlVars BY ElsewhereFrame
  <1>2. ControlType' BY ElsewhereFrame DEF ControlType, ctlVars
  <1>3. OpenHeld' BY ElsewhereFrame DEF OpenHeld, ctlVars
  <1>4. StallsTolerated' BY <1>1 DEF StallsTolerated, ctlVars
  <1>5. StallsCounted' BY ElsewhereFrame DEF StallsCounted, Untried, ctlVars
  <1> QED BY <1>2, <1>3, <1>4, <1>5

LEMMA StepReader ==
  ASSUME ConnInv, connects \/ connectFails \/ setWriter \/ closeOnCancel \/ readEnds
  PROVE  ConnInv'
  <1> USE ParamsAssumption DEF ConnInv, rdVars, gsVars, qVars, wrVars, Conns, Untried
  <1>1. CASE connects
    <2>1. ControlType' BY <1>1 DEF connects, ControlType
    <2>2. OpenHeld' BY <1>1 DEF connects, ControlType, OpenHeld
    <2>5. connCh # <<conn + 1>>
      <3> SUFFICES ASSUME connCh = <<conn + 1>> PROVE FALSE OBVIOUS
      <3>1. PICK c \in 1 .. conn : connCh = <<c>> BY DEF ControlType
      <3>2. connCh[1] = c /\ connCh[1] = conn + 1 BY <3>1
      <3> QED BY <3>2 DEF ControlType
    <2>3. StallsCounted' BY <1>1, <2>5 DEF connects, ControlType, StallsCounted
    <2>4. StallsTolerated' BY <1>1 DEF connects, StallsTolerated
    <2> QED BY <2>1, <2>2, <2>3, <2>4
  <1>2. CASE connectFails
    <2>1. ControlType' BY <1>2 DEF connectFails, ControlType
    <2>2. OpenHeld' BY <1>2 DEF connectFails, ControlType, OpenHeld
    <2>3. StallsCounted' BY <1>2 DEF connectFails, ControlType, StallsCounted
    <2>4. StallsTolerated' BY <1>2 DEF connectFails, StallsTolerated
    <2> QED BY <2>1, <2>2, <2>3, <2>4
  <1>3. CASE setWriter
    <2>1. ControlType' BY <1>3 DEF setWriter, ControlType, OpenHeld
    <2>2. OpenHeld' BY <1>3 DEF setWriter, ControlType, OpenHeld
    <2>3. StallsCounted' BY <1>3 DEF setWriter, ControlType, StallsCounted
    <2>4. StallsTolerated' BY <1>3 DEF setWriter, StallsTolerated
    <2> QED BY <2>1, <2>2, <2>3, <2>4
  <1>4. CASE closeOnCancel \/ readEnds
    <2>1. ControlType' BY <1>4 DEF closeOnCancel, readEnds, ControlType
    <2>2. OpenHeld' BY <1>4 DEF closeOnCancel, readEnds, ControlType, OpenHeld
    <2>3. StallsCounted' BY <1>4 DEF closeOnCancel, readEnds, StallsCounted
    <2>4. StallsTolerated' BY <1>4 DEF closeOnCancel, readEnds, StallsTolerated
    <2> QED BY <2>1, <2>2, <2>3, <2>4
  <1> QED BY <1>1, <1>2, <1>3, <1>4

LEMMA StepSender ==
  ASSUME ConnInv, takeConn \/ uploadOK \/ uploadFails \/ uploadTimesOut
  PROVE  ConnInv'
  <1> USE ParamsAssumption DEF ConnInv, rdVars, gsVars, qVars, wrVars, Conns, Untried
  <1>1. CASE takeConn
    <2>1. ControlType' BY <1>1 DEF takeConn, ControlType
    <2>2. OpenHeld' BY <1>1 DEF takeConn, OpenHeld
    <2>3. StallsCounted' BY <1>1 DEF takeConn, ControlType, StallsCounted
    <2>4. StallsTolerated' BY <1>1 DEF takeConn, StallsTolerated
    <2> QED BY <2>1, <2>2, <2>3, <2>4
  <1>2. CASE uploadOK
    <2>1. ControlType'
      <3>1. gConn \in Conns BY <1>2 DEF uploadOK, ControlType, StallsCounted
      <3>2. /\ iCtx' \in {"live", "cancelled"} /\ run' \in {"wait", "closing", "returned"}
            /\ conn' \in 0 .. MaxConns /\ UNCHANGED connCh
            /\ gConn' \in 0 .. conn' /\ nTimeouts' \in 0 .. maxGGASendTimeouts
        BY <1>2 DEF uploadOK, ControlType
      <3>3. net' \in [Conns -> {"none", "open", "closed"}] BY <1>2 DEF uploadOK, ControlType
      <3>4. stalls' \in [Conns -> Nat] /\ stalled' \subseteq Conns
        BY <1>2, <3>1 DEF uploadOK, ControlType
      <3> QED BY <1>2, <3>2, <3>3, <3>4 DEF uploadOK, ControlType
    <2>2. OpenHeld' BY <1>2 DEF uploadOK, OpenHeld
    <2>3. StallsCounted' BY <1>2 DEF uploadOK, ControlType, StallsCounted
    <2>4. StallsTolerated' BY <1>2 DEF uploadOK, ControlType, StallsTolerated, StallsCounted
    <2> QED BY <2>1, <2>2, <2>3, <2>4
  <1>3. CASE uploadFails
    <2>1. ControlType'
      <3>1. gConn \in Conns BY <1>3 DEF uploadFails, ControlType, StallsCounted
      <3>2. /\ iCtx' \in {"live", "cancelled"} /\ run' \in {"wait", "closing", "returned"}
            /\ conn' \in 0 .. MaxConns /\ UNCHANGED connCh
            /\ gConn' \in 0 .. conn' /\ nTimeouts' \in 0 .. maxGGASendTimeouts
        BY <1>3 DEF uploadFails, DropConn, ControlType
      <3>3. net' \in [Conns -> {"none", "open", "closed"}] BY <1>3 DEF uploadFails, DropConn, ControlType
      <3>4. stalls' \in [Conns -> Nat] /\ stalled' \subseteq Conns
        BY <1>3, <3>1 DEF uploadFails, DropConn, ControlType
      <3> QED BY <1>3, <3>2, <3>3, <3>4 DEF uploadFails, ControlType
    <2>2. OpenHeld' BY <1>3 DEF uploadFails, DropConn, ControlType, OpenHeld
    <2>3. StallsCounted' BY <1>3 DEF uploadFails, DropConn, ControlType, StallsCounted
    <2>4. StallsTolerated' BY <1>3 DEF uploadFails, StallsTolerated
    <2> QED BY <2>1, <2>2, <2>3, <2>4
  <1>4. CASE uploadTimesOut
    <2>1. ControlType'
      <3>1. gConn \in Conns BY <1>4 DEF uploadTimesOut, ControlType, StallsCounted
      <3>2. /\ iCtx' \in {"live", "cancelled"} /\ run' \in {"wait", "closing", "returned"}
            /\ conn' \in 0 .. MaxConns /\ UNCHANGED connCh
            /\ gConn' \in 0 .. conn' /\ nTimeouts' \in 0 .. maxGGASendTimeouts
        BY <1>4 DEF uploadTimesOut, DropConn, ControlType
      <3>3. net' \in [Conns -> {"none", "open", "closed"}] BY <1>4 DEF uploadTimesOut, DropConn, ControlType
      <3>5. stalls[gConn] + 1 \in Nat BY <3>1 DEF ControlType
      <3>6. stalls' = [stalls EXCEPT ![gConn] = stalls[gConn] + 1] BY <1>4 DEF uploadTimesOut
      <3>7. stalled' \subseteq Conns BY <1>4, <3>1 DEF uploadTimesOut, ControlType
      <3>4. stalls' \in [Conns -> Nat] /\ stalled' \subseteq Conns
        BY <3>5, <3>6, <3>7 DEF ControlType
      <3> QED BY <1>4, <3>2, <3>3, <3>4 DEF uploadTimesOut, ControlType
    <2>2. OpenHeld' BY <1>4 DEF uploadTimesOut, DropConn, ControlType, OpenHeld
    <2>3. StallsCounted' BY <1>4 DEF uploadTimesOut, DropConn, ControlType, StallsCounted
    <2>4. StallsTolerated'
      BY <1>4 DEF uploadTimesOut, DropConn, ControlType, StallsTolerated, StallsCounted
    <2> QED BY <2>1, <2>2, <2>3, <2>4
  <1> QED BY <1>1, <1>2, <1>3, <1>4

LEMMA StepIInv ==
  ASSUME IInv, [Next]_vars
  PROVE  IInv'
  <1>1. CASE UNCHANGED vars
    BY <1>1 DEF IInv, ControlType, OpenHeld, PortUsed, RunWaits, FailedLast, StallsCounted, Untried,
                StallsTolerated, vars, rdVars, gsVars, qVars, wrVars
  <1>2. CASE Next
    <2>1. (PortUsed /\ RunWaits /\ FailedLast)' BY <1>2, ControlFrame DEF IInv
    <2>2. ConnInv BY DEF IInv, ConnInv
    <2>3. ConnInv'
      BY <1>2, <2>2, StepElsewhere, StepReader, StepSender
         DEF Next, SenderStep, PipelineStep, Elsewhere
    <2> QED BY <2>1, <2>3 DEF IInv, ConnInv
  <1> QED BY <1>1, <1>2

THEOREM Invariance == Spec => []IInv
  <1> QED BY InitIInv, StepIInv, PTL DEF Spec

\* An upload that stalls is given up after maxGGASendTimeouts timeouts and one more, and
\* the connection that replaces it starts with a count of its own.
THEOREM StallsAreTolerated == Spec => []StallsTolerated
  <1>1. IInv => StallsTolerated BY DEF IInv
  <1> QED BY <1>1, Invariance, PTL

\* When Run has returned, no connection is open, not even one that was handed to a
\* sender that was already gone, the goroutines have ended and the port is free.
THEOREM NothingIsLeft == Spec => []NothingLeft
  <1>1. IInv => NothingLeft
    BY DEF IInv, RunWaits, OpenHeld, PortUsed, NothingLeft
  <1> QED BY <1>1, Invariance, PTL

\* Failed is terminal: neither the reader nor Run reports another state after it.
THEOREM FailedIsFinal == Spec => FailedIsTerminal
  <1>1. IInv /\ [Next]_vars => [reported = "failed" => reported' = "failed"]_reported
    BY ControlFrame DEF IInv, vars
  <1> QED BY <1>1, Invariance, PTL DEF Spec, FailedIsTerminal

-----------------------------------------------------------------------------
(* The type invariant, and what waits and was written. *)

ScalarType ==
  /\ mode \in Modes /\ bc \in {"run", "exited"}
  /\ reported \in {"none", "connecting", "connected", "reconnecting", "failed"}
  /\ rd \in {"waitReady", "connect", "setWriter", "scan", "mark", "backoff", "exited"}
  /\ {ready, done} \subseteq BOOLEAN /\ feed \in {"open", "ended", "nil"}
  /\ gs \in {"select", "write", "exited"} /\ qpc \in {"run", "exited"}
  /\ wr \in {"recv", "lock", "write", "exited"}
  /\ port \in {"free", "writer", "other"} /\ writeErr \in BOOLEAN

LEMMA ScalarStep ==
  ASSUME ScalarType, [Next]_vars
  PROVE  ScalarType'
  <1> USE DEF ScalarType, rdVars, gsVars, qVars, wrVars
  <1>1. CASE Cancel \/ connectFails \/ readEnds \/ fix \/ FeedEnds \/ uploadFails \/ uploadTimesOut
    BY <1>1 DEF Cancel, connectFails, readEnds, fix, FeedEnds, uploadFails, uploadTimesOut
  <1>2. CASE writeFails \/ \E p \in Alphabet : scanPacket(p)
    BY <1>2 DEF writeFails, scanPacket
  <1>3. CASE SenderStep
    BY <1>3 DEF SenderStep, seeFeedEnd, takeConn, tick, senderCancelled, uploadOK, uploadFails
  <1>4. CASE OtherReturns \/ waitReady \/ connects \/ readerCancelled \/ setWriter \/ closeOnCancel
    BY <1>4 DEF OtherReturns, waitReady, connects, readerCancelled, setWriter, closeOnCancel
  <1>5. CASE markReconnect \/ backoffEnds \/ bcastExit \/ queueSend \/ queueExit
    BY <1>5 DEF markReconnect, backoffEnds, bcastExit, queueSend, queueExit
  <1>6. CASE take \/ lockPort \/ writePacket \/ writerExit \/ runClose \/ runReturn
    BY <1>6 DEF take, lockPort, writePacket, writerExit, runClose, runReturn
  <1>7. CASE UNCHANGED vars BY <1>7 DEF vars
  <1> QED BY <1>1, <1>2, <1>3, <1>4, <1>5, <1>6, <1>7 DEF Next, PipelineStep

\* The type invariant, for every alphabet and every bound.
THEOREM TypeCorrect == Spec => []TypeOK
  <1>1. Init => ScalarType BY ParamsAssumption DEF Init, ScalarType
  <1>2. IInv /\ PipeInv /\ ScalarType => TypeOK
    <2> SUFFICES ASSUME IInv, PipeInv, ScalarType PROVE TypeOK OBVIOUS
    <2>1. ControlType /\ PipeType BY DEF IInv, PipeInv
    <2>2. Len(connCh) <= 1 /\ \A i \in 1 .. Len(connCh) : connCh[i] \in 1 .. conn
      <3>1. CASE connCh = <<>> BY <3>1
      <3>2. CASE \E c \in 1 .. conn : connCh = <<c>> BY <3>2
      <3> QED BY <2>1, <3>1, <3>2 DEF ControlType
    <2>3. Len(ch) <= 1 /\ \A i \in 1 .. Len(ch) : ch[i] \in 1 .. Len(in)
      <3>1. CASE ch = <<>> BY <3>1
      <3>2. CASE \E x \in 1 .. Len(in) : ch = <<x>> BY <3>2
      <3> QED BY <2>1, <3>1, <3>2 DEF PipeType
    <2>4. Cardinality(q.entries) <= QueueMax /\ \A e \in q.entries : e.n \in 1 .. Len(in)
      BY <2>1 DEF PipeType, Numbered
    <2> QED BY <2>1, <2>2, <2>3, <2>4 DEF TypeOK, ControlType, PipeType, ScalarType
  <1>3. Spec => []ScalarType BY <1>1, ScalarStep, PTL DEF Spec
  <1>4. Spec => []PipeInv BY InitPipe, StepPipe, PTL DEF Spec
  <1> QED BY <1>2, <1>3, <1>4, Invariance, PTL

\* The receiver gets the corrections in order and at most once, through the broadcast,
\* the queue, its channel and the writer; what it misses has a newer packet of another
\* epoch or QueueMax newer ones; and no epoch in the queue is torn by a reconnect.
THEOREM CorrectionsAreRight == Spec => []CorrectionsRight
  <1>1. PipeInv => InOrderAndKept /\ NoTornEpoch
    <2> SUFFICES ASSUME PipeInv PROVE InOrderAndKept BY DEF PipeInv
    <2>1. \A i, j \in 1 .. Len(written) : i < j => written[i] < written[j]
      BY DEF PipeInv, InOrder, Increasing
    <2>2. Waiting = Entries \cup InChannel \cup Offered \cup AtWriter
      BY DEF Waiting, InChannel, Offered, AtWriter
    <2>3. {written[k] : k \in 1 .. Len(written)} = Written BY DEF Written
    <2> QED BY <2>1, <2>2, <2>3 DEF PipeInv, InOrderAndKept, Kept, Justified
  <1>2. Spec => []PipeInv BY InitPipe, StepPipe, PTL DEF Spec
  <1> QED BY <1>1, <1>2, TypeCorrect, PTL DEF CorrectionsRight
=============================================================================
