----------------------------- MODULE PushProofs -----------------------------
(***************************************************************************)
(* What is pushed arrives in order and at most once, and what is missing   *)
(* was replaced, pushed out or about to land on a broken connection, of    *)
(* which there are three packets at most for each: for every alphabet of   *)
(* packets, queue length, and number of packets and failures.  The lemmas  *)
(* about the pruning queue and the steps that only receive are those of    *)
(* PullProofs, for the other direction's variables.                        *)
(***************************************************************************)
EXTENDS Push, FiniteSetTheorems, SequenceTheorems, WellFoundedInduction, TLAPS

-----------------------------------------------------------------------------
(* The pruning queue. *)

\* The entry with the least number is there.
LEMMA OldestIsLeast ==
  ASSUME NEW es, es # {}, \A e \in es : e.n \in Nat
  PROVE  oldest(es) \in es /\ \A f \in es : oldest(es).n <= f.n
  <1> DEFINE N == {e.n : e \in es}
             Less == OpToRel(<, Nat)
  <1>1. N \subseteq Nat /\ N # {} OBVIOUS
  <1> HIDE DEF N
  <1>2. IsWellFoundedOn(Less, Nat) BY NatLessThanWellFounded
  <1> HIDE DEF Less
  <1>3. \E x \in N : \A y \in N : ~(<<y, x>> \in Less) BY ONLY <1>1, <1>2, WFMin
  <1>4. PICK x \in N : \A y \in N : ~(<<y, x>> \in Less) BY <1>3
  <1>5. \A y \in N : x <= y
    <2> TAKE y \in N
    <2>1. x \in Nat /\ y \in Nat BY <1>1, <1>4
    <2>2. ~(<<y, x>> \in Less) BY <1>4
    <2>3. ~(y < x) BY <2>1, <2>2 DEF Less, OpToRel
    <2> QED BY <2>1, <2>3
  <1>6. \E e \in es : \A f \in es : e.n <= f.n BY <1>4, <1>5 DEF N
  <1> QED BY <1>6, Zenon DEF oldest

Entry(pq, n, p) == [n |-> n, pkt |-> p, msmEpoch |-> IF IsMSM(p) THEN pq.msmEpoch ELSE NoEpoch]

\* A queue of numbered entries.
Numbered(es, n) ==
  /\ IsFiniteSet(es) /\ Cardinality(es) <= QueueMax
  /\ \A e \in es : e.n \in 1 .. n
  /\ \A e, f \in es : e.n = f.n => e = f

\* What enqueue leaves out has been replaced or is QueueMax packets old.
LEMMA Enqueued ==
  ASSUME NEW pq, NEW n \in Nat \ {0}, NEW p, Numbered(pq.entries, n - 1)
  PROVE  LET r   == enqueue(pq, n, p)
             new == Entry(pq, n, p)
         IN  /\ r.msmEpoch = IF p.kind = "end" THEN pq.msmEpoch + 1 ELSE pq.msmEpoch
             /\ Numbered(r.entries, n)
             /\ new \in r.entries
             /\ \A e \in r.entries : e = new \/ (e \in pq.entries /\ ~Replaces(p, new.msmEpoch, e))
             /\ \A e \in pq.entries : e \in r.entries \/ Replaces(p, new.msmEpoch, e) \/ n - e.n >= QueueMax
  <1> USE QueueMaxAssumption
  <1> DEFINE new  == Entry(pq, n, p)
             kept == {e \in pq.entries : ~Replaces(p, new.msmEpoch, e)}
             all  == kept \cup {new}
             r    == enqueue(pq, n, p)
  <1>1. /\ r.entries = dropOldest(all)
        /\ r.msmEpoch = IF p.kind = "end" THEN pq.msmEpoch + 1 ELSE pq.msmEpoch
    BY Zenon DEF enqueue, Entry
  <1>2. new.n = n BY DEF Entry
  <1>3. \A e \in pq.entries : e.n \in 1 .. n - 1 BY DEF Numbered
  <1>4. new \notin pq.entries BY <1>2, <1>3
  <1>5. IsFiniteSet(kept) /\ Cardinality(kept) <= Cardinality(pq.entries)
    <2>1. kept \in SUBSET pq.entries OBVIOUS
    <2>2. IsFiniteSet(pq.entries) BY DEF Numbered
    <2> QED BY ONLY <2>1, <2>2, FS_Subset
  <1> HIDE DEF new
  <1>6. IsFiniteSet(all) /\ Cardinality(all) = Cardinality(kept) + 1
    <2>1. new \notin kept BY <1>4
    <2> HIDE DEF kept
    <2> QED BY <1>5, <2>1, FS_AddElement
  <1>7. Cardinality(kept) \in Nat /\ Cardinality(pq.entries) \in Nat /\ Cardinality(pq.entries) <= QueueMax
    BY <1>5, FS_CardinalityType DEF Numbered
  <1>8. \A e \in all : e.n \in 1 .. n BY <1>2, <1>3
  <1>9. \A e, f \in all : e.n = f.n => e = f BY <1>2, <1>3 DEF Numbered
  <1>10. CASE Cardinality(all) <= QueueMax
    <2>1. r.entries = all BY <1>1, <1>10 DEF dropOldest
    <2>2. Numbered(r.entries, n) BY <1>6, <1>8, <1>9, <1>10, <2>1 DEF Numbered
    <2> HIDE DEF r
    <2> QED BY <1>1, <2>1, <2>2 DEF r, new
  <1>11. CASE ~(Cardinality(all) <= QueueMax)
    <2> DEFINE o == oldest(all)
               rest == all \ {o}
    <2>1. r.entries = rest BY <1>1, <1>11 DEF dropOldest
    <2>2. o \in all /\ \A f \in all : o.n <= f.n
      <3>1. all # {} /\ \A e \in all : e.n \in Nat BY <1>8
      <3> HIDE DEF all
      <3> QED BY <3>1, OldestIsLeast
    <2> HIDE DEF o
    <2>3. IsFiniteSet(rest) /\ Cardinality(rest) = QueueMax
      <3>1. Cardinality(all) = QueueMax + 1 BY <1>5, <1>6, <1>7, <1>11
      <3> HIDE DEF all
      <3>2. IsFiniteSet(rest) /\ Cardinality(rest) = Cardinality(all) - 1 BY <1>6, <2>2, FS_RemoveElement
      <3> QED BY <3>1, <3>2
    <2>4. \A e \in rest : e.n \in o.n + 1 .. n
      <3> TAKE e \in rest
      <3>1. e \in all /\ e # o OBVIOUS
      <3>2. e.n \in 1 .. n /\ o.n \in 1 .. n /\ o.n <= e.n /\ o.n # e.n
        BY <1>8, <1>9, <2>2, <3>1
      <3> HIDE DEF all, rest
      <3> QED BY <3>2
    <2>5. n - o.n >= QueueMax
      <3> SUFFICES ASSUME ~(n - o.n >= QueueMax) PROVE FALSE OBVIOUS
      <3>0. o.n \in 1 .. n BY <1>8, <2>2
      <3> DEFINE T == o.n + 1 .. n
                 f == [e \in rest |-> e.n]
      <3>1. IsFiniteSet(T) /\ Cardinality(T) < QueueMax
        <4>1. o.n + 1 \in Int /\ n \in Int BY <3>0
        <4>2. IsFiniteSet(T) /\ Cardinality(T) = IF o.n + 1 > n THEN 0 ELSE n - (o.n + 1) + 1
          BY ONLY <4>1, FS_Interval
        <4> QED BY <3>0, <4>2
      <3>2. f \in [rest -> T] BY <2>4
      <3>3. \A x, y \in rest : f[x] = f[y] => x = y BY <1>9
      <3> HIDE DEF f, T, rest
      <3>4. \E x, y \in rest : x # y /\ f[x] = f[y]
        BY <2>3, <3>1, <3>2, FS_PigeonHole
      <3> QED BY <3>3, <3>4
    <2>6. o # new
      <3> SUFFICES ASSUME o = new PROVE FALSE OBVIOUS
      <3>1. o.n = n BY <1>2
      <3> QED BY <2>5, <3>1
    <2>7. Numbered(r.entries, n) BY <1>8, <1>9, <2>1, <2>3 DEF Numbered
    <2> HIDE DEF r
    <2> QED BY <1>1, <2>1, <2>2, <2>5, <2>6, <2>7 DEF r, new
  <1> QED BY <1>10, <1>11

\* A packet that leaves the queue is older than all that stay.
LEMMA Dequeued ==
  ASSUME NEW E, NEW pq \in [entries : SUBSET E, msmEpoch : Nat], NEW n \in Nat,
         Numbered(pq.entries, n), pq.entries # {}
  PROVE  /\ \E o \in pq.entries : o.n = first(pq) /\ dequeue(pq).entries = pq.entries \ {o}
         /\ dequeue(pq).msmEpoch = pq.msmEpoch
         /\ Numbered(dequeue(pq).entries, n)
         /\ first(pq) \in 1 .. n
         /\ \A e \in dequeue(pq).entries : first(pq) < e.n
  <1> DEFINE o == oldest(pq.entries)
  <1>0. \A e \in pq.entries : e.n \in 1 .. n BY DEF Numbered
  <1>1. o \in pq.entries /\ \A f \in pq.entries : o.n <= f.n
    <2>1. \A e \in pq.entries : e.n \in Nat BY <1>0
    <2> QED BY <2>1, OldestIsLeast
  <1> HIDE DEF o
  <1>2. first(pq) = o.n BY DEF first, o
  <1>3. dequeue(pq).entries = pq.entries \ {o} /\ dequeue(pq).msmEpoch = pq.msmEpoch
    BY DEF dequeue, o
  <1>4. IsFiniteSet(pq.entries \ {o}) /\ Cardinality(pq.entries \ {o}) = Cardinality(pq.entries) - 1
    BY <1>1, FS_RemoveElement DEF Numbered
  <1>5. Cardinality(pq.entries) \in Nat BY FS_CardinalityType DEF Numbered
  <1>6. Cardinality(pq.entries \ {o}) <= QueueMax BY <1>4, <1>5, QueueMaxAssumption DEF Numbered
  <1>7. Numbered(dequeue(pq).entries, n) BY <1>3, <1>4, <1>6 DEF Numbered
  <1>8. \A e \in pq.entries \ {o} : o.n < e.n BY <1>0, <1>1 DEF Numbered
  <1> QED BY <1>0, <1>1, <1>2, <1>3, <1>7, <1>8
-----------------------------------------------------------------------------
(* Corrections on their way, as sets of their numbers. *)

AtWriter == {msg} \ {0}
InChannel == {ch[i] : i \in 1 .. Len(ch)}
Offered == {next} \ {0}

Before(A, B) == \A a \in A, b \in B : a < b

EntryType == [n : 1 .. Len(in), pkt : Alphabet, msmEpoch : Nat \cup {NoEpoch}]

PipeType ==
  /\ in \in Seq(Alphabet) /\ cuts \subseteq 0 .. Len(in)
  /\ msg \in 0 .. Len(in) /\ next \in 0 .. Len(in)
  /\ ch = <<>> \/ \E x \in 1 .. Len(in) : ch = <<x>>
  /\ sent \in Seq(1 .. Len(in))
  /\ q \in [entries : SUBSET EntryType, msmEpoch : Nat]
  /\ Numbered(q.entries, Len(in))

\* The writer has a packet only between taking it and having sent it.
MsgHeld == msg # 0 <=> w = "write"

Increasing == \A i, j \in 1 .. Len(sent) : i < j => sent[i] < sent[j]

InOrder ==
  /\ Increasing
  /\ Before(Sent, AtWriter \cup InChannel \cup Offered \cup Entries)
  /\ Before(AtWriter, InChannel \cup Offered \cup Entries)
  /\ Before(InChannel, Offered \cup Entries)
  /\ Before(Offered, Entries)

\* Something between packet i and the present has ended its epoch.
Ended(i) == (\E k \in i .. Len(in) : in[k].kind = "end") \/ (\E c \in cuts : i <= c)

\* The stamps of the queue tell what the history tells.
EpochsTold ==
  \A e \in q.entries :
    /\ e.pkt = in[e.n]
    /\ ~IsMSM(e.pkt) => e.msmEpoch = NoEpoch
    /\ IsMSM(e.pkt) => /\ e.msmEpoch \in 0 .. q.msmEpoch
                       /\ Ended(e.n) <=> e.msmEpoch # q.msmEpoch

\* What is missing was replaced, or pushed out.
Justified(i) == (\E j \in 1 .. Len(in) : Supersedes(j, i)) \/ Len(in) - i >= QueueMax
Kept ==
  ~Done /\ qpc = "run" =>
    \A i \in 1 .. Len(in) :
      \/ i \in Sent \cup AtWriter \cup InChannel \cup Offered \cup Entries \cup dropped
      \/ Justified(i)

PipeInv == PipeType /\ MsgHeld /\ InOrder /\ EpochsTold /\ QueueFresh /\ Kept

pipeVars == <<in, cuts, q, next, ch, msg, sent, dropped>>

\* The steps that move no packet.
Idle ==
  \/ SourceEnds \/ Cancel \/ queueExit \/ connected \/ connectFails \/ backoffEnds
  \/ UNCHANGED vars

LEMMA IdleFrame ==
  ASSUME Idle
  PROVE  /\ UNCHANGED pipeVars
         /\ w' = "write" <=> w = "write"
         /\ Done => Done'
         /\ qpc' = "run" => qpc = "run"
  <1> USE DEF pipeVars, qVars, wVars, Done
  <1>1. CASE SourceEnds \/ Cancel \/ queueExit BY <1>1 DEF SourceEnds, Cancel, queueExit
  <1>2. CASE connected \/ connectFails \/ backoffEnds
    BY <1>2 DEF connected, connectFails, backoffEnds
  <1>3. CASE UNCHANGED vars BY <1>3 DEF vars
  <1> QED BY <1>1, <1>2, <1>3 DEF Idle

LEMMA StepIdle ==
  ASSUME PipeInv, Idle
  PROVE  PipeInv'
  <1>1. UNCHANGED pipeVars BY IdleFrame
  <1>2. PipeType' BY <1>1 DEF PipeInv, PipeType, pipeVars, EntryType, Numbered
  <1>3. MsgHeld' BY IdleFrame DEF PipeInv, MsgHeld, pipeVars
  <1>8. /\ Sent' = Sent /\ AtWriter' = AtWriter /\ InChannel' = InChannel
        /\ Offered' = Offered /\ Entries' = Entries
    BY <1>1 DEF Sent, AtWriter, InChannel, Offered, Entries, pipeVars
  <1>4. InOrder'
    <2>1. Increasing' BY <1>1 DEF PipeInv, InOrder, Increasing, pipeVars
    <2> QED BY <1>8, <2>1 DEF PipeInv, InOrder, Before
  <1>5. EpochsTold'
    <2>1. \A i : Ended(i)' <=> Ended(i) BY <1>1 DEF Ended, pipeVars
    <2>2. q' = q /\ in' = in BY <1>1 DEF pipeVars
    <2> QED BY <2>1, <2>2 DEF PipeInv, EpochsTold
  <1>6. QueueFresh' BY <1>1 DEF PipeInv, QueueFresh, Entries, Supersedes, SameEpoch, pipeVars
  <1>7. Kept'
    <2>1. ~Done' /\ qpc' = "run" => ~Done /\ qpc = "run" BY IdleFrame
    <2>2. \A i : Justified(i) => Justified(i)' BY <1>1 DEF Justified, Supersedes, SameEpoch, pipeVars
    <2>3. in' = in /\ dropped' = dropped BY <1>1 DEF pipeVars
    <2> QED BY <1>8, <2>1, <2>2, <2>3 DEF PipeInv, Kept
  <1> QED BY <1>2, <1>3, <1>4, <1>5, <1>6, <1>7 DEF PipeInv

-----------------------------------------------------------------------------
(* The steps that move packets. *)

LEMMA OfferEffect ==
  ASSUME NEW E, NEW r \in [entries : SUBSET E, msmEpoch : Nat], NEW n \in Nat,
         Numbered(r.entries, n), Offer(r)
  PROVE  /\ q'.entries \subseteq r.entries /\ q'.msmEpoch = r.msmEpoch
         /\ q' \in [entries : SUBSET E, msmEpoch : Nat]
         /\ Numbered(q'.entries, n) /\ next' \in 0 .. n
         /\ Offered' \cup Entries' = {e.n : e \in r.entries}
         /\ Before(Offered', Entries')
  <1>1. CASE r.entries = {}
    <2>1. next' = 0 /\ q' = r BY <1>1 DEF Offer
    <2>2. Offered' = {} /\ Entries' = {} BY <1>1, <2>1 DEF Offered, Entries
    <2> QED BY <1>1, <2>1, <2>2 DEF Before
  <1>2. CASE r.entries # {}
    <2>1. next' = first(r) /\ q' = dequeue(r) BY <1>2 DEF Offer
    <2>2. PICK o \in r.entries : o.n = first(r) /\ dequeue(r).entries = r.entries \ {o}
      BY <1>2, Dequeued
    <2>3. /\ dequeue(r).msmEpoch = r.msmEpoch /\ Numbered(dequeue(r).entries, n)
          /\ first(r) \in 1 .. n /\ \A e \in dequeue(r).entries : first(r) < e.n
      BY <1>2, Dequeued
    <2>4. q' \in [entries : SUBSET E, msmEpoch : Nat] BY <2>1 DEF dequeue
    <2>5. Offered' = {o.n} BY <2>1, <2>2, <2>3 DEF Offered
    <2>6. Entries' = {e.n : e \in r.entries \ {o}} BY <2>1, <2>2 DEF Entries
    <2>7. Offered' \cup Entries' = {e.n : e \in r.entries} BY <2>5, <2>6
    <2>8. Before(Offered', Entries') BY <2>1, <2>2, <2>3, <2>5, <2>6 DEF Before
    <2> QED BY <2>1, <2>2, <2>3, <2>4, <2>7, <2>8
  <1> QED BY <1>1, <1>2

\* What the packets before the last one mean to each other, the last one does not change.
LEMMA HistoryGrows ==
  ASSUME PipeType, NEW p \in Alphabet, in' = Append(in, p),
         cuts' = cuts
  PROVE  /\ Len(in') = Len(in) + 1 /\ Len(in) \in Nat /\ in' \in Seq(Alphabet)
         /\ in'[Len(in) + 1] = p /\ \A k \in 1 .. Len(in) : in'[k] = in[k]
         /\ \A i, j \in 1 .. Len(in) : Supersedes(j, i)' <=> Supersedes(j, i)
  <1>1. /\ Len(in') = Len(in) + 1 /\ Len(in) \in Nat /\ in' \in Seq(Alphabet)
        /\ in'[Len(in) + 1] = p /\ \A k \in 1 .. Len(in) : in'[k] = in[k]
    BY DEF PipeType
  <1>2. \A i, j \in 1 .. Len(in) : SameEpoch(i, j)' <=> SameEpoch(i, j)
    <2> TAKE i, j \in 1 .. Len(in)
    <2>1. \A k \in i .. j - 1 : k \in 1 .. Len(in) BY <1>1
    <2>2. \A k \in i .. j - 1 : in'[k] = in[k] BY <1>1, <2>1
    <2>3. in'[i] = in[i] /\ in'[j] = in[j] BY <1>1
    <2> QED BY <2>2, <2>3 DEF SameEpoch
  <1>3. \A i, j \in 1 .. Len(in) : Supersedes(j, i)' <=> Supersedes(j, i)
    <2> TAKE i, j \in 1 .. Len(in)
    <2>1. in'[i] = in[i] /\ in'[j] = in[j] BY <1>1
    <2> QED BY <1>2, <2>1 DEF Supersedes
  <1> QED BY <1>1, <1>3

\* In the queue, a packet of another epoch than the present one has been left behind.
LEMMA ReplacedIsSuperseded ==
  ASSUME PipeType, EpochsTold, NEW p \in Alphabet, in' = Append(in, p), cuts' = cuts,
         NEW e \in q.entries, NEW n, n = Len(in) + 1
  PROVE  Replaces(p, Entry(q, n, p).msmEpoch, e) <=> Supersedes(n, e.n)'
  <1> DEFINE ep == Entry(q, n, p).msmEpoch
  <1>1. /\ Len(in) \in Nat /\ in'[n] = p /\ \A k \in 1 .. Len(in) : in'[k] = in[k]
    BY HistoryGrows
  <1>2. e.n \in 1 .. Len(in) /\ e.pkt = in[e.n] BY DEF EpochsTold, PipeType, Numbered
  <1>3. ep = IF IsMSM(p) THEN q.msmEpoch ELSE NoEpoch BY DEF Entry
  <1>4. in'[e.n] = e.pkt BY <1>1, <1>2
  <1>5. q.msmEpoch \in Nat BY DEF PipeType
  <1> HIDE DEF ep
  <1>6. CASE IsMSM(p) /\ IsMSM(e.pkt)
    <2>1. ep = q.msmEpoch /\ ep # NoEpoch BY <1>3, <1>5, <1>6 DEF NoEpoch
    <2>2. e.msmEpoch # NoEpoch /\ (Ended(e.n) <=> e.msmEpoch # q.msmEpoch)
      BY <1>5, <1>6 DEF EpochsTold, NoEpoch
    <2>3. Ended(e.n) <=> ~SameEpoch(e.n, n)'
      <3>1. e.n .. Len(in) = e.n .. n - 1 BY <1>1
      <3>2. \A k \in e.n .. Len(in) : in'[k] = in[k] BY <1>1, <1>2
      <3>3. \A c \in cuts : c < n BY <1>1 DEF PipeType
      <3>4. IsMSM(in'[e.n]) /\ IsMSM(in'[n]) BY <1>1, <1>4, <1>6
      <3>5. (\E k \in e.n .. Len(in) : in[k].kind = "end") <=> ~\A k \in e.n .. n - 1 : in'[k].kind # "end"
        BY <3>1, <3>2
      <3>6. (\E c \in cuts : e.n <= c) <=> ~\A c \in cuts : ~(e.n <= c /\ c < n) BY <3>3
      <3>7. SameEpoch(e.n, n)' <=> /\ \A k \in e.n .. n - 1 : in'[k].kind # "end"
                                   /\ \A c \in cuts : ~(e.n <= c /\ c < n)
        BY <3>4 DEF SameEpoch
      <3> QED BY <3>5, <3>6, <3>7 DEF Ended
    <2>4. e.n < n BY <1>1, <1>2
    <2> QED BY <1>1, <1>4, <2>1, <2>2, <2>3, <2>4 DEF Replaces, Supersedes, IsMSM, ep
  <1>7. CASE ~(IsMSM(p) /\ IsMSM(e.pkt))
    <2>1. ep = NoEpoch \/ e.msmEpoch = NoEpoch BY <1>3, <1>7 DEF EpochsTold
    <2>2. ~SameEpoch(e.n, n)' BY <1>1, <1>4, <1>7 DEF SameEpoch
    <2>3. e.n < n BY <1>1, <1>2
    <2> QED BY <1>1, <1>4, <2>1, <2>2, <2>3 DEF Replaces, Supersedes, ep
  <1> QED BY <1>6, <1>7

\* What receiving a packet does to the queue and the packet on offer, in both of its cases.
LEMMA ReceiveEffect ==
  ASSUME PipeInv, NEW p \in Alphabet, queueReceive(p), NEW n, n = Len(in) + 1
  PROVE  LET new == Entry(q, n, p)
         IN  /\ in' = Append(in, p)
             /\ UNCHANGED <<cuts, ch, msg, sent, w, qCtx, qpc, dropped>>
             /\ q' \in [entries : SUBSET EntryType', msmEpoch : Nat] /\ Numbered(q'.entries, n)
             /\ q'.msmEpoch = IF p.kind = "end" THEN q.msmEpoch + 1 ELSE q.msmEpoch
             /\ \A e \in q'.entries : e = new \/ (e \in q.entries /\ ~Replaces(p, new.msmEpoch, e))
             /\ next' \in 0 .. n /\ Before(Offered', Entries')
             /\ n \in Offered' \cup Entries'
             /\ Offered' \cup Entries' \subseteq Offered \cup Entries \cup {n}
             /\ Offered \subseteq Offered' \cup Entries'
             /\ \A e \in q.entries : \/ e.n \in Offered' \cup Entries'
                                     \/ Replaces(p, new.msmEpoch, e) \/ n - e.n >= QueueMax
  <1> DEFINE r == enqueue(q, n, p)
             new == Entry(q, n, p)
             E == [n : 1 .. n, pkt : Alphabet, msmEpoch : Nat \cup {NoEpoch}]
  <1>1. /\ in' = Append(in, p) /\ UNCHANGED <<cuts, ch, msg, sent, w, qCtx, qpc, dropped>>
        /\ IF next = 0 THEN Offer(r) ELSE q' = r /\ UNCHANGED next
    BY DEF queueReceive, wVars
  <1>2. PipeType BY DEF PipeInv
  <1>3. Len(in') = n /\ n \in Nat \ {0} /\ Len(in) = n - 1 BY <1>1, <1>2, HistoryGrows
  <1>4. E = EntryType' BY <1>3 DEF EntryType
  <1>5. Numbered(q.entries, n - 1) BY <1>2, <1>3 DEF PipeType
  <1>6. /\ r.msmEpoch = IF p.kind = "end" THEN q.msmEpoch + 1 ELSE q.msmEpoch
        /\ Numbered(r.entries, n)
        /\ new \in r.entries
        /\ \A e \in r.entries : e = new \/ (e \in q.entries /\ ~Replaces(p, new.msmEpoch, e))
        /\ \A e \in q.entries : e \in r.entries \/ Replaces(p, new.msmEpoch, e) \/ n - e.n >= QueueMax
    BY <1>3, <1>5, Enqueued
  <1>7. q.msmEpoch \in Nat /\ q.entries \subseteq E
    <2>1. q.msmEpoch \in Nat /\ q.entries \subseteq EntryType BY <1>2 DEF PipeType
    <2>2. EntryType \subseteq E
      <3>1. 1 .. Len(in) \subseteq 1 .. n BY <1>3
      <3> QED BY <3>1 DEF EntryType
    <2> QED BY <2>1, <2>2
  <1>8. new \in E /\ new.n = n BY <1>3, <1>7 DEF Entry
  <1>9. r \in [entries : SUBSET E, msmEpoch : Nat]
    <2>1. r = [entries |-> r.entries, msmEpoch |-> r.msmEpoch] BY DEF enqueue
    <2>2. r.msmEpoch \in Nat BY <1>6, <1>7
    <2>3. r.entries \subseteq E BY <1>6, <1>7, <1>8
    <2> HIDE DEF r, E
    <2> QED BY <2>1, <2>2, <2>3
  <1> HIDE DEF r, new, E
  <1>10. CASE next = 0
    <2>1. Offer(r) BY <1>1, <1>10
    <2>2. /\ q'.entries \subseteq r.entries /\ q'.msmEpoch = r.msmEpoch
          /\ q' \in [entries : SUBSET E, msmEpoch : Nat]
          /\ Numbered(q'.entries, n) /\ next' \in 0 .. n
          /\ Offered' \cup Entries' = {e.n : e \in r.entries}
          /\ Before(Offered', Entries')
      BY <1>3, <1>6, <1>9, <2>1, OfferEffect
    <2>3. Offered = {} BY <1>10 DEF Offered
    <2>4. {e.n : e \in r.entries} \subseteq Entries \cup {n} BY <1>6, <1>8 DEF Entries
    <2>5. n \in {e.n : e \in r.entries} BY <1>6, <1>8
    <2> QED BY <1>1, <1>4, <1>6, <2>2, <2>3, <2>4, <2>5 DEF new
  <1>11. CASE next # 0
    <2>1. q' = r /\ next' = next BY <1>1, <1>11
    <2>2. Offered' = Offered /\ Entries' = {e.n : e \in r.entries}
      BY <2>1 DEF Offered, Entries
    <2>3. next \in 0 .. n /\ next < n BY <1>2, <1>3 DEF PipeType
    <2>4. Entries' \subseteq Entries \cup {n} BY <1>6, <1>8, <2>2 DEF Entries
    <2>5. Before(Offered', Entries')
      <3>1. Before(Offered, Entries) BY DEF PipeInv, InOrder
      <3>2. Before(Offered, {n}) BY <2>3 DEF Offered, Before
      <3> QED BY <2>2, <2>4, <3>1, <3>2 DEF Before
    <2>6. n \in Entries' BY <1>6, <1>8, <2>2
    <2> QED BY <1>1, <1>4, <1>6, <1>9, <2>1, <2>2, <2>3, <2>4, <2>5, <2>6 DEF new
  <1> QED BY <1>10, <1>11

LEMMA StepReceive ==
  ASSUME PipeInv, NEW p \in Alphabet, queueReceive(p)
  PROVE  PipeInv'
  <1> PICK n : n = Len(in) + 1 OBVIOUS
  <1> DEFINE new == Entry(q, n, p)
  <1>0. PipeType /\ MsgHeld /\ InOrder /\ EpochsTold /\ QueueFresh /\ Kept BY DEF PipeInv
  <1>1. /\ in' = Append(in, p)
        /\ UNCHANGED <<cuts, ch, msg, sent, w, qCtx, qpc, dropped>>
        /\ q' \in [entries : SUBSET EntryType', msmEpoch : Nat] /\ Numbered(q'.entries, n)
        /\ q'.msmEpoch = IF p.kind = "end" THEN q.msmEpoch + 1 ELSE q.msmEpoch
        /\ \A e \in q'.entries : e = new \/ (e \in q.entries /\ ~Replaces(p, new.msmEpoch, e))
        /\ next' \in 0 .. n /\ Before(Offered', Entries')
        /\ n \in Offered' \cup Entries'
        /\ Offered' \cup Entries' \subseteq Offered \cup Entries \cup {n}
        /\ Offered \subseteq Offered' \cup Entries'
        /\ \A e \in q.entries : \/ e.n \in Offered' \cup Entries'
                                \/ Replaces(p, new.msmEpoch, e) \/ n - e.n >= QueueMax
    BY ReceiveEffect
  <1>2. /\ Len(in') = n /\ Len(in) \in Nat /\ in' \in Seq(Alphabet)
        /\ in'[n] = p /\ \A k \in 1 .. Len(in) : in'[k] = in[k]
        /\ \A i, j \in 1 .. Len(in) : Supersedes(j, i)' <=> Supersedes(j, i)
    BY <1>0, <1>1, HistoryGrows
  <1>3. 1 .. n = 1 .. Len(in) \cup {n} /\ n \in Nat BY <1>2
  <1>4. /\ new.n = n /\ new.pkt = p /\ new.msmEpoch = IF IsMSM(p) THEN q.msmEpoch ELSE NoEpoch
    BY DEF Entry
  <1>5. \A e \in q.entries : Replaces(p, new.msmEpoch, e) <=> Supersedes(n, e.n)'
    BY <1>0, <1>1, ReplacedIsSuperseded
  <1> HIDE DEF new
  <1>6. \A e \in q.entries : e.n \in 1 .. Len(in) BY <1>0 DEF PipeType, Numbered
  <1>7. /\ Sent' = Sent /\ AtWriter' = AtWriter /\ InChannel' = InChannel
    BY <1>1 DEF Sent, AtWriter, InChannel
  <1>8. Sent \cup AtWriter \cup InChannel \cup Offered \cup Entries \subseteq 1 .. Len(in)
    <2>1. Sent \subseteq 1 .. Len(in) BY <1>0 DEF Sent, PipeType
    <2>2. AtWriter \cup Offered \subseteq 1 .. Len(in) BY <1>0, <1>2 DEF AtWriter, Offered, PipeType
    <2>3. InChannel \subseteq 1 .. Len(in)
      <3>1. CASE ch = <<>> BY <3>1 DEF InChannel
      <3>2. CASE \E x \in 1 .. Len(in) : ch = <<x>> BY <3>2 DEF InChannel
      <3> QED BY <1>0, <3>1, <3>2 DEF PipeType
    <2>4. Entries \subseteq 1 .. Len(in) BY <1>6 DEF Entries
    <2> QED BY <2>1, <2>2, <2>3, <2>4
  <1>9. PipeType'
    <2>1. cuts' \subseteq 0 .. n BY <1>0, <1>1, <1>2 DEF PipeType
    <2>2. msg' \in 0 .. n BY <1>0, <1>1, <1>2 DEF PipeType
    <2>3. ch' = <<>> \/ \E x \in 1 .. n : ch' = <<x>> BY <1>0, <1>1, <1>3 DEF PipeType
    <2>4. sent' \in Seq(1 .. n) BY <1>0, <1>1, <1>3 DEF PipeType
    <2> QED BY <1>1, <1>2, <2>1, <2>2, <2>3, <2>4 DEF PipeType
  <1>10. MsgHeld' BY <1>0, <1>1 DEF MsgHeld
  <1>11. InOrder'
    <2>1. Increasing' BY <1>0, <1>1 DEF InOrder, Increasing
    <2>2. Before(1 .. Len(in), {n}) BY <1>2 DEF Before
    <2>3. \A A \in SUBSET (1 .. Len(in)) :
            Before(A, Offered \cup Entries) => Before(A, Offered' \cup Entries')
      BY <1>1, <2>2 DEF Before
    <2>4. Before(Sent, Offered' \cup Entries') /\ Before(AtWriter, Offered' \cup Entries')
          /\ Before(InChannel, Offered' \cup Entries')
      BY <1>0, <1>8, <2>3 DEF InOrder, Before
    <2> QED BY <1>0, <1>1, <1>7, <2>1, <2>4 DEF InOrder, Before
  <1>12. EpochsTold'
    <2>0. q.msmEpoch \in Nat BY <1>0 DEF PipeType
    <2>1. ASSUME NEW e \in q'.entries, e = new
          PROVE  /\ e.pkt = in'[e.n]
                 /\ ~IsMSM(e.pkt) => e.msmEpoch = NoEpoch
                 /\ IsMSM(e.pkt) => /\ e.msmEpoch \in 0 .. q'.msmEpoch
                                    /\ Ended(e.n)' <=> e.msmEpoch # q'.msmEpoch
      <3>1. Ended(n)' <=> p.kind = "end"
        <4>1. \A c \in cuts : ~(n <= c) BY <1>0, <1>2 DEF PipeType
        <4>2. n .. n = {n} BY <1>3
        <4> QED BY <1>1, <1>2, <4>1, <4>2 DEF Ended
      <3>2. e.n = n BY <1>4, <2>1
      <3>3. Ended(e.n)' <=> Ended(n)' BY <3>2 DEF Ended
      <3> QED BY <1>1, <1>2, <1>4, <2>0, <2>1, <3>1, <3>2, <3>3
    <2>2. ASSUME NEW e \in q'.entries, e \in q.entries
          PROVE  /\ e.pkt = in'[e.n]
                 /\ ~IsMSM(e.pkt) => e.msmEpoch = NoEpoch
                 /\ IsMSM(e.pkt) => /\ e.msmEpoch \in 0 .. q'.msmEpoch
                                    /\ Ended(e.n)' <=> e.msmEpoch # q'.msmEpoch
      <3>1. e.n \in 1 .. Len(in) BY <1>6, <2>2
      <3>2. Ended(e.n)' <=> Ended(e.n) \/ p.kind = "end"
        <4>1. e.n .. n = e.n .. Len(in) \cup {n} BY <1>2, <3>1
        <4>2. \A k \in e.n .. Len(in) : in'[k] = in[k] BY <1>2, <3>1
        <4> QED BY <1>1, <1>2, <4>1, <4>2 DEF Ended
      <3>3. in'[e.n] = in[e.n] BY <1>2, <3>1
      <3> QED BY <1>0, <1>1, <2>0, <2>2, <3>2, <3>3 DEF EpochsTold
    <2> QED BY <1>1, <2>1, <2>2 DEF EpochsTold
  <1>13. QueueFresh'
    <2> SUFFICES ASSUME NEW i \in Entries', NEW j \in Entries' PROVE ~Supersedes(j, i)'
      BY DEF QueueFresh
    <2>1. PICK e \in q'.entries : i = e.n BY DEF Entries
    <2>2. PICK f \in q'.entries : j = f.n BY DEF Entries
    <2>3. CASE e \in q.entries /\ f \in q.entries
      <3>1. i \in Entries /\ j \in Entries BY <2>1, <2>2, <2>3 DEF Entries
      <3>2. i \in 1 .. Len(in) /\ j \in 1 .. Len(in) BY <1>8, <3>1
      <3> QED BY <1>0, <1>2, <3>1, <3>2 DEF QueueFresh
    <2>4. CASE e \in q.entries /\ f = new
      <3>1. j = n BY <1>4, <2>2, <2>4
      <3>3. e # new BY <1>2, <1>4, <1>6, <2>4
      <3>2. ~Replaces(p, new.msmEpoch, e) BY <1>1, <3>3
      <3>4. ~Supersedes(n, e.n)' BY <1>5, <2>4, <3>2
      <3> QED BY <2>1, <3>1, <3>4
    <2>5. CASE e = new
      <3>1. i = n /\ j \in 1 .. n BY <1>1, <1>4, <2>1, <2>2, <2>5 DEF Numbered
      <3>2. ~(i < j) BY <1>3, <3>1
      <3> QED BY <3>2 DEF Supersedes
    <2> QED BY <1>1, <2>3, <2>4, <2>5
  <1>14. Kept'
    <2> SUFFICES ASSUME ~Done', qpc' = "run", NEW i \in 1 .. n
                 PROVE  \/ i \in Sent' \cup AtWriter' \cup InChannel' \cup Offered' \cup Entries' \cup dropped'
                        \/ Justified(i)'
      BY <1>2 DEF Kept
    <2>1. ~Done /\ qpc = "run" BY <1>1 DEF Done
    <2>2. ASSUME NEW k \in 1 .. Len(in), Supersedes(k, i)', i \in 1 .. Len(in) PROVE Justified(i)'
      <3>1. k \in 1 .. Len(in') BY <1>2, <1>3
      <3> QED BY <2>2, <3>1 DEF Justified
    <2>3. CASE i = n BY <1>1, <2>3
    <2>4. CASE i \in 1 .. Len(in)
      <3>1. CASE Justified(i)
        <4>1. CASE \E k \in 1 .. Len(in) : Supersedes(k, i) BY <1>2, <2>2, <2>4, <4>1
        <4>2. CASE Len(in) - i >= QueueMax
          <5>1. n - i >= QueueMax BY <1>2, <2>4, <4>2, QueueMaxAssumption
          <5> QED BY <1>2, <5>1 DEF Justified
        <4> QED BY <3>1, <4>1, <4>2 DEF Justified
      <3>2. CASE i \in Sent \cup AtWriter \cup InChannel \cup Offered \cup dropped BY <1>1, <1>7, <3>2
      <3>3. CASE i \in Entries
        <4>1. PICK e \in q.entries : i = e.n BY <3>3 DEF Entries
        <4>2. CASE Replaces(p, new.msmEpoch, e)
          <5>1. Supersedes(n, i)' BY <1>5, <4>1, <4>2
          <5>2. n \in 1 .. Len(in') BY <1>2, <1>3
          <5> QED BY <5>1, <5>2 DEF Justified
        <4>3. CASE n - e.n >= QueueMax BY <1>2, <4>1, <4>3 DEF Justified
        <4> QED BY <1>1, <4>1, <4>2, <4>3
      <3> QED BY <1>0, <2>1, <2>4, <3>1, <3>2, <3>3 DEF Kept
    <2> QED BY <1>3, <2>3, <2>4
  <1> QED BY <1>9, <1>10, <1>11, <1>12, <1>13, <1>14 DEF PipeInv

\* A step that receives nothing and reconnects nothing keeps what the history says.
LEMMA HistoryStays ==
  ASSUME in' = in, cuts' = cuts
  PROVE  /\ \A i : Ended(i)' <=> Ended(i)
         /\ \A i, j : Supersedes(j, i)' <=> Supersedes(j, i)
         /\ \A i : Justified(i)' <=> Justified(i)
  <1>1. \A i : Ended(i)' <=> Ended(i) BY DEF Ended
  <1>2. \A i, j : Supersedes(j, i)' <=> Supersedes(j, i) BY DEF Supersedes, SameEpoch
  <1>3. \A i : Justified(i)' <=> Justified(i) BY <1>2 DEF Justified
  <1> QED BY <1>1, <1>2, <1>3

LEMMA StepQueueSend ==
  ASSUME PipeInv, queueSend
  PROVE  PipeInv'
  <1>0. PipeType /\ MsgHeld /\ InOrder /\ EpochsTold /\ QueueFresh /\ Kept BY DEF PipeInv
  <1>1. /\ next # 0 /\ ch = <<>> /\ ch' = <<next>> /\ Offer(q)
        /\ UNCHANGED <<in, cuts, msg, sent, w, qCtx, qpc, dropped>>
    BY DEF queueSend, wVars
  <1>2. Len(in) \in Nat BY <1>0 DEF PipeType
  <1>3. /\ q'.entries \subseteq q.entries /\ q'.msmEpoch = q.msmEpoch
        /\ q' \in [entries : SUBSET EntryType, msmEpoch : Nat]
        /\ Numbered(q'.entries, Len(in)) /\ next' \in 0 .. Len(in)
        /\ Offered' \cup Entries' = Entries /\ Before(Offered', Entries')
    BY <1>0, <1>1, <1>2, OfferEffect DEF PipeType, Entries
  <1>4. /\ Sent' = Sent /\ AtWriter' = AtWriter /\ InChannel = {} /\ InChannel' = Offered
    BY <1>1 DEF Sent, AtWriter, InChannel, Offered
  <1>5. PipeType'
    <2>1. ch' = <<>> \/ \E x \in 1 .. Len(in) : ch' = <<x>> BY <1>0, <1>1, <1>2 DEF PipeType
    <2>2. EntryType' = EntryType BY <1>1 DEF EntryType
    <2> QED BY <1>0, <1>1, <1>3, <2>1, <2>2 DEF PipeType
  <1>6. MsgHeld' BY <1>0, <1>1 DEF MsgHeld
  <1>7. InOrder'
    <2>1. Increasing' BY <1>0, <1>1 DEF InOrder, Increasing
    <2> QED BY <1>0, <1>3, <1>4, <2>1 DEF InOrder, Before
  <1>8. EpochsTold' BY <1>0, <1>1, <1>3, HistoryStays DEF EpochsTold
  <1>9. QueueFresh'
    <2>1. Entries' \subseteq Entries BY <1>3
    <2> QED BY <1>0, <1>1, <2>1, HistoryStays DEF QueueFresh
  <1>10. Kept' BY <1>0, <1>1, <1>3, <1>4, HistoryStays DEF Kept, Done
  <1> QED BY <1>5, <1>6, <1>7, <1>8, <1>9, <1>10 DEF PipeInv

LEMMA StepWriter ==
  ASSUME PipeInv, take \/ writeOK \/ writeFails \/ writerExit
  PROVE  PipeInv'
  <1>0. PipeType /\ MsgHeld /\ InOrder /\ EpochsTold /\ QueueFresh /\ Kept BY DEF PipeInv
  <1>1. UNCHANGED <<in, cuts, q, next, qpc, qCtx>>
    BY DEF take, writeOK, writeFails, writerExit, qVars
  <1>2. /\ Offered' = Offered /\ Entries' = Entries /\ EntryType' = EntryType
    BY <1>1 DEF Offered, Entries, EntryType
  <1>3. EpochsTold'
    <2>1. \A i : Ended(i)' <=> Ended(i) BY <1>1, HistoryStays
    <2>2. q' = q /\ in' = in BY <1>1
    <2> QED BY <1>0, <2>1, <2>2 DEF EpochsTold
  <1>4. QueueFresh' BY <1>0, <1>1, <1>2, HistoryStays DEF QueueFresh
  <1>5. Len(in) \in Nat BY <1>0 DEF PipeType
  <1>6. CASE take
    <2>1. /\ w = "stream" /\ ch # <<>> /\ msg' = ch[1] /\ ch' = <<>> /\ w' = "write"
          /\ UNCHANGED <<sent, dropped>>
      BY <1>6 DEF take
    <2>2. PICK x \in 1 .. Len(in) : ch = <<x>> BY <1>0, <2>1 DEF PipeType
    <2>3. msg' = x /\ x # 0 BY <1>5, <2>1, <2>2
    <2>4. AtWriter = {} /\ AtWriter' = InChannel /\ InChannel' = {} /\ Sent' = Sent
      BY <1>0, <2>1, <2>2, <2>3 DEF MsgHeld, AtWriter, InChannel, Sent
    <2>5. PipeType' BY <1>0, <1>1, <1>2, <1>5, <2>1, <2>3 DEF PipeType
    <2>6. MsgHeld' BY <2>1, <2>3 DEF MsgHeld
    <2>7. InOrder'
      <3>1. Increasing' BY <1>0, <2>1 DEF InOrder, Increasing
      <3> QED BY <1>0, <1>2, <2>4, <3>1 DEF InOrder, Before
    <2>8. Kept' BY <1>0, <1>1, <1>2, <2>1, <2>4, HistoryStays DEF Kept, Done
    <2> QED BY <1>3, <1>4, <2>5, <2>6, <2>7, <2>8 DEF PipeInv
  <1>7. CASE writeOK
    <2>1. /\ w = "write" /\ w' = "stream" /\ sent' = Append(sent, msg) /\ msg' = 0
          /\ UNCHANGED <<ch, dropped>>
      BY <1>7 DEF writeOK
    <2>2. msg \in 1 .. Len(in) BY <1>0, <1>5, <2>1 DEF PipeType, MsgHeld
    <2>3. sent \in Seq(1 .. Len(in)) BY <1>0 DEF PipeType
    <2>4. /\ sent' \in Seq(1 .. Len(in)) /\ Len(sent') = Len(sent) + 1 /\ Len(sent) \in Nat
          /\ sent'[Len(sent) + 1] = msg
          /\ \A k \in 1 .. Len(sent) : sent'[k] = sent[k]
      BY <2>1, <2>2, <2>3
    <2>5. Sent' = Sent \cup {msg}
      <3>1. 1 .. Len(sent') = 1 .. Len(sent) \cup {Len(sent) + 1} BY <2>4
      <3>2. {sent'[k] : k \in 1 .. Len(sent)} = Sent BY <2>4 DEF Sent
      <3>3. Sent' = {sent'[k] : k \in 1 .. Len(sent)} \cup {sent'[Len(sent) + 1]} BY <3>1 DEF Sent
      <3> QED BY <2>4, <3>2, <3>3
    <2>6. AtWriter = {msg} /\ AtWriter' = {} /\ InChannel' = InChannel
      BY <2>1, <2>2 DEF AtWriter, InChannel
    <2>7. PipeType' BY <1>0, <1>1, <1>2, <2>1, <2>4 DEF PipeType
    <2>8. MsgHeld' BY <2>1 DEF MsgHeld
    <2>9. Increasing'
      <3>1. \A k \in 1 .. Len(sent) : sent[k] < msg
        BY <1>0, <2>6 DEF InOrder, Before, Sent
      <3> SUFFICES ASSUME NEW i \in 1 .. Len(sent'), NEW j \in 1 .. Len(sent'), i < j
                   PROVE  sent'[i] < sent'[j]
        BY DEF Increasing
      <3>2. i \in 1 .. Len(sent) BY <2>4
      <3>3. CASE j \in 1 .. Len(sent) BY <1>0, <2>4, <3>2, <3>3 DEF InOrder, Increasing
      <3>4. CASE j = Len(sent) + 1 BY <2>4, <3>1, <3>2, <3>4
      <3>5. j \in 1 .. Len(sent) + 1 BY ONLY <2>4, j \in 1 .. Len(sent')
      <3>6. Len(sent) \in Nat BY <2>4
      <3> QED BY ONLY <3>3, <3>4, <3>5, <3>6
    <2>10. InOrder' BY <1>0, <1>2, <2>5, <2>6, <2>9 DEF InOrder, Before
    <2>11. Kept' BY <1>0, <1>1, <1>2, <2>1, <2>5, <2>6, HistoryStays DEF Kept, Done
    <2> QED BY <1>3, <1>4, <2>7, <2>8, <2>10, <2>11 DEF PipeInv
  <1>8. CASE writeFails \/ writerExit
    <2>1. /\ w' # "write" /\ msg' = 0 /\ UNCHANGED <<ch, sent>>
          /\ dropped \subseteq dropped'
          /\ Done \/ msg = 0 \/ msg \in dropped'
      BY <1>0, <1>8 DEF writeFails, writerExit, Done, MsgHeld
    <2>2. AtWriter' = {} /\ InChannel' = InChannel /\ Sent' = Sent
      BY <2>1 DEF AtWriter, InChannel, Sent
    <2>3. PipeType' BY <1>0, <1>1, <1>2, <1>5, <2>1 DEF PipeType
    <2>4. MsgHeld' BY <2>1 DEF MsgHeld
    <2>5. InOrder'
      <3>1. Increasing' BY <1>0, <2>1 DEF InOrder, Increasing
      <3> QED BY <1>0, <1>2, <2>2, <3>1 DEF InOrder, Before
    <2>6. Kept'
      <3>1. CASE Done BY <1>1, <3>1 DEF Kept, Done
      <3>2. CASE ~Done
        <4>1. AtWriter \subseteq dropped' BY <2>1, <3>2 DEF AtWriter
        <4> QED BY <1>0, <1>1, <1>2, <2>1, <2>2, <3>2, <4>1, HistoryStays DEF Kept
      <3> QED BY <3>1, <3>2
    <2> QED BY <1>3, <1>4, <2>3, <2>4, <2>5, <2>6 DEF PipeInv
  <1> QED BY <1>6, <1>7, <1>8

\* The queue goroutine learns of a broken connection.
LEMMA StepReconnect ==
  ASSUME PipeInv, queueReconnect
  PROVE  PipeInv'
  <1> DEFINE r == reconnect(q)
  <1>0. PipeType /\ MsgHeld /\ InOrder /\ EpochsTold /\ QueueFresh /\ Kept BY DEF PipeInv
  <1>1. /\ Offer(r) /\ ch' = <<>> /\ cuts' = cuts \cup {Len(in)}
        /\ dropped' = dropped \cup InChannel \cup Offered
        /\ UNCHANGED <<in, msg, sent, w, qCtx, qpc>>
    BY DEF queueReconnect, wVars, InChannel, Offered
  <1>2. Len(in) \in Nat /\ q.msmEpoch \in Nat BY <1>0 DEF PipeType
  <1>3. /\ r.entries = q.entries /\ r.msmEpoch = q.msmEpoch + 1
        /\ r \in [entries : SUBSET EntryType, msmEpoch : Nat]
    <2>1. q \in [entries : SUBSET EntryType, msmEpoch : Nat] BY <1>0 DEF PipeType
    <2>2. q.msmEpoch + 1 \in Nat BY <1>2
    <2> QED BY ONLY <2>1, <2>2 DEF reconnect
  <1> HIDE DEF r
  <1>4. /\ q'.entries \subseteq q.entries /\ q'.msmEpoch = q.msmEpoch + 1
        /\ q' \in [entries : SUBSET EntryType, msmEpoch : Nat]
        /\ Numbered(q'.entries, Len(in)) /\ next' \in 0 .. Len(in)
        /\ Offered' \cup Entries' = Entries /\ Before(Offered', Entries')
    <2>1. Numbered(r.entries, Len(in)) BY <1>0, <1>3 DEF PipeType
    <2> QED BY <1>1, <1>2, <1>3, <2>1, OfferEffect DEF Entries
  <1>5. /\ Sent' = Sent /\ AtWriter' = AtWriter /\ InChannel' = {} /\ EntryType' = EntryType
    BY <1>1 DEF Sent, AtWriter, InChannel, EntryType
  <1>6. \A i, j \in 1 .. Len(in) : Supersedes(j, i)' <=> Supersedes(j, i)
    <2> TAKE i, j \in 1 .. Len(in)
    <2>1. ~(i <= Len(in) /\ Len(in) < j) BY <1>2
    <2>2. in' = in BY <1>1
    <2>3. \A c : ~(i <= c /\ c < j) \/ c # Len(in) BY <2>1
    <2>4. (\A c \in cuts' : ~(i <= c /\ c < j)) <=> \A c \in cuts : ~(i <= c /\ c < j)
      BY <1>1, <2>3
    <2>5. SameEpoch(i, j)' <=> SameEpoch(i, j) BY <2>2, <2>4 DEF SameEpoch
    <2> QED BY <2>2, <2>5 DEF Supersedes
  <1>7. PipeType'
    <2>1. cuts \subseteq 0 .. Len(in) /\ Len(in) \in 0 .. Len(in) BY <1>0, <1>2 DEF PipeType
    <2>2. cuts' \subseteq 0 .. Len(in) BY ONLY <1>1, <2>1
    <2> QED BY <1>0, <1>1, <1>4, <1>5, <2>2 DEF PipeType
  <1>8. MsgHeld' BY <1>0, <1>1 DEF MsgHeld
  <1>9. InOrder'
    <2>1. Increasing' BY <1>0, <1>1 DEF InOrder, Increasing
    <2> QED BY <1>0, <1>4, <1>5, <2>1 DEF InOrder, Before
  <1>10. EpochsTold'
    <2> SUFFICES ASSUME NEW e \in q.entries
                 PROVE  /\ e.pkt = in[e.n]
                        /\ ~IsMSM(e.pkt) => e.msmEpoch = NoEpoch
                        /\ IsMSM(e.pkt) => /\ e.msmEpoch \in 0 .. q.msmEpoch + 1
                                           /\ Ended(e.n)' <=> e.msmEpoch # q.msmEpoch + 1
      BY <1>1, <1>4 DEF EpochsTold
    <2>1. e.n <= Len(in) BY <1>0 DEF PipeType, Numbered
    <2>2. Ended(e.n)' BY <1>1, <2>1 DEF Ended
    <2> QED BY <1>0, <1>2, <2>2 DEF EpochsTold
  <1>11. QueueFresh'
    <2>1. Entries \subseteq 1 .. Len(in) BY <1>0 DEF PipeType, Numbered, Entries
    <2> QED BY <1>0, <1>4, <1>6, <2>1 DEF QueueFresh
  <1>12. Kept'
    <2>1. \A i \in 1 .. Len(in) : Justified(i) => Justified(i)' BY <1>1, <1>6 DEF Justified
    <2> QED BY <1>0, <1>1, <1>4, <1>5, <2>1 DEF Kept, Done
  <1> QED BY <1>7, <1>8, <1>9, <1>10, <1>11, <1>12 DEF PipeInv

LEMMA InitPipe == Init => PipeInv
  <1> SUFFICES ASSUME Init PROVE PipeInv OBVIOUS
  <1>1. /\ in = <<>> /\ q = [entries |-> {}, msmEpoch |-> 0] /\ next = 0 /\ ch = <<>> /\ w # "write"
        /\ msg = 0 /\ sent = <<>> /\ cuts = {} /\ Len(in) = 0
    BY DEF Init, emptyQueue
  <1>2. Sent = {} /\ AtWriter = {} /\ InChannel = {} /\ Offered = {} /\ Entries = {}
    BY <1>1 DEF Sent, AtWriter, InChannel, Offered, Entries
  <1>3. PipeType
    <2>1. Numbered(q.entries, Len(in)) BY <1>1, FS_EmptySet, QueueMaxAssumption DEF Numbered
    <2> QED BY <1>1, <2>1 DEF PipeType
  <1>4. MsgHeld /\ EpochsTold /\ QueueFresh
    BY <1>1, <1>2 DEF MsgHeld, EpochsTold, QueueFresh
  <1>5. InOrder BY <1>1, <1>2 DEF InOrder, Increasing, Before
  <1>6. Kept BY <1>1 DEF Kept
  <1> QED BY <1>3, <1>4, <1>5, <1>6 DEF PipeInv

LEMMA StepPipe ==
  ASSUME PipeInv, [Next]_vars
  PROVE  PipeInv'
  <1> QED BY StepIdle, StepReceive, StepQueueSend, StepWriter, StepReconnect
          DEF Next, Progress, Idle

\* What was sent, what is on its way and what is missing, in every state of the program.
LEMMA PipeInvariance == Spec => []PipeInv
  BY InitPipe, StepPipe, PTL DEF Spec

-----------------------------------------------------------------------------
(* The types, and how many packets a broken connection takes. *)

ScalarType ==
  /\ dest \in {"ntrip", "udp"} /\ source \in {"open", "closed"}
  /\ qCtx \in {"live", "cancelled"} /\ qpc \in {"run", "exited"}
  /\ signal \in BOOLEAN /\ failures \in 0 .. MaxFailures
  /\ w \in {"connect", "stream", "write", "backoff", "exited"}
  /\ reported \in {"connecting", "connected", "reconnecting", "failed"}
  /\ Len(in) <= MaxPackets

\* A failure takes the packet of the writer, and when the queue goroutine learns of
\* it, the packet in writerCh and the one on offer.
Due == IF signal THEN 2 ELSE 0
Allowance == 3 * failures - Due
DropsCounted == IsFiniteSet(dropped) /\ Cardinality(dropped) <= Allowance

LEMMA ScalarStep ==
  ASSUME PipeInv, ScalarType, [Next]_vars
  PROVE  ScalarType'
  <1> USE ParamsAssumption DEF ScalarType, qVars, wVars
  <1>1. CASE SourceEnds \/ Cancel \/ queueSend \/ queueReconnect \/ queueExit
    BY <1>1 DEF SourceEnds, Cancel, queueSend, queueReconnect, queueExit
  <1>2. CASE connected \/ connectFails \/ backoffEnds
    BY <1>2 DEF connected, connectFails, backoffEnds
  <1>3. CASE take \/ writeOK \/ writeFails \/ writerExit
    <2>1. /\ UNCHANGED <<dest, in, source, qCtx, qpc>> /\ signal' \in {TRUE, signal}
          /\ failures' = failures \/ (failures < MaxFailures /\ failures' = failures + 1)
          /\ w' \in {"write", "stream", "backoff", "exited"}
          /\ reported' \in {reported, "reconnecting"}
      BY <1>3 DEF take, writeOK, writeFails, writerExit
    <2>2. signal' \in BOOLEAN BY <2>1
    <2>3. failures' \in 0 .. MaxFailures BY <2>1
    <2>4. Len(in') <= MaxPackets /\ reported' \in {"connecting", "connected", "reconnecting", "failed"}
      BY <2>1
    <2> QED BY <2>1, <2>2, <2>3, <2>4, Zenon
  <1>4. ASSUME NEW p \in Alphabet, queueReceive(p) PROVE ScalarType'
    <2>1. in \in Seq(Alphabet) BY DEF PipeInv, PipeType
    <2>2. Len(in') = Len(in) + 1 /\ Len(in) \in Nat BY <1>4, <2>1 DEF queueReceive
    <2>3. Len(in') <= MaxPackets BY <1>4, <2>2 DEF queueReceive
    <2> QED BY <1>4, <2>3 DEF queueReceive
  <1>5. CASE UNCHANGED vars BY <1>5 DEF vars
  <1> QED BY <1>1, <1>2, <1>3, <1>4, <1>5 DEF Next, Progress

\* One packet more is one more at most.
LEMMA OneMore ==
  ASSUME NEW S, IsFiniteSet(S), NEW x
  PROVE  /\ IsFiniteSet(S \cup {x}) /\ Cardinality(S \cup {x}) <= Cardinality(S) + 1
         /\ Cardinality(S) \in Nat /\ Cardinality(S \cup {x}) \in Nat
  <1>1. Cardinality(S) \in Nat BY FS_CardinalityType
  <1>2. CASE x \in S
    <2>1. S \cup {x} = S BY <1>2
    <2> QED BY <1>1, <2>1
  <1>3. CASE x \notin S
    <2>1. IsFiniteSet(S \cup {x}) /\ Cardinality(S \cup {x}) = Cardinality(S) + 1
      BY <1>3, FS_AddElement
    <2> QED BY <1>1, <2>1
  <1> QED BY <1>2, <1>3

LEMMA DropsStep ==
  ASSUME PipeInv, ScalarType, DropsCounted, [Next]_vars
  PROVE  DropsCounted'
  <1>0. failures \in Nat /\ signal \in BOOLEAN BY ParamsAssumption DEF ScalarType
  <1>1. IsFiniteSet(dropped) /\ Cardinality(dropped) \in Nat /\ Cardinality(dropped) <= Allowance
    BY FS_CardinalityType DEF DropsCounted
  <1>2. CASE UNCHANGED <<dropped, failures, signal>>
    BY <1>1, <1>2 DEF DropsCounted, Allowance, Due
  <1>3. CASE SourceEnds \/ Cancel \/ queueSend \/ queueExit \/ UNCHANGED vars
    <2>1. UNCHANGED <<dropped, failures, signal>>
      BY <1>3 DEF SourceEnds, Cancel, queueSend, queueExit, qVars, wVars, vars
    <2> QED BY <1>2, <2>1
  <1>4. CASE connected \/ backoffEnds \/ take \/ writeOK \/ writerExit \/ \E p \in Alphabet : queueReceive(p)
    <2>1. UNCHANGED <<dropped, failures, signal>>
      BY <1>4 DEF connected, backoffEnds, take, writeOK, writerExit, queueReceive, qVars, wVars
    <2> QED BY <1>2, <2>1
  <1>5. CASE connectFails
    <2>1. failures' = failures + 1 /\ UNCHANGED <<dropped, signal>> BY <1>5 DEF connectFails
    <2> QED BY <1>0, <1>1, <2>1 DEF DropsCounted, Allowance, Due
  <1>6. CASE writeFails
    <2>1. /\ failures' = failures + 1 /\ dropped' = dropped \cup {msg}
          /\ signal' = signal \/ signal' = TRUE
      BY <1>6 DEF writeFails
    <2>2. IsFiniteSet(dropped') /\ Cardinality(dropped') <= Cardinality(dropped) + 1
          /\ Cardinality(dropped') \in Nat
      BY <1>1, <2>1, OneMore
    <2>3. Allowance + 1 <= Allowance' BY <1>0, <2>1 DEF Allowance, Due
    <2>4. Allowance \in Int /\ Allowance' \in Int BY <1>0, <2>1 DEF Allowance, Due
    <2> QED BY <1>1, <2>2, <2>3, <2>4 DEF DropsCounted
  <1>7. CASE queueReconnect
    <2>1. /\ signal /\ signal' = FALSE /\ failures' = failures
          /\ dropped' = (dropped \cup InChannel) \cup Offered
      BY <1>7 DEF queueReconnect, wVars, InChannel, Offered
    <2>2. InChannel = {} \/ \E x : InChannel = {x}
      <3>1. CASE ch = <<>> BY <3>1 DEF InChannel
      <3>2. CASE \E x \in 1 .. Len(in) : ch = <<x>>
        <4>1. PICK x \in 1 .. Len(in) : ch = <<x>> BY <3>2
        <4>2. InChannel = {x} BY <4>1 DEF InChannel
        <4> QED BY <4>2
      <3> QED BY <3>1, <3>2 DEF PipeInv, PipeType
    <2>3. Offered = {} \/ Offered = {next} BY DEF Offered
    <2> DEFINE D == dropped \cup InChannel
    <2>4. /\ IsFiniteSet(D) /\ Cardinality(D) \in Nat
          /\ Cardinality(D) <= Cardinality(dropped) + 1
      <3>1. CASE InChannel = {}
        <4>1. D = dropped BY <3>1
        <4> QED BY <1>1, <4>1
      <3>2. CASE \E x : InChannel = {x} BY <1>1, <3>2, OneMore
      <3> QED BY <2>2, <3>1, <3>2
    <2>5. dropped' = D \cup Offered BY <2>1
    <2> HIDE DEF D
    <2>6. /\ IsFiniteSet(dropped') /\ Cardinality(dropped') \in Nat
          /\ Cardinality(dropped') <= Cardinality(D) + 1
      <3>1. CASE Offered = {}
        <4>1. dropped' = D BY <2>5, <3>1
        <4> QED BY <2>4, <4>1
      <3>2. CASE Offered = {next} BY <2>4, <2>5, <3>2, OneMore
      <3> QED BY <2>3, <3>1, <3>2
    <2>7. Allowance = 3 * failures - 2 /\ Allowance' = 3 * failures BY <1>0, <2>1 DEF Allowance, Due
    <2> QED BY <1>0, <1>1, <2>4, <2>6, <2>7 DEF DropsCounted
  <1> QED BY <1>3, <1>4, <1>5, <1>6, <1>7 DEF Next, Progress

LEMMA ScalarInvariance == Spec => [](ScalarType /\ DropsCounted)
  <1>1. Init => ScalarType /\ DropsCounted
    <2> SUFFICES ASSUME Init PROVE ScalarType /\ DropsCounted OBVIOUS
    <2>1. IsFiniteSet(dropped) /\ Cardinality(dropped) = 0 BY FS_EmptySet DEF Init
    <2>2. signal = FALSE /\ failures = 0 /\ in = <<>> BY DEF Init
    <2>3. signal \in BOOLEAN /\ ~signal BY <2>2, Zenon
    <2>4. Allowance = 0
      <3>1. Due = 0 BY <2>3, Zenon DEF Due
      <3> QED BY <2>2, <3>1 DEF Allowance
    <2>5. failures \in 0 .. MaxFailures /\ Len(in) <= MaxPackets BY <2>2, ParamsAssumption
    <2>6. ScalarType
      <3>1. /\ dest \in {"ntrip", "udp"} /\ source = "open" /\ qCtx = "live" /\ qpc = "run"
            /\ w \in {"stream", "connect"} /\ reported = "connecting"
        BY DEF Init
      <3> QED BY <2>2, <2>5, <3>1 DEF ScalarType
    <2> QED BY <2>1, <2>4, <2>6 DEF DropsCounted
  <1>2. PipeInv /\ (ScalarType /\ DropsCounted) /\ [Next]_vars => (ScalarType /\ DropsCounted)'
    BY ScalarStep, DropsStep
  <1> QED BY <1>1, <1>2, PipeInvariance, PTL DEF Spec

\* The state is of its type, and no packet waits behind one that replaces it: an MSM epoch
\* that the reconnect cut short is not continued in the queue.
THEOREM ConsistentAlways == Spec => []Consistent
  <1>1. PipeInv /\ ScalarType => Consistent
    <2> SUFFICES ASSUME PipeInv, ScalarType PROVE TypeOK
      BY DEF Consistent, PipeInv
    <2>1. PipeType /\ MsgHeld BY DEF PipeInv
    <2>2. Len(ch) <= 1 /\ \A i \in 1 .. Len(ch) : ch[i] \in 1 .. Len(in)
      <3>1. CASE ch = <<>> BY <3>1
      <3>2. CASE \E x \in 1 .. Len(in) : ch = <<x>> BY <3>2
      <3> QED BY <2>1, <3>1, <3>2 DEF PipeType
    <2>3. Cardinality(q.entries) <= QueueMax /\ \A e \in q.entries : e.n \in 1 .. Len(in)
      BY <2>1 DEF PipeType, Numbered
    <2> QED BY <2>1, <2>2, <2>3 DEF TypeOK, PipeType, MsgHeld, ScalarType
  <1> QED BY <1>1, PipeInvariance, ScalarInvariance, PTL

\* Packets are sent in order and at most once, through the queue, its channel and the
\* writer, which both empty the channel; a missing one has a newer packet of another epoch
\* or QueueMax newer ones, or was lost with a broken connection, three for each at most.
THEOREM LossIsJustified == Spec => []LossJustified
  <1>1. PipeInv /\ ScalarType /\ DropsCounted => LossJustified
    <2> SUFFICES ASSUME PipeInv, ScalarType, DropsCounted PROVE LossJustified OBVIOUS
    <2>1. SentInOrder BY DEF PipeInv, InOrder, Increasing, SentInOrder
    <2>2. Cardinality(dropped) <= 3 * failures
      <3>1. failures \in Nat /\ Cardinality(dropped) \in Nat
        BY ParamsAssumption, FS_CardinalityType DEF ScalarType, DropsCounted
      <3> QED BY <3>1 DEF DropsCounted, Allowance, Due
    <2>3. Waiting = Entries \cup InChannel \cup Offered \cup AtWriter
      BY DEF Waiting, InChannel, Offered, AtWriter
    <2>4. Len(in) \in Nat BY DEF PipeInv, PipeType
    <2>5. ASSUME qpc = "run", ~Done, NEW i \in Wanted \ (Sent \cup Waiting \cup dropped)
          PROVE  \/ \E j \in Wanted : Supersedes(j, i)
                 \/ Cardinality({j \in Wanted : j > i}) >= QueueMax
      <3>1. i \in 1 .. Len(in) /\ Justified(i) BY <2>3, <2>5 DEF PipeInv, Kept, Wanted
      <3>2. CASE Len(in) - i >= QueueMax
        <4>1. {j \in Wanted : j > i} = i + 1 .. Len(in) BY <2>4, <3>1 DEF Wanted
        <4>2. i + 1 \in Int /\ Len(in) \in Int BY <2>4, <3>1
        <4>3. Cardinality(i + 1 .. Len(in)) = IF i + 1 > Len(in) THEN 0 ELSE Len(in) - (i + 1) + 1
          BY ONLY <4>2, FS_Interval
        <4>4. Cardinality(i + 1 .. Len(in)) = Len(in) - i BY <2>4, <3>1, <4>3
        <4> QED BY <3>2, <4>1, <4>4
      <3> QED BY <3>1, <3>2 DEF Justified, Wanted
    <2> QED BY <2>1, <2>2, <2>5 DEF LossJustified
  <1> QED BY <1>1, PipeInvariance, ScalarInvariance, PTL
=============================================================================
