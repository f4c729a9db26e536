---------------------------- MODULE BcastProofs ----------------------------
(***************************************************************************)
(* Proofs about Bcast, for every set of channels and number of messages.   *)
(***************************************************************************)
EXTENDS Bcast, SequenceTheorems, WellFoundedInduction, TLAPS

\* Where a channel is before Subscribe has handed it to Run.
Unborn(c) == pc[c] \in {"idle", "wantSubscribe", "inSubscribe"}

\* A channel that Run does not know of yet is unused, and so is the one that
\* waits in b.subscribe.
FreshInv ==
  /\ \A c \in Chans : Unborn(c) =>
       /\ chan[c] = "open"
       /\ c \notin subscribers
       /\ subscribe # <<>> => Head(subscribe) # c
       /\ received[c] = <<>>
  /\ subscribe # <<>> =>
       LET c == Head(subscribe)
       IN  chan[c] = "open" /\ c \notin subscribers /\ received[c] = <<>>

\* From a subscriber's cursor on, q holds the last messages sent, consecutively,
\* and what the subscriber has and what it still needs add up to what was sent
\* since it joined.
CursorInv ==
  \A c \in subscribers :
    /\ sent = joinedAt[c] + Len(received[c]) + (nextQIndex - nextSendIndex[c])
    /\ \A k \in nextSendIndex[c] - qStartIndex + 1 .. Len(q) :
         q[k] = sent - Len(q) + k

\* The inductive invariant.
IInv == TypeOK /\ IndexSafe /\ ChannelsSafe /\ FreshInv /\ CursorInv /\ GapFree

-----------------------------------------------------------------------------
(* The smallest index that is still needed exists.                          *)
LEMMA MinOfNats ==
  ASSUME NEW S \in SUBSET Nat, S # {}
  PROVE  \E i \in S : \A j \in S : i <= j
<1>1. \E i \in S : \A j \in S : ~(<<j, i>> \in OpToRel(<, Nat))
  BY NatLessThanWellFounded, WFMin
<1>2. PICK i \in S : \A j \in S : ~(<<j, i>> \in OpToRel(<, Nat))
  BY <1>1
<1>3. ASSUME NEW j \in S PROVE i <= j
  <2>1. ~(<<j, i>> \in OpToRel(<, Nat))
    BY <1>2, <1>3
  <2>2. i \in Nat /\ j \in Nat
    BY <1>2, <1>3
  <2>3. ~(j < i)
    BY <2>1, <2>2 DEF OpToRel
  <2> QED BY <2>2, <2>3
<1> QED BY <1>2, <1>3

LEMMA NeedIndexProps ==
  ASSUME nextQIndex \in Nat,
         NEW subs \in SUBSET Chans, NEW nsi \in [Chans -> Nat]
  PROVE  /\ NeedIndex(subs, nsi) \in Nat
         /\ NeedIndex(subs, nsi) <= nextQIndex
         /\ \A c \in subs : NeedIndex(subs, nsi) <= nsi[c]
         /\ \/ NeedIndex(subs, nsi) = nextQIndex
            \/ \E c \in subs : NeedIndex(subs, nsi) = nsi[c]
<1> DEFINE indexes == {nextQIndex} \cup {nsi[c] : c \in subs}
           n == CHOOSE i \in indexes : \A j \in indexes : i <= j
<1>1. indexes \in SUBSET Nat /\ indexes # {}
  OBVIOUS
<1>2. \E i \in indexes : \A j \in indexes : i <= j
  <2> HIDE DEF indexes
  <2> QED BY <1>1, MinOfNats
<1>3. n \in indexes /\ \A j \in indexes : n <= j
  <2> HIDE DEF indexes
  <2> QED BY <1>2
<1>4. NeedIndex(subs, nsi) = n
  BY DEF NeedIndex
<1> HIDE DEF n
<1> QED BY <1>1, <1>3, <1>4

\* What trimQ keeps is a suffix of q that still holds everything needed.
LEMMA TrimQProps ==
  ASSUME q \in Seq(Nat), nextQIndex \in Nat, Len(q) <= nextQIndex,
         NEW subs \in SUBSET Chans, NEW nsi \in [Chans -> Nat],
         \A c \in subs : nsi[c] \in qStartIndex .. nextQIndex,
         NEW t, t = TrimQ(subs, nsi)
  PROVE  /\ t \in Seq(Nat)
         /\ Len(t) <= Len(q)
         /\ \A c \in subs : nextQIndex - Len(t) <= nsi[c]
         /\ \A k \in 1 .. Len(t) : t[k] = q[k + Len(q) - Len(t)]
<1> DEFINE need == NeedIndex(subs, nsi)
           nNeed == nextQIndex - need
           nDiscard == Len(q) - nNeed
<1>1. /\ need \in Nat /\ need <= nextQIndex
      /\ \A c \in subs : need <= nsi[c]
      /\ need = nextQIndex \/ \E c \in subs : need = nsi[c]
  BY NeedIndexProps
<1>2. Len(q) \in Nat /\ \A i \in 1 .. Len(q) : q[i] \in Nat
  BY LenProperties, ElementOfSeq
<1>3. need >= qStartIndex
  BY <1>1, <1>2 DEF qStartIndex
<1>4. nNeed \in Nat /\ nDiscard \in Nat
  BY <1>1, <1>2, <1>3 DEF qStartIndex
<1>5. t = IF nNeed = 0 THEN <<>>
          ELSE IF nDiscard >= nNeed THEN SubSeq(q, nDiscard + 1, Len(q)) ELSE q
  BY DEF TrimQ
<1> HIDE DEF need
<1>6. CASE nNeed = 0
  <2>1. t = <<>>
    BY <1>5, <1>6
  <2>2. t \in Seq(Nat) /\ Len(t) = 0
    BY <2>1
  <2>3. \A c \in subs : nextQIndex <= nsi[c]
    BY <1>1, <1>6
  <2> QED BY <2>1, <2>2, <2>3, <1>2
<1>7. CASE nNeed # 0 /\ nDiscard >= nNeed
  <2>1. t = SubSeq(q, nDiscard + 1, Len(q))
    BY <1>5, <1>7
  <2>2. \A i \in nDiscard + 1 .. Len(q) : q[i] \in Nat
    BY <1>2, <1>4
  <2>3. nDiscard + 1 \in Int /\ Len(q) \in Int
    BY <1>2, <1>4
  <2>4. /\ t \in Seq(Nat)
        /\ Len(t) = IF nDiscard + 1 <= Len(q)
                    THEN Len(q) - (nDiscard + 1) + 1 ELSE 0
        /\ \A i \in 1 .. Len(q) - (nDiscard + 1) + 1 :
              t[i] = q[(nDiscard + 1) + i - 1]
    <3> HIDE DEF nDiscard
    <3> QED BY <2>1, <2>2, <2>3, SubSeqProperties
  <2>5. Len(t) = nNeed
    BY <2>4, <1>2, <1>4, <1>7
  <2>6. ASSUME NEW k \in 1 .. Len(t) PROVE t[k] = q[k + Len(q) - Len(t)]
    <3>1. k \in 1 .. Len(q) - (nDiscard + 1) + 1
      BY <2>5, <2>6, <1>2, <1>4
    <3>2. (nDiscard + 1) + k - 1 = k + Len(q) - Len(t)
      BY <2>5, <2>6, <1>2, <1>4
    <3> QED BY <2>4, <3>1, <3>2
  <2>7. \A c \in subs : nextQIndex - Len(t) <= nsi[c]
    BY <2>5, <1>1
  <2>8. Len(t) <= Len(q)
    BY <2>5, <1>2, <1>4
  <2> QED BY <2>4, <2>6, <2>7, <2>8
<1>8. CASE nNeed # 0 /\ ~(nDiscard >= nNeed)
  <2>1. t = q
    BY <1>5, <1>8
  <2> QED BY <2>1, <1>2 DEF qStartIndex
<1> QED BY <1>6, <1>7, <1>8

-----------------------------------------------------------------------------
LEMMA InitIInv == Init => IInv
<1> SUFFICES ASSUME Init PROVE IInv
  OBVIOUS
<1> USE DEF Init
<1>1. TypeOK
  <2>1. received \in [Chans -> Seq(Nat)] /\ subscribe \in Seq(Chans)
        /\ unsubscribe \in Seq(Chans) /\ q \in Seq(Nat)
        /\ Len(subscribe) = 0 /\ Len(unsubscribe) = 0
    BY EmptySeq
  <2>2. pc \in [Chans -> PCs] /\ chan \in [Chans -> {"open", "closed", "panic"}]
        /\ nextSendIndex \in [Chans -> Nat] /\ joinedAt \in [Chans -> Nat]
    BY DEF PCs
  <2>3. Len(subscribe) <= ChanCap /\ Len(unsubscribe) <= ChanCap
    BY <2>1 DEF ChanCap
  <2> QED BY <2>1, <2>2, <2>3 DEF TypeOK
<1>2. IndexSafe /\ CursorInv /\ GapFree
  BY DEF IndexSafe, CursorInv, GapFree, qStartIndex
<1>3. ChannelsSafe /\ FreshInv
  BY DEF ChannelsSafe, FreshInv, ChanCap
<1> QED BY <1>1, <1>2, <1>3 DEF IInv

ChanStates == {"open", "closed", "panic"}

LEMMA CloseAllType ==
  ASSUME NEW S, NEW ch \in [Chans -> ChanStates]
  PROVE  CloseAll(S, ch) \in [Chans -> ChanStates]
BY DEF CloseAll, ChanStates

LEMMA FinishType ==
  ASSUME NEW n \in SUBSET {"subscribe", "msg", "done"}, NEW subs,
         NEW ch \in [Chans -> ChanStates],
         FinishIteration(n, subs, ch)
  PROVE  /\ nils' \in SUBSET {"subscribe", "msg", "done"}
         /\ closing' \in BOOLEAN
         /\ chan' \in [Chans -> ChanStates]
<1>1. CloseAll(subs, ch) \in [Chans -> ChanStates]
  BY CloseAllType
<1> QED BY <1>1 DEF FinishIteration

(* TypeOK is preserved by every step of Run and of its callers.             *)
LEMMA TypeStep == IInv /\ [Next]_vars => TypeOK'
<1> SUFFICES ASSUME IInv, [Next]_vars PROVE TypeOK'
  OBVIOUS
<1>0. TypeOK /\ IndexSafe
  BY DEF IInv
<1> USE <1>0
<1>1. ASSUME NEW c \in Chans, Caller(c) PROVE TypeOK'
  <2>1. pc' \in [Chans -> PCs]
    BY <1>1 DEF Caller, CallSubscribe, LockSubscribe, Subscribe, CallUnsubscribe,
         LockUnsubscribe, Unsubscribe, TypeOK, PCs
  <2>2. chan' \in [Chans -> ChanStates] /\ subscribe' \in Seq(Chans)
         /\ unsubscribe' \in Seq(Chans)
         /\ Len(subscribe') <= ChanCap /\ Len(unsubscribe') <= ChanCap
    <3>1. Append(subscribe, c) \in Seq(Chans) /\ Append(unsubscribe, c) \in Seq(Chans)
          /\ Len(Append(subscribe, c)) = Len(subscribe) + 1
          /\ Len(Append(unsubscribe, c)) = Len(unsubscribe) + 1
      BY AppendProperties DEF TypeOK
    <3>2. /\ \/ subscribe' = subscribe
             \/ Len(subscribe) < ChanCap /\ subscribe' = Append(subscribe, c)
          /\ \/ unsubscribe' = unsubscribe
             \/ Len(unsubscribe) < ChanCap /\ unsubscribe' = Append(unsubscribe, c)
          /\ chan' \in {chan, [chan EXCEPT ![c] = "closed"]}
      BY <1>1 DEF Caller, CallSubscribe, LockSubscribe, Subscribe, CallUnsubscribe,
         LockUnsubscribe, Unsubscribe, HasRoom, apiVars
    <3>3. chan' \in [Chans -> ChanStates]
      BY <3>2 DEF TypeOK, ChanStates
    <3>4. subscribe' \in Seq(Chans) /\ unsubscribe' \in Seq(Chans)
      BY <3>1, <3>2 DEF TypeOK
    <3>5. Len(subscribe') <= ChanCap /\ Len(unsubscribe') <= ChanCap
      BY <3>1, <3>2 DEF TypeOK, ChanCap
    <3> QED BY <3>3, <3>4, <3>5
  <2>3. UNCHANGED <<received, closer, closed, envVars, runVars, queueVars>>
    BY <1>1 DEF Caller, CallSubscribe, LockSubscribe, Subscribe, CallUnsubscribe,
         LockUnsubscribe, Unsubscribe, apiVars
  <2> QED BY <2>1, <2>2, <2>3 DEF TypeOK, ChanStates, envVars, runVars, queueVars
<1>2. CASE CallClose \/ Close \/ Cancel \/ CloseSource
  BY <1>2 DEF CallClose, Close, Cancel, CloseSource, TypeOK, callerVars, apiVars,
       envVars, runVars, queueVars
<1>3. CASE RunSubscribe
  <2>1. Head(subscribe) \in Chans /\ Tail(subscribe) \in Seq(Chans)
        /\ Len(Tail(subscribe)) = Len(subscribe) - 1 /\ Len(subscribe) \in Nat
    BY <1>3, HeadTailProperties DEF RunSubscribe, TypeOK
  <2>2. \E ch \in [Chans -> ChanStates] : \E subs : FinishIteration(nils, subs, ch)
    BY <1>3, CloseAllType DEF RunSubscribe, TypeOK, ChanStates
  <2>3. /\ nils' \in SUBSET {"subscribe", "msg", "done"}
        /\ closing' \in BOOLEAN
        /\ chan' \in [Chans -> ChanStates]
    BY <2>2, FinishType DEF TypeOK, ChanStates
  <2>4. subscribe' \in Seq(Chans) /\ Len(subscribe') <= ChanCap
    BY <1>3, <2>1 DEF RunSubscribe, TypeOK, ChanCap
  <2>5. /\ subscribers' \in SUBSET Chans
        /\ nextSendIndex' \in [Chans -> Nat] /\ joinedAt' \in [Chans -> Nat]
    BY <1>3, <2>1 DEF RunSubscribe, StartIndex, TypeOK
  <2> QED BY <1>3, <2>3, <2>4, <2>5 DEF RunSubscribe, TypeOK, ChanStates, envVars
<1>4. CASE RunSubscribeClosed \/ RunMsgClosed \/ RunDone
  <2>1. \E n \in SUBSET {"subscribe", "msg", "done"} :
          FinishIteration(n, subscribers, chan)
    BY <1>4 DEF RunSubscribeClosed, RunMsgClosed, RunDone, TypeOK, ChanStates
  <2>2. /\ nils' \in SUBSET {"subscribe", "msg", "done"}
        /\ closing' \in BOOLEAN
        /\ chan' \in [Chans -> ChanStates]
    BY <2>1, FinishType DEF TypeOK, ChanStates
  <2> QED BY <1>4, <2>2 DEF RunSubscribeClosed, RunMsgClosed, RunDone, TypeOK,
            ChanStates, apiVars, envVars, queueVars
<1>5. CASE RunUnsubscribe
  <2>1. Tail(unsubscribe) \in Seq(Chans)
        /\ Len(Tail(unsubscribe)) = Len(unsubscribe) - 1 /\ Len(unsubscribe) \in Nat
    BY <1>5, HeadTailProperties DEF RunUnsubscribe, TypeOK
  <2>2. /\ nils' \in SUBSET {"subscribe", "msg", "done"}
        /\ closing' \in BOOLEAN
        /\ chan' \in [Chans -> ChanStates]
    BY <1>5, FinishType DEF RunUnsubscribe, TypeOK, ChanStates
  <2> QED BY <1>5, <2>1, <2>2 DEF RunUnsubscribe, Without, TypeOK, ChanCap, ChanStates, envVars
<1>6. CASE RunMsg
  <2>1. /\ nils' \in SUBSET {"subscribe", "msg", "done"}
        /\ closing' \in BOOLEAN
        /\ chan' \in [Chans -> ChanStates]
    BY <1>6, FinishType DEF RunMsg, TypeOK, ChanStates
  <2>2. q' \in Seq(Nat) /\ nextQIndex' \in Nat /\ sent' \in Nat
    <3>1. sent + 1 \in Nat /\ Append(q, sent + 1) \in Seq(Nat)
      BY AppendProperties DEF TypeOK
    <3>2. sent' = sent + 1 /\ q' \in {q, Append(q, sent')}
          /\ nextQIndex' \in {nextQIndex, nextQIndex + 1}
      BY <1>6 DEF RunMsg
    <3>3. Append(q, sent') \in Seq(Nat)
      BY <3>1, <3>2
    <3>4. q' \in Seq(Nat)
      BY <3>2, <3>3 DEF TypeOK
    <3> QED BY <3>1, <3>2, <3>4 DEF TypeOK
  <2> QED BY <1>6, <2>1, <2>2 DEF RunMsg, TypeOK, ChanStates, apiVars
<1>7. ASSUME NEW c \in Chans, RunSend(c) PROVE TypeOK'
  <2>1. /\ nils' \in SUBSET {"subscribe", "msg", "done"}
        /\ closing' \in BOOLEAN
        /\ chan' \in [Chans -> ChanStates]
    BY <1>7, FinishType DEF RunSend, HasWork, TypeOK, ChanStates
  <2>2. nextSendIndex' \in [Chans -> Nat]
    BY <1>7 DEF RunSend, HasWork, TypeOK
  <2>3. \A d \in subscribers : nextSendIndex'[d] \in qStartIndex .. nextQIndex
    BY <1>7 DEF RunSend, HasWork, TypeOK, IndexSafe, qStartIndex
  <2>4. q' \in Seq(Nat)
    BY <1>7, <2>2, <2>3, TrimQProps DEF RunSend, HasWork, TypeOK, IndexSafe
  <2>5. nextSendIndex[c] - qStartIndex + 1 \in 1 .. Len(q)
    BY <1>7 DEF RunSend, HasWork, TypeOK, IndexSafe, qStartIndex
  <2>6. q[nextSendIndex[c] - qStartIndex + 1] \in Nat
    BY <2>5, ElementOfSeq DEF TypeOK
  <2>7. received' \in [Chans -> Seq(Nat)]
    BY <1>7, <2>6 DEF RunSend, NextFor, HasWork, TypeOK
  <2> QED BY <1>7, <2>1, <2>2, <2>4, <2>7
        DEF RunSend, HasWork, TypeOK, ChanStates, apiVars,
            envVars
<1>8. CASE UNCHANGED vars
  BY <1>8 DEF TypeOK, vars, callerVars, apiVars, envVars, runVars, queueVars
<1> QED BY <1>1, <1>2, <1>3, <1>4, <1>5, <1>6, <1>7, <1>8
          DEF Next, RunRecv, AllReturned

-----------------------------------------------------------------------------
(* The callers change neither the queue nor the state of Run.               *)
LEMMA CallerStep ==
  ASSUME IInv, NEW c \in Chans, Caller(c)
  PROVE  IndexSafe' /\ ChannelsSafe' /\ FreshInv' /\ CursorInv' /\ GapFree'
<1> USE DEF IInv
<1>0. UNCHANGED <<received, closed, sent, closing, q, nextQIndex, subscribers,
                  nextSendIndex, joinedAt>>
  BY DEF Caller, CallSubscribe, LockSubscribe, Subscribe, CallUnsubscribe,
         LockUnsubscribe, Unsubscribe, apiVars, envVars, runVars, queueVars
<1>1. IndexSafe' /\ CursorInv' /\ GapFree'
  BY <1>0 DEF IndexSafe, CursorInv, GapFree, qStartIndex
<1>2. CASE Subscribe(c) /\ closed
  <2>1. /\ Unborn(c)
        /\ chan' = [chan EXCEPT ![c] = "closed"]
        /\ subscribe' = subscribe
        /\ pc' = [pc EXCEPT ![c] = "active"]
    BY <1>2 DEF Subscribe, Unborn
  <2>2. c \notin subscribers /\ (subscribe # <<>> => Head(subscribe) # c)
    BY <2>1 DEF FreshInv
  <2>3. ChannelsSafe'
    BY <1>0, <2>1, <2>2 DEF ChannelsSafe, TypeOK
  <2>4. FreshInv'
    BY <1>0, <2>1, <2>2 DEF FreshInv, Unborn, TypeOK
  <2> QED BY <1>1, <2>3, <2>4
<1>3. CASE Subscribe(c) /\ ~closed
  <2>1. /\ Unborn(c)
        /\ chan' = chan
        /\ Len(subscribe) < ChanCap
        /\ subscribe' = Append(subscribe, c)
        /\ pc' = [pc EXCEPT ![c] = "active"]
    BY <1>3 DEF Subscribe, HasRoom, Unborn
  <2>2. subscribe = <<>>
    BY <2>1, EmptySeq DEF ChanCap, TypeOK
  <2>3. subscribe' = <<c>> /\ Head(subscribe') = c /\ Len(subscribe') = 1
    BY <2>1, <2>2
  <2>4. ChannelsSafe'
    BY <1>0, <2>1 DEF ChannelsSafe
  <2>5. chan[c] = "open" /\ c \notin subscribers /\ received[c] = <<>>
    BY <2>1 DEF FreshInv
  <2>6. FreshInv'
    BY <1>0, <2>1, <2>3, <2>5 DEF FreshInv, Unborn, TypeOK, ChanCap
  <2> QED BY <1>1, <2>4, <2>6
<1>4. CASE \/ CallSubscribe(c) \/ LockSubscribe(c) \/ CallUnsubscribe(c)
           \/ LockUnsubscribe(c) \/ Unsubscribe(c)
  <2>1. UNCHANGED <<chan, subscribe>>
    BY <1>4 DEF CallSubscribe, LockSubscribe, CallUnsubscribe, LockUnsubscribe,
         Unsubscribe, apiVars
  <2>2. \A d \in Chans : Unborn(d)' => Unborn(d)
    BY <1>4 DEF CallSubscribe, LockSubscribe, CallUnsubscribe, LockUnsubscribe,
         Unsubscribe, Unborn, TypeOK
  <2>3. ChannelsSafe' /\ FreshInv'
    BY <1>0, <2>1, <2>2 DEF ChannelsSafe, FreshInv
  <2> QED BY <1>1, <2>3
<1> QED BY <1>2, <1>3, <1>4 DEF Caller

\* What the end of an iteration does to the channels: while Run is not closing
\* nothing changes, and the subscribers are closed only once.
LEMMA FinishPanic ==
  ASSUME NEW n \in SUBSET {"subscribe", "msg", "done"},
         NEW subs \in SUBSET Chans,
         NEW ch \in [Chans -> {"open", "closed", "panic"}],
         closing \in BOOLEAN,
         \A c \in Chans : ch[c] # "panic",
         ~closing => \A c \in subs : ch[c] = "open",
         FinishIteration(n, subs, ch)
  PROVE  /\ \A c \in Chans : chan'[c] # "panic"
         /\ ~closing' => \A c \in subs : chan'[c] = "open"
         /\ \A c \in Chans \ subs : chan'[c] = ch[c]
<1>1. CASE ~closing /\ n # {}
  <2>1. chan' = CloseAll(subs, ch) /\ closing'
    BY <1>1 DEF FinishIteration
  <2> QED BY <1>1, <2>1 DEF CloseAll
<1>2. CASE closing \/ n = {}
  <2>1. chan' = ch /\ (closing' <=> closing \/ n # {})
    BY <1>2 DEF FinishIteration
  <2> QED BY <1>2, <2>1
<1> QED BY <1>1, <1>2

(* The steps of Run that only receive: the queue is not sent from.          *)
LEMMA RunRecvStep ==
  ASSUME IInv, RunRecv
  PROVE  IndexSafe' /\ ChannelsSafe' /\ FreshInv' /\ CursorInv' /\ GapFree'
<1> USE DEF IInv
<1>a. /\ closing \in BOOLEAN
      /\ nils \in SUBSET {"subscribe", "msg", "done"}
      /\ subscribers \in SUBSET Chans
      /\ chan \in [Chans -> {"open", "closed", "panic"}]
  BY DEF TypeOK
<1>b. /\ \A c \in Chans : chan[c] # "panic"
      /\ ~closing => \A c \in subscribers : chan[c] = "open"
  BY DEF ChannelsSafe
<1>1. CASE RunSubscribe
  <2> DEFINE c == Head(subscribe)
  <2>0. subscribe # <<>> /\ c \in Chans
    BY <1>1, HeadTailProperties DEF RunSubscribe, TypeOK
  <2>1. subscribe' = <<>>
    <3>1. subscribe \in Seq(Chans) /\ Len(subscribe) <= 1
      BY DEF FreshInv, ChanCap, TypeOK
    <3>2. Tail(subscribe) \in Seq(Chans) /\ Len(Tail(subscribe)) = Len(subscribe) - 1
      BY <3>1, <2>0, HeadTailProperties
    <3>3. Tail(subscribe) = <<>>
      BY <3>1, <3>2, EmptySeq
    <3> QED BY <1>1, <3>3 DEF RunSubscribe
  <2>2. UNCHANGED <<pc, received, sent, q, nextQIndex>>
    BY <1>1 DEF RunSubscribe, envVars
  <2>3. chan[c] = "open" /\ c \notin subscribers /\ received[c] = <<>>
    BY <2>0 DEF FreshInv
  <2>4. \A d \in Chans : Unborn(d) => d # c
    BY <2>0 DEF FreshInv
  <2> HIDE DEF c
  <2>5. CASE closing
    <3>1. /\ FinishIteration(nils, subscribers, CloseAll({c}, chan))
          /\ UNCHANGED <<subscribers, nextSendIndex, joinedAt>>
      BY <1>1, <2>5 DEF RunSubscribe, StartIndex, TooLate, c
    <3>2. /\ CloseAll({c}, chan) \in [Chans -> {"open", "closed", "panic"}]
          /\ \A d \in Chans : CloseAll({c}, chan)[d] # "panic"
          /\ \A d \in Chans \ {c} : CloseAll({c}, chan)[d] = chan[d]
      BY <2>3 DEF CloseAll, TypeOK, ChannelsSafe
    <3>3. closing' /\ chan' = CloseAll({c}, chan)
      BY <2>5, <3>1 DEF FinishIteration
    <3>4. ChannelsSafe'
      BY <3>2, <3>3 DEF ChannelsSafe
    <3>5. FreshInv'
      <4>1. \A d \in Chans : Unborn(d)' => chan'[d] = "open" /\ d \notin subscribers'
                                           /\ received'[d] = <<>>
        BY <2>2, <2>4, <3>1, <3>2, <3>3 DEF FreshInv, Unborn
      <4> QED BY <2>1, <4>1 DEF FreshInv, ChanCap
    <3>6. IndexSafe' /\ CursorInv' /\ GapFree'
      BY <2>2, <3>1 DEF IndexSafe, CursorInv, GapFree, qStartIndex
    <3> QED BY <3>4, <3>5, <3>6
  <2>6. CASE ~closing
    <3>1. /\ subscribers' = subscribers \cup {c}
          /\ nextSendIndex' = [nextSendIndex EXCEPT ![c] = nextQIndex]
          /\ joinedAt' = [joinedAt EXCEPT ![c] = sent]
          /\ FinishIteration(nils, subscribers', chan)
      BY <1>1, <2>6 DEF RunSubscribe, StartIndex, TooLate, c
    <3>2. /\ \A d \in Chans : chan'[d] # "panic"
          /\ ~closing' => \A d \in subscribers' : chan'[d] = "open"
          /\ \A d \in Chans \ subscribers' : chan'[d] = chan[d]
      <4>1. /\ subscribers' \in SUBSET Chans
            /\ \A d \in Chans : chan[d] # "panic"
            /\ \A d \in subscribers' : chan[d] = "open"
        BY <2>0, <2>3, <2>6, <3>1 DEF TypeOK, ChannelsSafe
      <4>2. PICK S : S = subscribers'
        OBVIOUS
      <4>3. FinishIteration(nils, S, chan)
        BY <3>1, <4>2 DEF FinishIteration
      <4> QED BY <4>1, <4>2, <4>3, <1>a, FinishPanic
    <3>3. ChannelsSafe'
      BY <3>2 DEF ChannelsSafe
    <3>4. FreshInv'
      BY <2>1, <2>2, <2>4, <3>1, <3>2 DEF FreshInv, Unborn, ChanCap
    <3>5. IndexSafe'
      BY SMTT(20), <2>2, <3>1, <2>0 DEF IndexSafe, qStartIndex, TypeOK
    <3>6. CursorInv'
      <4> SUFFICES ASSUME NEW d \in subscribers'
                   PROVE  /\ sent = joinedAt'[d] + Len(received[d])
                                    + (nextQIndex - nextSendIndex'[d])
                          /\ \A k \in nextSendIndex'[d] - qStartIndex + 1 .. Len(q) :
                               q[k] = sent - Len(q) + k
        BY <2>2 DEF CursorInv, qStartIndex
      <4>1. CASE d = c
        BY <4>1, <2>0, <2>3, <3>1 DEF TypeOK, qStartIndex
      <4>2. CASE d # c
        <5>1. nextSendIndex'[d] = nextSendIndex[d] /\ joinedAt'[d] = joinedAt[d]
              /\ d \in subscribers
          BY <4>2, <3>1 DEF TypeOK
        <5> QED BY <5>1 DEF CursorInv
      <4> QED BY <4>1, <4>2
    <3>7. GapFree'
      <4> SUFFICES ASSUME NEW d \in Chans, NEW i \in 1 .. Len(received[d])
                   PROVE  received[d][i] = joinedAt'[d] + i
        BY <2>2 DEF GapFree
      <4>1. CASE d = c
        BY <4>1, <2>3
      <4>2. CASE d # c
        BY <4>2, <3>1 DEF GapFree, TypeOK
      <4> QED BY <4>1, <4>2
    <3> QED BY <3>3, <3>4, <3>5, <3>6, <3>7
  <2> QED BY <2>5, <2>6 DEF TypeOK
<1>2. CASE RunSubscribeClosed \/ RunMsgClosed \/ RunDone
  <2>1. /\ \E n \in SUBSET {"subscribe", "msg", "done"} :
             FinishIteration(n, subscribers, chan)
        /\ UNCHANGED <<pc, received, subscribe, sent, q, nextQIndex, subscribers,
                       nextSendIndex, joinedAt>>
    BY <1>2 DEF RunSubscribeClosed, RunMsgClosed, RunDone, TypeOK, apiVars,
         envVars, queueVars
  <2>2. ChannelsSafe' /\ \A d \in Chans \ subscribers : chan'[d] = chan[d]
    <3>1. /\ \A d \in Chans : chan'[d] # "panic"
          /\ ~closing' => \A d \in subscribers' : chan'[d] = "open"
          /\ \A d \in Chans \ subscribers' : chan'[d] = chan[d]
      BY <2>1, <1>a, <1>b, FinishPanic
    <3> QED BY <2>1, <3>1 DEF ChannelsSafe
  <2>3. FreshInv'
    BY <2>1, <2>2 DEF FreshInv, Unborn, TypeOK
  <2>4. IndexSafe' /\ CursorInv' /\ GapFree'
    BY <2>1 DEF IndexSafe, CursorInv, GapFree, qStartIndex
  <2> QED BY <2>2, <2>3, <2>4
<1>3. CASE RunUnsubscribe
  <2>1. /\ FinishIteration(nils, subscribers', chan)
        /\ subscribers' \subseteq subscribers
        /\ UNCHANGED <<pc, received, subscribe, sent, q, nextQIndex,
                       nextSendIndex, joinedAt>>
    BY <1>3 DEF RunUnsubscribe, Without, envVars
  <2>2. ChannelsSafe' /\ \A d \in Chans \ subscribers : chan'[d] = chan[d]
    <3>1. /\ \A d \in Chans : chan'[d] # "panic"
          /\ ~closing' => \A d \in subscribers' : chan'[d] = "open"
          /\ \A d \in Chans \ subscribers' : chan'[d] = chan[d]
      <4>1. PICK S : S = subscribers'
        OBVIOUS
      <4>2. FinishIteration(nils, S, chan)
        BY <2>1, <4>1 DEF FinishIteration
      <4>3. S \in SUBSET Chans /\ (~closing => \A d \in S : chan[d] = "open")
        BY <2>1, <4>1, <1>a, <1>b
      <4> QED BY <4>1, <4>2, <4>3, <1>a, <1>b, FinishPanic
    <3> QED BY <2>1, <3>1 DEF ChannelsSafe
  <2>3. FreshInv'
    BY <2>1, <2>2 DEF FreshInv, Unborn, TypeOK
  <2>4. IndexSafe' /\ CursorInv' /\ GapFree'
    BY <2>1 DEF IndexSafe, CursorInv, GapFree, qStartIndex
  <2> QED BY <2>2, <2>3, <2>4
<1>4. CASE RunMsg
  <2>1. /\ FinishIteration(nils, subscribers, chan)
        /\ sent' = sent + 1
        /\ UNCHANGED <<pc, received, subscribe, subscribers, nextSendIndex, joinedAt>>
    BY <1>4 DEF RunMsg, apiVars
  <2>2. ChannelsSafe' /\ \A d \in Chans \ subscribers : chan'[d] = chan[d]
    <3>1. /\ \A d \in Chans : chan'[d] # "panic"
          /\ ~closing' => \A d \in subscribers' : chan'[d] = "open"
          /\ \A d \in Chans \ subscribers' : chan'[d] = chan[d]
      BY <2>1, <1>a, <1>b, FinishPanic
    <3> QED BY <2>1, <3>1 DEF ChannelsSafe
  <2>3. FreshInv'
    BY <2>1, <2>2 DEF FreshInv, Unborn, TypeOK
  <2>4. GapFree'
    BY <2>1 DEF GapFree
  <2>5. CASE subscribers = {}
    BY <1>4, <2>1, <2>2, <2>3, <2>4, <2>5 DEF RunMsg, IndexSafe, CursorInv, qStartIndex
  <2>6. CASE subscribers # {}
    <3>1. q' = Append(q, sent + 1) /\ nextQIndex' = nextQIndex + 1
      BY <1>4, <2>1, <2>6 DEF RunMsg
    <3>2. Len(q) \in Nat /\ Len(q') = Len(q) + 1 /\ q'[Len(q) + 1] = sent + 1
          /\ \A k \in 1 .. Len(q) : q'[k] = q[k]
      BY <3>1, AppendProperties DEF TypeOK
    <3>3. qStartIndex' = qStartIndex
      BY <3>1, <3>2 DEF qStartIndex, TypeOK
    <3>4. IndexSafe'
      BY <2>1, <3>1, <3>2, <3>3 DEF IndexSafe, qStartIndex, TypeOK
    <3>5. ASSUME NEW d \in subscribers
          PROVE  sent' = joinedAt[d] + Len(received[d]) + (nextQIndex' - nextSendIndex[d])
      BY <2>1, <3>1 DEF CursorInv, TypeOK
    <3>6. ASSUME NEW d \in subscribers,
                 NEW k \in nextSendIndex[d] - qStartIndex + 1 .. Len(q')
          PROVE  q'[k] = sent' - Len(q') + k
      <4>1. nextSendIndex[d] - qStartIndex >= 0 /\ nextSendIndex[d] - qStartIndex \in Int
        BY <3>2 DEF IndexSafe, qStartIndex, TypeOK
      <4>2. CASE k = Len(q) + 1
        BY <4>2, <2>1, <3>2 DEF TypeOK
      <4>3. CASE k # Len(q) + 1
        <5>1. k \in nextSendIndex[d] - qStartIndex + 1 .. Len(q) /\ k \in 1 .. Len(q)
          BY <4>1, <4>3, <3>2
        <5>2. q[k] = sent - Len(q) + k
          BY <5>1 DEF CursorInv
        <5> QED BY <5>1, <5>2, <2>1, <3>2 DEF TypeOK
      <4> QED BY <4>2, <4>3
    <3>7. CursorInv'
      BY <2>1, <3>3, <3>5, <3>6 DEF CursorInv
    <3> QED BY <2>2, <2>3, <2>4, <3>4, <3>7
  <2> QED BY <2>5, <2>6
<1> QED BY <1>1, <1>2, <1>3, <1>4 DEF RunRecv

(* Sending advances one cursor and trims q: the others' cursors survive it.  *)
LEMMA RunSendStep ==
  ASSUME IInv, NEW c \in Chans, RunSend(c)
  PROVE  IndexSafe' /\ ChannelsSafe' /\ FreshInv' /\ CursorInv' /\ GapFree'
<1> USE DEF IInv
<1> DEFINE m == q[nextSendIndex[c] - qStartIndex + 1]
<1>1. /\ c \in subscribers /\ ~closing /\ pc[c] = "active"
      /\ nextSendIndex[c] < nextQIndex
      /\ received' = [received EXCEPT ![c] = Append(@, m)]
      /\ nextSendIndex' = [nextSendIndex EXCEPT ![c] = @ + 1]
      /\ q' = TrimQ(subscribers, nextSendIndex')
      /\ FinishIteration(nils, subscribers, chan)
      /\ UNCHANGED <<pc, subscribe, sent, nextQIndex, subscribers, joinedAt>>
  BY DEF RunSend, NextFor, HasWork, apiVars, envVars
<1>2. /\ q \in Seq(Nat) /\ Len(q) \in Nat /\ nextQIndex \in Nat /\ sent \in Nat
      /\ Len(q) <= nextQIndex
      /\ subscribers \in SUBSET Chans
      /\ nextSendIndex \in [Chans -> Nat] /\ joinedAt \in [Chans -> Nat]
      /\ received \in [Chans -> Seq(Nat)]
  BY DEF TypeOK, IndexSafe
<1>3. /\ nextSendIndex' \in [Chans -> Nat]
      /\ \A d \in subscribers : nextSendIndex'[d] \in qStartIndex .. nextQIndex
  BY SMTT(30), <1>1, <1>2 DEF IndexSafe, qStartIndex
<1>4. /\ q' \in Seq(Nat)
      /\ Len(q') <= Len(q)
      /\ \A d \in subscribers : nextQIndex - Len(q') <= nextSendIndex'[d]
      /\ \A k \in 1 .. Len(q') : q'[k] = q[k + Len(q) - Len(q')]
  <2>1. /\ q' = TrimQ(subscribers, nextSendIndex') /\ subscribers \in SUBSET Chans
        /\ nextSendIndex' \in [Chans -> Nat]
        /\ \A d \in subscribers : nextSendIndex'[d] \in qStartIndex .. nextQIndex
    BY ONLY <1>1, <1>2, <1>3
  <2>2. q \in Seq(Nat) /\ nextQIndex \in Nat /\ Len(q) <= nextQIndex
    BY ONLY <1>2
  <2> QED BY ONLY ZenonT(30), <2>1, <2>2, TrimQProps
<1>5. Len(q') \in Nat
  BY <1>4
<1>6. IndexSafe'
  <2>1. nextQIndex' = nextQIndex /\ subscribers' = subscribers
    BY <1>1
  <2>2. Len(q') <= nextQIndex
    BY <1>2, <1>4, <1>5
  <2>3. ASSUME NEW d \in subscribers
        PROVE  nextSendIndex'[d] \in nextQIndex - Len(q') .. nextQIndex
    <3>1. nextSendIndex'[d] \in Nat /\ nextSendIndex'[d] <= nextQIndex
      BY <1>2, <1>3
    <3>2. nextQIndex - Len(q') <= nextSendIndex'[d]
      BY <1>4
    <3> QED BY <3>1, <3>2, <1>2, <1>5
  <2> QED BY <2>1, <2>2, <2>3 DEF IndexSafe, qStartIndex
<1>7. ChannelsSafe' /\ \A d \in Chans \ subscribers : chan'[d] = chan[d]
  <2>1. /\ closing \in BOOLEAN /\ nils \in SUBSET {"subscribe", "msg", "done"}
        /\ chan \in [Chans -> {"open", "closed", "panic"}]
        /\ \A d \in Chans : chan[d] # "panic"
        /\ ~closing => \A d \in subscribers : chan[d] = "open"
    BY DEF TypeOK, ChannelsSafe
  <2>2. /\ \A d \in Chans : chan'[d] # "panic"
        /\ ~closing' => \A d \in subscribers : chan'[d] = "open"
        /\ \A d \in Chans \ subscribers : chan'[d] = chan[d]
    <3>1. FinishIteration(nils, subscribers, chan) /\ subscribers \in SUBSET Chans
      BY <1>1, <1>2
    <3> QED BY <2>1, <3>1, FinishPanic
  <2> QED BY <1>1, <2>2 DEF ChannelsSafe
<1>8. FreshInv'
  <2>1. \A d \in Chans : d # c => received'[d] = received[d]
    BY <1>1, <1>2
  <2>2. ASSUME NEW d \in Chans, Unborn(d)'
        PROVE  /\ chan'[d] = "open" /\ d \notin subscribers'
               /\ subscribe' # <<>> => Head(subscribe') # d
               /\ received'[d] = <<>>
    <3>1. Unborn(d) /\ d # c
      BY <1>1, <2>2 DEF Unborn
    <3> QED BY <1>1, <1>7, <2>1, <3>1 DEF FreshInv
  <2>3. ASSUME subscribe # <<>>
        PROVE  /\ chan'[Head(subscribe)] = "open"
               /\ Head(subscribe) \notin subscribers'
               /\ received'[Head(subscribe)] = <<>>
    <3>1. Head(subscribe) \in Chans
      BY <2>3, HeadTailProperties DEF TypeOK
    <3>2. Head(subscribe) # c
      BY <1>1, <2>3 DEF FreshInv
    <3> QED BY <1>1, <1>7, <2>1, <2>3, <3>1, <3>2 DEF FreshInv
  <2> QED BY <1>1, <2>2, <2>3 DEF FreshInv
<1>9. /\ nextSendIndex[c] - qStartIndex + 1 \in 1 .. Len(q)
      /\ m = sent - Len(q) + (nextSendIndex[c] - qStartIndex + 1)
  <2>1. nextSendIndex[c] - qStartIndex + 1 \in 1 .. Len(q)
    BY <1>1, <1>2 DEF IndexSafe, qStartIndex
  <2>2. nextSendIndex[c] - qStartIndex + 1
          \in nextSendIndex[c] - qStartIndex + 1 .. Len(q)
    BY <2>1, <1>2
  <2> QED BY <1>1, <2>1, <2>2 DEF CursorInv
<1>10. /\ sent = joinedAt[c] + Len(received[c]) + (nextQIndex - nextSendIndex[c])
       /\ Len(received[c]) \in Nat
  BY <1>1, <1>2 DEF CursorInv
<1>11. m = joinedAt[c] + Len(received[c]) + 1 /\ m \in Nat
  <2>1. nextSendIndex[c] \in Nat /\ joinedAt[c] \in Nat
    BY <1>2
  <2>2. m = sent - Len(q) + (nextSendIndex[c] - (nextQIndex - Len(q)) + 1)
    BY <1>9 DEF qStartIndex
  <2> HIDE DEF m
  <2> QED BY SMTT(30), <2>1, <2>2, <1>2, <1>10
<1> HIDE DEF m
<1>12. /\ received'[c] = Append(received[c], m)
       /\ Len(received'[c]) = Len(received[c]) + 1
       /\ received'[c][Len(received[c]) + 1] = m
       /\ \A i \in 1 .. Len(received[c]) : received'[c][i] = received[c][i]
       /\ \A d \in Chans : d # c => received'[d] = received[d]
  BY <1>1, <1>2, <1>11, AppendProperties
<1>13. GapFree'
  <2> SUFFICES ASSUME NEW d \in Chans, NEW i \in 1 .. Len(received'[d])
               PROVE  received'[d][i] = joinedAt[d] + i
    BY <1>1 DEF GapFree
  <2>1. CASE d # c
    BY <2>1, <1>12 DEF GapFree
  <2>2. CASE d = c /\ i \in 1 .. Len(received[c])
    BY <2>2, <1>12 DEF GapFree
  <2>3. CASE d = c /\ i = Len(received[c]) + 1
    BY <2>3, <1>2, <1>10, <1>11, <1>12
  <2> QED BY <2>1, <2>2, <2>3, <1>10, <1>12
<1>14. CursorInv'
  <2> SUFFICES ASSUME NEW d \in subscribers
               PROVE  /\ sent = joinedAt[d] + Len(received'[d])
                                + (nextQIndex - nextSendIndex'[d])
                      /\ \A k \in nextSendIndex'[d] - qStartIndex' + 1 .. Len(q') :
                           q'[k] = sent - Len(q') + k
    BY <1>1 DEF CursorInv
  <2>1. sent = joinedAt[d] + Len(received'[d]) + (nextQIndex - nextSendIndex'[d])
    <3>1. CASE d = c
      BY <3>1, <1>1, <1>2, <1>10, <1>12
    <3>2. CASE d # c
      <4>1. received'[d] = received[d] /\ nextSendIndex'[d] = nextSendIndex[d]
        BY <3>2, <1>1, <1>2, <1>12
      <4> QED BY <4>1 DEF CursorInv
    <3> QED BY <3>1, <3>2
  <2>2. ASSUME NEW k \in nextSendIndex'[d] - qStartIndex' + 1 .. Len(q')
        PROVE  q'[k] = sent - Len(q') + k
    <3> DEFINE j == k + Len(q) - Len(q')
    <3>1. qStartIndex' = nextQIndex - Len(q') /\ qStartIndex = nextQIndex - Len(q)
      BY <1>1 DEF qStartIndex
    <3>2. /\ nextSendIndex'[d] \in Nat /\ nextSendIndex[d] \in Nat
          /\ nextSendIndex[d] <= nextSendIndex'[d]
      BY <1>1, <1>2
    <3>3. k \in 1 .. Len(q')
      BY SMTT(30), <2>2, <3>1, <3>2, <1>2, <1>4, <1>5
    <3>4. j \in nextSendIndex[d] - qStartIndex + 1 .. Len(q)
      <4>1. /\ k \in Int /\ k <= Len(q')
            /\ nextSendIndex'[d] - qStartIndex' + 1 <= k
        BY <3>1, <3>2, <1>2, <1>5
      <4>2. /\ nextQIndex \in Nat /\ Len(q) \in Nat /\ Len(q') \in Nat
        BY <1>2, <1>5
      <4> QED BY ONLY SMTT(30), <4>1, <4>2, <3>1, <3>2 DEF j
    <3>5. q[j] = sent - Len(q) + j
      BY <3>4 DEF CursorInv
    <3>6. q'[k] = q[j]
      BY <3>3, <1>4
    <3> QED BY <3>3, <3>5, <3>6, <1>2, <1>5
  <2> QED BY <2>1, <2>2
<1> QED BY <1>6, <1>7, <1>8, <1>13, <1>14

LEMMA StepIInv == IInv /\ [Next]_vars => IInv'
<1> SUFFICES ASSUME IInv, [Next]_vars PROVE IInv'
  OBVIOUS
<1>0. TypeOK'
  BY TypeStep
<1>1. ASSUME NEW c \in Chans, Caller(c) PROVE IInv'
  BY <1>0, <1>1, CallerStep DEF IInv
<1>2. CASE CallClose \/ Close \/ Cancel \/ CloseSource \/ UNCHANGED vars
  <2>1. UNCHANGED <<pc, chan, received, subscribe, sent, closing, q, nextQIndex,
                    subscribers, nextSendIndex, joinedAt>>
    BY <1>2 DEF CallClose, Close, Cancel, CloseSource, vars, callerVars, apiVars,
         envVars, runVars, queueVars
  <2> QED BY <1>0, <2>1 DEF IInv, IndexSafe, ChannelsSafe, FreshInv, Unborn, CursorInv,
            GapFree, qStartIndex
<1>3. CASE RunRecv
  BY <1>0, <1>3, RunRecvStep DEF IInv
<1>4. ASSUME NEW c \in Chans, RunSend(c) PROVE IInv'
  BY <1>0, <1>4, RunSendStep DEF IInv
<1> QED BY <1>1, <1>2, <1>3, <1>4 DEF Next, AllReturned

THEOREM Invariance == Spec => []IInv
BY InitIInv, StepIInv, PTL DEF Spec

-----------------------------------------------------------------------------
\* Every variable of the broadcaster keeps its type.
THEOREM TypeCorrect == Spec => []TypeOK
<1>1. IInv => TypeOK
  BY DEF IInv
<1> QED BY <1>1, Invariance, PTL

\* Run's index is in range, no channel is closed twice and none is sent on after it
\* was closed.
THEOREM PanicFreedom == Spec => []NoPanic
<1>1. IInv => NoPanic
  BY DEF IInv, NoPanic
<1> QED BY <1>1, Invariance, PTL

\* Every subscriber reads the messages sent since it joined without a gap, a
\* repetition or a change of order.
THEOREM GapFreedom == Spec => []GapFree
<1>1. IInv => GapFree
  BY DEF IInv
<1> QED BY <1>1, Invariance, PTL
-----------------------------------------------------------------------------
(* The queue: what is kept of it, and for whom.                             *)

\* A reader that has left is forgotten once Run takes its Unsubscribe: b.unsubscribe
\* holds one channel, and only a channel that is not in use yet can join.
LEMMA LeaverStep ==
  ASSUME IInv, LeaverRemoved, [Next]_vars
  PROVE  LeaverRemoved'
<1> SUFFICES ASSUME NEW c \in Chans, pc'[c] = "gone", received'[c] # <<>>, ~closed',
                    ~Buffered(c, unsubscribe')
             PROVE  c \notin subscribers'
  BY DEF LeaverRemoved
<1>1. TypeOK /\ FreshInv
  BY DEF IInv
<1>2. ~closed
  BY DEF Next, Caller, CallSubscribe, LockSubscribe, Subscribe, CallUnsubscribe, LockUnsubscribe,
         Unsubscribe, CallClose, Close, Cancel, CloseSource, RunRecv, RunSubscribe,
         RunSubscribeClosed, RunUnsubscribe, RunMsg, RunMsgClosed, RunDone, RunSend, AllReturned,
         vars, callerVars, apiVars
<1>3. received'[c] = received[c]
  <2>1. CASE \E d \in Chans : RunSend(d)
    BY <1>1, <2>1 DEF RunSend, TypeOK
  <2>2. CASE ~\E d \in Chans : RunSend(d)
    BY <2>2 DEF Next, Caller, CallSubscribe, LockSubscribe, Subscribe, CallUnsubscribe,
         LockUnsubscribe, Unsubscribe, CallClose, Close, Cancel, CloseSource, RunRecv,
         RunSubscribe, RunSubscribeClosed, RunUnsubscribe, RunMsg, RunMsgClosed, RunDone,
         AllReturned, vars, callerVars
  <2> QED BY <2>1, <2>2
<1>4. CASE \E d \in Chans : Caller(d)
  <2>1. PICK d \in Chans : Caller(d)
    BY <1>4
  <2>2. subscribers' = subscribers
    BY <2>1 DEF Caller, CallSubscribe, LockSubscribe, Subscribe, CallUnsubscribe,
         LockUnsubscribe, Unsubscribe, queueVars
  <2>3. CASE pc[c] = "gone"
    <3>1. \/ unsubscribe' = unsubscribe
          \/ HasRoom(unsubscribe) /\ unsubscribe' = Append(unsubscribe, d)
      BY <2>1 DEF Caller, CallSubscribe, LockSubscribe, Subscribe, CallUnsubscribe,
         LockUnsubscribe, Unsubscribe, apiVars
    <3>2. ~Buffered(c, unsubscribe)
      BY <1>1, <3>1 DEF Buffered, HasRoom, ChanCap, TypeOK
    <3> QED BY <1>2, <1>3, <2>2, <2>3, <3>2 DEF LeaverRemoved
  <2>4. CASE pc[c] # "gone"
    <3>1. Unsubscribe(c)
      BY <1>1, <2>1, <2>4 DEF Caller, CallSubscribe, LockSubscribe, Subscribe, CallUnsubscribe,
         LockUnsubscribe, Unsubscribe, TypeOK
    <3>2. unsubscribe' = Append(unsubscribe, c) /\ unsubscribe \in Seq(Chans)
      BY <1>1, <1>2, <3>1 DEF Unsubscribe, UnsubscribeIsVoid, TypeOK
    <3>3. Len(unsubscribe') = Len(unsubscribe) + 1 /\ unsubscribe'[Len(unsubscribe) + 1] = c
          /\ Len(unsubscribe) \in Nat
      BY <3>2, AppendProperties
    <3>4. Buffered(c, unsubscribe')
      BY <3>3 DEF Buffered
    <3> QED BY <3>4
  <2> QED BY <2>3, <2>4
<1>5. CASE RunUnsubscribe
  <2>1. subscribers' = subscribers \ {Head(unsubscribe)} /\ unsubscribe # <<>> /\ pc' = pc
    BY <1>5 DEF RunUnsubscribe, Without
  <2>2. Buffered(c, unsubscribe) => Head(unsubscribe) = c
    BY <1>1, <2>1 DEF Buffered, ChanCap, TypeOK
  <2> QED BY <1>2, <1>3, <2>1, <2>2 DEF LeaverRemoved
<1>6. CASE RunSubscribe
  <2>1. /\ subscribe # <<>> /\ pc' = pc /\ unsubscribe' = unsubscribe
        /\ subscribers' \in {subscribers, subscribers \cup {Head(subscribe)}}
    BY <1>6 DEF RunSubscribe
  <2>2. received[Head(subscribe)] = <<>>
    BY <1>1, <2>1 DEF FreshInv
  <2> QED BY <1>2, <1>3, <2>1, <2>2 DEF LeaverRemoved
<1>7. CASE ~(\E d \in Chans : Caller(d)) /\ ~RunUnsubscribe /\ ~RunSubscribe
  <2>1. UNCHANGED <<pc, unsubscribe, subscribers>>
    BY <1>7 DEF Next, CallClose, Close, Cancel, CloseSource, RunRecv, RunSubscribeClosed, RunMsg,
         RunMsgClosed, RunDone, RunSend, AllReturned, vars, callerVars, apiVars, envVars, queueVars
  <2> QED BY <1>2, <1>3, <2>1 DEF LeaverRemoved
<1> QED BY <1>4, <1>5, <1>6, <1>7

\* After a send, less than half of what trimQ keeps is of no use to anybody.
LEMMA CompactedStep ==
  ASSUME IInv, NEW c \in Chans, RunSend(c)
  PROVE  q' = <<>> \/ \E d \in subscribers : Len(q') < 2 * (nextQIndex - nextSendIndex'[d])
<1>1. /\ q' = TrimQ(subscribers, nextSendIndex') /\ c \in subscribers
      /\ nextSendIndex[c] < nextQIndex
      /\ nextSendIndex' = [nextSendIndex EXCEPT ![c] = @ + 1]
  BY DEF RunSend, HasWork
<1>2. /\ q \in Seq(Nat) /\ Len(q) \in Nat /\ nextQIndex \in Nat /\ subscribers \in SUBSET Chans
      /\ nextSendIndex' \in [Chans -> Nat] /\ Len(q) <= nextQIndex
      /\ \A d \in subscribers : nextSendIndex'[d] >= nextQIndex - Len(q)
  BY <1>1 DEF IInv, TypeOK, IndexSafe, qStartIndex
<1> DEFINE nsi == nextSendIndex'
           need == NeedIndex(subscribers, nsi)
           nNeed == nextQIndex - need
           nDiscard == Len(q) - nNeed
<1> HIDE DEF nsi
<1>3. /\ need \in Nat /\ need <= nextQIndex
      /\ need = nextQIndex \/ \E d \in subscribers : need = nsi[d]
  BY <1>2, NeedIndexProps DEF nsi
<1>4. q' = IF nNeed = 0 THEN <<>>
           ELSE IF nDiscard >= nNeed THEN SubSeq(q, nDiscard + 1, Len(q)) ELSE q
  BY <1>1 DEF TrimQ, nsi
<1> HIDE DEF need
<1>5. CASE nNeed # 0
  <2>1. PICK d \in subscribers : need = nsi[d]
    BY <1>3, <1>5
  <2>2. nNeed \in Nat /\ nNeed > 0 /\ nDiscard \in Nat
    BY <1>2, <1>3, <1>5, <2>1 DEF nsi
  <2>3. CASE nDiscard >= nNeed
    <3>1. q' = SubSeq(q, nDiscard + 1, Len(q))
      BY <1>4, <1>5, <2>3
    <3>2. Len(q') = nNeed
      <4>1. /\ nDiscard + 1 \in 1 .. Len(q) /\ Len(q) \in Int /\ nDiscard + 1 \in Int
            /\ Len(q) - (nDiscard + 1) + 1 = nNeed
        BY <1>2, <2>2
      <4>2. \A i \in nDiscard + 1 .. Len(q) : q[i] \in Nat
        BY <1>2, <4>1
      <4> HIDE DEF nDiscard, nNeed
      <4> QED BY <3>1, <4>1, <4>2, SubSeqProperties
    <3>3. Len(q') < 2 * nNeed
      BY ONLY <2>2, <3>2
    <3> QED BY <2>1, <3>3 DEF nsi
  <2>4. CASE ~(nDiscard >= nNeed)
    <3>1. Len(q') < 2 * nNeed
      BY <1>2, <1>4, <1>5, <2>2, <2>4
    <3> QED BY <2>1, <3>1 DEF nsi
  <2> QED BY <2>3, <2>4
<1> QED BY <1>4, <1>5

\* Of a channel of capacity 1, receiving takes all there is.
LEMMA OneBuffered ==
  ASSUME NEW ch \in Seq(Chans), Len(ch) <= 1, ch # <<>>
  PROVE  Head(ch) = ch[1] /\ Len(ch) = 1 /\ Len(Tail(ch)) = 0
<1>1. Len(ch) \in Nat /\ Len(ch) # 0
  BY EmptySeq
<1>2. Len(ch) = 1
  BY <1>1
<1>3. Head(ch) = ch[1] /\ Len(Tail(ch)) = Len(ch) - 1
  BY HeadTailProperties
<1> QED BY <1>2, <1>3

\* What waits in b.unsubscribe has left.
LeaversGone == \A i \in 1 .. Len(unsubscribe) : pc[unsubscribe[i]] = "gone"

LEMMA LeaversStep ==
  ASSUME IInv, LeaversGone, [Next]_vars
  PROVE  LeaversGone'
<1>1. TypeOK
  BY DEF IInv
<1>2. CASE \E d \in Chans : Caller(d)
  <2>1. PICK d \in Chans : Caller(d)
    BY <1>2
  <2>2. pc[d] # "gone" /\ \A c \in Chans \ {d} : pc'[c] = pc[c]
    BY <1>1, <2>1 DEF Caller, CallSubscribe, LockSubscribe, Subscribe, CallUnsubscribe,
         LockUnsubscribe, Unsubscribe, TypeOK
  <2>3. CASE unsubscribe' = unsubscribe
    BY <1>1, <2>2, <2>3 DEF LeaversGone, TypeOK
  <2>4. CASE unsubscribe' # unsubscribe
    <3>1. /\ pc'[d] = "gone" /\ unsubscribe' = Append(unsubscribe, d)
          /\ Len(unsubscribe) = 0
      BY <1>1, <2>1, <2>4 DEF Caller, CallSubscribe, LockSubscribe, Subscribe, CallUnsubscribe,
         LockUnsubscribe, Unsubscribe, TypeOK, HasRoom, ChanCap, apiVars
    <3>2. unsubscribe \in Seq(Chans)
      BY <1>1 DEF TypeOK
    <3>3. Len(unsubscribe') = 1 /\ unsubscribe'[1] = d
      BY <3>1, <3>2, AppendProperties
    <3> QED BY <3>1, <3>3 DEF LeaversGone
  <2> QED BY <2>3, <2>4
<1>3. CASE RunUnsubscribe
  <2>1. unsubscribe' = Tail(unsubscribe) /\ unsubscribe # <<>> /\ unsubscribe \in Seq(Chans)
        /\ Len(unsubscribe) <= 1
    BY <1>1, <1>3 DEF RunUnsubscribe, TypeOK, ChanCap
  <2>2. Len(unsubscribe') = 0
    BY <2>1, OneBuffered
  <2> QED BY <2>2 DEF LeaversGone
<1>4. CASE ~(\E d \in Chans : Caller(d)) /\ ~RunUnsubscribe
  <2>1. UNCHANGED <<pc, unsubscribe>>
    BY <1>4 DEF Next, CallClose, Close, Cancel, CloseSource, RunRecv, RunSubscribe,
         RunSubscribeClosed, RunMsg, RunMsgClosed, RunDone, RunSend, AllReturned, vars,
         callerVars, apiVars
  <2> QED BY <2>1 DEF LeaversGone
<1> QED BY <1>2, <1>3, <1>4

\* The length of q against the backlog of c.
Bounds(c) == Joined(c) /\ Backlog(c) <= Len(q) /\ Len(q) < 2 * Backlog(c)

\* What changes neither q nor what has been joined keeps the bound.
LEMMA BoundKept ==
  ASSUME IInv, NEW c \in Chans, Bounds(c), Joined(c)', nextSendIndex'[c] = nextSendIndex[c],
         UNCHANGED <<q, nextQIndex>>
  PROVE  Bounds(c)'
<1> QED BY DEF Bounds, Backlog

\* An empty queue has no backlog in it.
LEMMA BoundNonempty ==
  ASSUME IInv, KeptForSomebody, ~closing, q # <<>>
  PROVE  \E c \in Chans : Bounds(c)
<1> QED BY DEF KeptForSomebody, Bounds

\* A reader that has joined stays so, whether a caller moves, another subscribes or it
\* leaves itself: its Unsubscribe is taken when it is gone.
LEMMA JoinedStays ==
  ASSUME IInv, LeaversGone, Next, ~closing, ~closing', NEW c \in Chans, Joined(c),
         ~\E d \in Chans : RunSend(d)
  PROVE  Joined(c)' /\ nextSendIndex'[c] = nextSendIndex[c]
<1>1. /\ TypeOK /\ FreshInv /\ ChannelsSafe
      /\ subscribe \in Seq(Chans) /\ unsubscribe \in Seq(Chans)
      /\ Len(subscribe) \in 0 .. 1 /\ Len(unsubscribe) \in 0 .. 1
  <2>1. TypeOK /\ FreshInv /\ ChannelsSafe
    BY DEF IInv
  <2>2. /\ subscribe \in Seq(Chans) /\ unsubscribe \in Seq(Chans)
        /\ Len(subscribe) <= 1 /\ Len(unsubscribe) <= 1
    BY <2>1 DEF TypeOK, ChanCap
  <2>3. Len(subscribe) \in Nat /\ Len(unsubscribe) \in Nat
    BY <2>2, LenProperties
  <2>4. Len(subscribe) \in 0 .. 1 /\ Len(unsubscribe) \in 0 .. 1
    <3>1. ASSUME NEW n \in Nat, n <= 1 PROVE n \in 0 .. 1
      BY ONLY <3>1
    <3> QED BY ONLY <2>2, <2>3, <3>1, Zenon
  <2> QED BY <2>1, <2>2, <2>4, Zenon
<1>2. /\ subscribe # <<>> => /\ Head(subscribe) = subscribe[1] /\ Len(subscribe) = 1
                              /\ Len(Tail(subscribe)) = 0
      /\ unsubscribe # <<>> => Head(unsubscribe) = unsubscribe[1] /\ Len(unsubscribe) = 1
  BY <1>1, OneBuffered
<1>3. c \in subscribers => chan[c] = "open" /\ ~Buffered(c, subscribe)
  <2>1. c \in subscribers => chan[c] = "open"
    BY <1>1 DEF ChannelsSafe
  <2>2. ASSUME c \in subscribers, NEW i \in 1 .. Len(subscribe), subscribe[i] = c PROVE FALSE
    <3>1. i = 1 /\ subscribe # <<>>
      BY <1>1, <2>2
    <3> QED BY <1>1, <1>2, <2>2, <3>1 DEF FreshInv
  <2> QED BY <2>1, <2>2 DEF Buffered
<1>4. CASE \E d \in Chans : Caller(d)
  <2>1. PICK d \in Chans : Caller(d)
    BY <1>4
  <2>2. subscribers' = subscribers /\ nextSendIndex' = nextSendIndex
    BY <2>1 DEF Caller, CallSubscribe, LockSubscribe, Subscribe, CallUnsubscribe,
         LockUnsubscribe, Unsubscribe, queueVars
  <2>3. ASSUME pc[c] = "gone", chan[c] = "open", ~Buffered(c, subscribe)
        PROVE  pc'[c] = "gone" /\ chan'[c] = "open" /\ ~Buffered(c, subscribe')
    <3>1. d # c
      BY <2>1, <2>3 DEF Caller, CallSubscribe, LockSubscribe, Subscribe, CallUnsubscribe,
         LockUnsubscribe, Unsubscribe
    <3>2. pc'[c] = pc[c] /\ chan'[c] = chan[c]
      BY <1>1, <2>1, <3>1 DEF Caller, CallSubscribe, LockSubscribe, Subscribe, CallUnsubscribe,
         LockUnsubscribe, Unsubscribe, TypeOK
    <3>3. \/ subscribe' = subscribe
          \/ Len(subscribe) = 0 /\ subscribe' = Append(subscribe, d)
      BY <1>1, <2>1 DEF Caller, CallSubscribe, LockSubscribe, Subscribe, CallUnsubscribe,
         LockUnsubscribe, Unsubscribe, HasRoom, ChanCap, apiVars
    <3>4. Len(subscribe) = 0 /\ subscribe' = Append(subscribe, d)
          => Len(subscribe') = 1 /\ subscribe'[1] = d
      BY <1>1, AppendProperties
    <3>5. ~Buffered(c, subscribe')
      BY <2>3, <3>1, <3>3, <3>4 DEF Buffered
    <3> QED BY <2>3, <3>2, <3>5
  <2> QED BY <2>2, <2>3 DEF Joined
<1>5. CASE RunSubscribe
  <2>1. /\ subscribe # <<>> /\ pc' = pc /\ subscribe' = Tail(subscribe)
        /\ subscribers' = subscribers \cup {Head(subscribe)}
        /\ nextSendIndex' = [nextSendIndex EXCEPT ![Head(subscribe)] = StartIndex]
        /\ FinishIteration(nils, subscribers', chan)
    BY <1>5 DEF RunSubscribe, TooLate
  <2>2. c # Head(subscribe)
    <3>1. c \in subscribers => c # Head(subscribe)
      BY <1>1, <2>1 DEF FreshInv
    <3>2. Head(subscribe) = subscribe[1] /\ 1 \in 1 .. Len(subscribe)
      BY <1>2, <2>1
    <3>3. ~Buffered(c, subscribe) => c # Head(subscribe)
      BY <3>2 DEF Buffered
    <3> QED BY <3>1, <3>3 DEF Joined
  <2>3. nextSendIndex'[c] = nextSendIndex[c]
    BY <1>1, <2>1, <2>2 DEF TypeOK
  <2>4. chan' = chan
    BY <2>1 DEF FinishIteration
  <2>5. ~Buffered(c, subscribe')
    BY <1>2, <2>1 DEF Buffered
  <2> QED BY <2>1, <2>3, <2>4, <2>5 DEF Joined
<1>6. CASE RunUnsubscribe
  <2>1. /\ unsubscribe # <<>> /\ subscribers' = subscribers \ {Head(unsubscribe)}
        /\ pc' = pc /\ subscribe' = subscribe /\ nextSendIndex' = nextSendIndex
        /\ FinishIteration(nils, subscribers', chan)
    BY <1>6 DEF RunUnsubscribe, Without
  <2>2. chan' = chan
    BY <2>1 DEF FinishIteration
  <2>3. c \in subscribers \ subscribers' => pc[c] = "gone"
    <3>1. c \in subscribers \ subscribers' => c = unsubscribe[1] /\ 1 \in 1 .. Len(unsubscribe)
      BY <1>2, <2>1
    <3> QED BY <3>1 DEF LeaversGone
  <2> QED BY <1>3, <2>1, <2>2, <2>3 DEF Joined
<1>7. CASE ~(\E d \in Chans : Caller(d)) /\ ~RunUnsubscribe /\ ~RunSubscribe
  <2>1. UNCHANGED <<pc, subscribers, nextSendIndex, subscribe>>
    BY <1>7 DEF Next, CallClose, Close, Cancel, CloseSource, RunRecv, RunSubscribeClosed, RunMsg,
         RunMsgClosed, RunDone, AllReturned, vars, callerVars, apiVars, envVars, queueVars
  <2>2. chan' = chan
    BY <1>7 DEF Next, CallClose, Close, Cancel, CloseSource, RunRecv, RunSubscribeClosed, RunMsg,
         RunMsgClosed, RunDone, AllReturned, vars, callerVars, FinishIteration
  <2> QED BY <2>1, <2>2 DEF Joined
<1> QED BY <1>4, <1>5, <1>6, <1>7

LEMMA KeptStep ==
  ASSUME IInv, LeaversGone, KeptForSomebody, [Next]_vars
  PROVE  KeptForSomebody'
<1> SUFFICES ASSUME Next, ~closing', q' # <<>> PROVE \E c \in Chans : Bounds(c)'
  BY DEF KeptForSomebody, Bounds, Joined, Backlog, vars, callerVars, apiVars, runVars, queueVars
<1>1. /\ TypeOK /\ IndexSafe /\ ChannelsSafe
      /\ q \in Seq(Nat) /\ Len(q) \in Nat /\ nextQIndex \in Nat /\ subscribers \in SUBSET Chans
      /\ nextSendIndex \in [Chans -> Nat] /\ Len(q) <= nextQIndex
      /\ \A d \in subscribers : /\ nextSendIndex[d] >= nextQIndex - Len(q)
                                /\ nextSendIndex[d] <= nextQIndex
  BY DEF IInv, TypeOK, IndexSafe, qStartIndex
<1>2. ~closing
  BY DEF Next, Caller, CallSubscribe, LockSubscribe, Subscribe, CallUnsubscribe, LockUnsubscribe,
         Unsubscribe, CallClose, Close, Cancel, CloseSource, RunRecv, RunSubscribe,
         RunSubscribeClosed, RunUnsubscribe, RunMsg, RunMsgClosed, RunDone, RunSend, AllReturned,
         vars, runVars, FinishIteration
<1>3. CASE \E d \in Chans : RunSend(d)
  <2>1. PICK d \in Chans : RunSend(d)
    BY <1>3
  <2>2. PICK c \in subscribers : Len(q') < 2 * (nextQIndex - nextSendIndex'[c])
    BY <2>1, CompactedStep
  <2>3. subscribers' = subscribers /\ nextQIndex' = nextQIndex
    BY <2>1 DEF RunSend
  <2>4. IndexSafe'
    BY StepIInv DEF IInv
  <2>5. c \in Chans /\ nextSendIndex'[c] \in nextQIndex - Len(q') .. nextQIndex
    BY <1>1, <2>2, <2>3, <2>4 DEF IndexSafe, qStartIndex
  <2>6. TypeOK'
    BY StepIInv DEF IInv
  <2>7. Len(q') \in Nat /\ nextSendIndex'[c] \in Nat
    BY <2>5, <2>6 DEF TypeOK
  <2>8. nextQIndex - nextSendIndex'[c] <= Len(q')
    BY <1>1, <2>5, <2>7
  <2> QED BY <2>2, <2>3, <2>5, <2>8 DEF Bounds, Joined, Backlog
<1>4. CASE RunMsg
  <2>1. CASE subscribers = {}
    <3>1. UNCHANGED <<q, nextQIndex>>
      BY <1>4, <2>1 DEF RunMsg
    <3>2. PICK c \in Chans : Bounds(c)
      BY <1>2, <3>1, BoundNonempty
    <3>3. Joined(c)' /\ nextSendIndex'[c] = nextSendIndex[c]
      <4>1. Joined(c)
        BY <3>2 DEF Bounds
      <4>2. ~\E d \in Chans : RunSend(d)
        BY <2>1 DEF RunSend, HasWork
      <4> QED BY <1>2, <4>1, <4>2, JoinedStays
    <3> QED BY <3>1, <3>2, <3>3, BoundKept
  <2>2. CASE subscribers # {}
    <3>1. /\ q' = Append(q, sent') /\ nextQIndex' = nextQIndex + 1 /\ subscribers' = subscribers
          /\ nextSendIndex' = nextSendIndex /\ sent' = sent + 1 /\ sent \in Nat
      BY <1>1, <1>4, <2>2 DEF RunMsg, TypeOK
    <3>2. Len(q') = Len(q) + 1
      BY <1>1, <3>1, AppendProperties
    <3>3. CASE q = <<>>
      <4>1. PICK c \in subscribers : TRUE
        BY <2>2
      <4>2. Len(q) = 0 /\ nextSendIndex[c] \in Nat
        BY <1>1, <3>3
      <4>3. nextSendIndex[c] = nextQIndex
        BY <1>1, <4>1, <4>2
      <4>4. Backlog(c)' = 1
        BY <1>1, <3>1, <4>3 DEF Backlog
      <4> QED BY <1>1, <3>1, <3>2, <4>1, <4>2, <4>4 DEF Bounds, Joined
    <3>4. CASE q # <<>>
      <4>1. PICK c \in Chans : Bounds(c)
        BY <1>2, <3>4, BoundNonempty
      <4>2. Joined(c)'
        BY <1>2, <1>4, <3>1, <4>1 DEF Bounds, Joined, RunMsg, FinishIteration, apiVars
      <4>3. Backlog(c)' = Backlog(c) + 1 /\ Backlog(c) \in Int
        BY <1>1, <3>1 DEF Backlog
      <4> QED BY <1>1, <3>2, <4>1, <4>2, <4>3 DEF Bounds
    <3> QED BY <3>3, <3>4
  <2> QED BY <2>1, <2>2
<1>5. CASE ~(\E d \in Chans : RunSend(d)) /\ ~RunMsg
  <2>1. UNCHANGED <<q, nextQIndex>>
    BY <1>5 DEF Next, Caller, CallSubscribe, LockSubscribe, Subscribe, CallUnsubscribe,
         LockUnsubscribe, Unsubscribe, CallClose, Close, Cancel, CloseSource, RunRecv,
         RunSubscribe, RunSubscribeClosed, RunUnsubscribe, RunMsgClosed, RunDone, AllReturned,
         vars, queueVars
  <2>2. PICK c \in Chans : Bounds(c)
    BY <1>2, <2>1, BoundNonempty
  <2>3. Joined(c)
    BY <2>2 DEF Bounds
  <2> QED BY <1>2, <1>5, <2>1, <2>2, <2>3, JoinedStays, BoundKept
<1> QED BY <1>3, <1>4, <1>5

\* Once Run has taken its Unsubscribe, a reader that had received something is not a
\* subscriber again; and the shared queue is less than twice as long as the backlog of one
\* of the readers, counting those that have left (trimQ, which Run calls after a send and
\* not when it takes an Unsubscribe).
THEOREM QueueIsBounded == Spec => []QueueBounded
<1>1. Init => LeaverRemoved /\ LeaversGone /\ KeptForSomebody
  BY DEF Init, LeaverRemoved, LeaversGone, KeptForSomebody
<1>2. IInv /\ LeaverRemoved /\ [Next]_vars => LeaverRemoved'
  BY LeaverStep
<1>3. IInv /\ LeaversGone /\ [Next]_vars => LeaversGone'
  BY LeaversStep
<1>4. IInv /\ LeaversGone /\ KeptForSomebody /\ [Next]_vars => KeptForSomebody'
  BY KeptStep
<1>5. LeaverRemoved /\ KeptForSomebody => QueueBounded
  BY DEF QueueBounded
<1> QED BY <1>1, <1>2, <1>3, <1>4, <1>5, Invariance, PTL DEF Spec

-----------------------------------------------------------------------------
(* The refinement: each step of the broadcaster is one of the private FIFOs, or     *)
(* none.  What a member still has to get is what was sent last, so that it depends  *)
(* on its cursor alone and not on what trimQ has kept.                              *)

\* The last n of the messages 1 .. m.
Latest(n, m) == [i \in 1 .. n |-> m - n + i]

Owed(c) == Latest(nextQIndex - nextSendIndex[c], sent)

LEMMA LatestSeq ==
  ASSUME NEW n \in Nat, NEW m \in Nat
  PROVE  /\ Latest(n, m) \in Seq(Int) /\ Len(Latest(n, m)) = n
         /\ \A i \in 1 .. n : Latest(n, m)[i] = m - n + i
         /\ Latest(n, m) = <<>> <=> n = 0
<1>1. /\ Latest(n, m) \in Seq(Int) /\ Len(Latest(n, m)) = n
      /\ \A i \in 1 .. n : Latest(n, m)[i] = m - n + i
  BY DEF Latest
<1> QED BY <1>1, EmptySeq

LEMMA LatestGrows ==
  ASSUME NEW n \in Nat, NEW m \in Nat
  PROVE  Latest(n + 1, m + 1) = Append(Latest(n, m), m + 1)
<1> DEFINE s == Latest(n, m)
           t == Latest(n + 1, m + 1)
           u == Append(s, m + 1)
<1>1. s \in Seq(Int) /\ Len(s) = n /\ \A i \in 1 .. n : s[i] = m - n + i
  BY LatestSeq
<1>2. t \in Seq(Int) /\ Len(t) = n + 1 /\ \A i \in 1 .. n + 1 : t[i] = m - n + i
  <2>1. t \in Seq(Int) /\ Len(t) = n + 1 /\ \A i \in 1 .. n + 1 : t[i] = (m + 1) - (n + 1) + i
    BY LatestSeq
  <2> HIDE DEF t
  <2> QED BY <2>1
<1> HIDE DEF s, t
<1>3. /\ u \in Seq(Int) /\ Len(u) = n + 1 /\ u[n + 1] = m + 1
      /\ \A i \in 1 .. n : u[i] = s[i]
  <2>1. m + 1 \in Int
    OBVIOUS
  <2> QED BY <1>1, <2>1, AppendProperties
<1> HIDE DEF u
<1>4. ASSUME NEW i \in 1 .. n + 1 PROVE t[i] = u[i]
  <2>1. CASE i = n + 1 BY <1>2, <1>3, <2>1
  <2>2. CASE i \in 1 .. n BY <1>1, <1>2, <1>3, <2>2
  <2> QED BY <2>1, <2>2
<1>5. t = u
  BY <1>2, <1>3, <1>4, SeqEqual
<1> QED BY <1>5 DEF s, t, u

LEMMA LatestShrinks ==
  ASSUME NEW n \in Nat, NEW m \in Nat, n > 0
  PROVE  Head(Latest(n, m)) = m - n + 1 /\ Tail(Latest(n, m)) = Latest(n - 1, m)
<1> DEFINE s == Latest(n, m)
           t == Latest(n - 1, m)
           u == Tail(s)
<1>1. s \in Seq(Int) /\ Len(s) = n /\ s # <<>> /\ \A i \in 1 .. n : s[i] = m - n + i
  BY LatestSeq
<1>2. t \in Seq(Int) /\ Len(t) = n - 1 /\ \A i \in 1 .. n - 1 : t[i] = m - n + (i + 1)
  <2>1. n - 1 \in Nat
    OBVIOUS
  <2>2. t \in Seq(Int) /\ Len(t) = n - 1 /\ \A i \in 1 .. n - 1 : t[i] = m - (n - 1) + i
    BY <2>1, LatestSeq
  <2> HIDE DEF t
  <2> QED BY <2>2
<1> HIDE DEF s, t
<1>3. /\ Head(s) = s[1] /\ u \in Seq(Int) /\ Len(u) = n - 1
      /\ \A i \in 1 .. n - 1 : u[i] = s[i + 1]
  BY <1>1, HeadTailProperties
<1> HIDE DEF u
<1>4. ASSUME NEW i \in 1 .. n - 1 PROVE t[i] = u[i]
  <2>1. i + 1 \in 1 .. n
    OBVIOUS
  <2> QED BY <1>1, <1>2, <1>3, <2>1
<1>5. t = u
  BY <1>2, <1>3, <1>4, SeqEqual
<1>6. Head(s) = m - n + 1
  BY <1>1, <1>3
<1> QED BY <1>5, <1>6 DEF s, t, u

LEMMA PendingIsOwed ==
  IInv => Pending = [c \in Chans |-> IF c \in Members THEN Owed(c) ELSE <<>>]
<1> SUFFICES ASSUME IInv, NEW c \in Chans, c \in Members
             PROVE  SubSeq(q, nextSendIndex[c] - qStartIndex + 1, Len(q)) = Owed(c)
  BY DEF Pending
<1> DEFINE m == nextSendIndex[c] - qStartIndex + 1
           n == nextQIndex - nextSendIndex[c]
           s == SubSeq(q, m, Len(q))
<1>1. /\ c \in subscribers /\ q \in Seq(Nat) /\ Len(q) \in Nat /\ nextQIndex \in Nat
      /\ nextSendIndex[c] \in Nat /\ sent \in Nat /\ Len(q) <= nextQIndex
      /\ nextSendIndex[c] >= nextQIndex - Len(q) /\ nextSendIndex[c] <= nextQIndex
  BY DEF IInv, TypeOK, IndexSafe, qStartIndex, Members
<1>2. /\ m \in Nat /\ m >= 1 /\ m <= Len(q) + 1 /\ n \in Nat /\ Len(q) - m + 1 = n
  BY <1>1 DEF qStartIndex
<1>3. \A k \in m .. Len(q) : q[k] = sent - Len(q) + k
  BY <1>1 DEF IInv, CursorInv
<1> HIDE DEF m, n
<1>4. \A i \in m .. Len(q) : q[i] \in Nat
  BY <1>1, <1>2
<1>5. /\ s \in Seq(Nat) /\ Len(s) = n
      /\ \A i \in 1 .. n : s[i] = q[m + i - 1]
  BY <1>1, <1>2, <1>4, SubSeqProperties
<1>6. ASSUME NEW i \in 1 .. n PROVE s[i] = sent - n + i
  <2>1. m + i - 1 \in m .. Len(q)
    BY <1>1, <1>2
  <2>2. q[m + i - 1] = sent - Len(q) + (m + i - 1)
    BY <1>3, <2>1
  <2> QED BY <1>1, <1>2, <1>5, <2>2
<1>7. /\ Latest(n, sent) \in Seq(Int) /\ Len(Latest(n, sent)) = n
      /\ \A i \in 1 .. n : Latest(n, sent)[i] = sent - n + i
  BY <1>1, <1>2, LatestSeq
<1>8. s \in Seq(Int)
  BY <1>5
<1> HIDE DEF s
<1>9. s = Latest(n, sent)
  BY <1>5, <1>6, <1>7, <1>8, SeqEqual
<1> QED BY <1>9 DEF Owed, s, m, n

\* As long as the subscribers' channels are open, none of Run's own channels is nil.
NilsInv == ~closing => nils = {}

LEMMA NilsStep == TypeOK /\ NilsInv /\ [Next]_vars => NilsInv'
<1> SUFFICES ASSUME TypeOK, NilsInv, [Next]_vars PROVE NilsInv'
  OBVIOUS
<1>1. CASE RunRecv \/ \E c \in Chans : RunSend(c)
  <2>1. closing' = (closing \/ nils' # {})
    BY <1>1 DEF FinishIteration, RunRecv, RunSubscribe, RunSubscribeClosed, RunUnsubscribe, RunMsg,
         RunMsgClosed, RunDone, RunSend
  <2> QED BY <2>1 DEF NilsInv
<1>2. CASE ~RunRecv /\ ~\E c \in Chans : RunSend(c)
  <2>1. UNCHANGED runVars
    BY <1>2 DEF Next, Caller, CallSubscribe, LockSubscribe, Subscribe, CallUnsubscribe,
         LockUnsubscribe, Unsubscribe, CallClose, Close, Cancel, CloseSource, AllReturned, vars
  <2> QED BY <2>1 DEF NilsInv, runVars
<1> QED BY <1>1, <1>2

RInv == IInv /\ NilsInv

LEMMA StepImplements ==
  ASSUME RInv, [Next]_vars, RInv'
  PROVE  [Abs!Next]_Abs!abstractVars
<1> USE DEF Abs!abstractVars
<1>1. /\ TypeOK /\ TypeOK' /\ IndexSafe /\ FreshInv /\ (~closing => nils = {})
      /\ (~closing' => nils' = {})
  BY DEF RInv, IInv, NilsInv
<1>2. /\ Pending = [c \in Chans |-> IF c \in Members THEN Owed(c) ELSE <<>>]
      /\ Pending' = [c \in Chans |-> IF c \in Members' THEN Owed(c)' ELSE <<>>]
  <2>1. (IInv => Pending = [c \in Chans |-> IF c \in Members THEN Owed(c) ELSE <<>>])'
    BY PendingIsOwed, PTL
  <2> QED BY <2>1, PendingIsOwed DEF RInv
<1>3. CASE \/ \E c \in Chans : Caller(c)
           \/ CallClose \/ Close \/ Cancel \/ CloseSource \/ UNCHANGED vars
  <2>1. UNCHANGED <<sent, closing, subscribers, nextQIndex, nextSendIndex, received, q>>
    BY <1>3 DEF Caller, CallSubscribe, LockSubscribe, Subscribe, CallUnsubscribe,
         LockUnsubscribe, Unsubscribe, CallClose, Close, Cancel, CloseSource, vars, callerVars,
         envVars, runVars, queueVars
  <2>2. Members' = Members /\ Pending' = Pending
    BY <2>1 DEF Members, Pending, qStartIndex
  <2> QED BY <2>1, <2>2
<1>4. CASE RunSubscribe
  <2> PICK c : c = Head(subscribe)
    OBVIOUS
  <2>1. /\ subscribe # <<>> /\ UNCHANGED <<received, sent, nextQIndex>> /\ nils' = nils
        /\ closing' = (closing \/ nils # {})
    BY <1>4 DEF RunSubscribe, FinishIteration, envVars
  <2>2. c \in Chans /\ c \notin subscribers
    BY <1>1, <2>1, HeadTailProperties DEF TypeOK, FreshInv
  <2>3. CASE closing
    <3>1. closing' /\ Members = {} /\ Members' = {}
      BY <2>1, <2>3 DEF Members
    <3> QED BY <1>1, <1>2, <2>1, <2>3, <3>1 DEF TypeOK
  <2>4. CASE ~closing
    <3>1. /\ ~closing' /\ subscribers' = subscribers \cup {c}
          /\ nextSendIndex' = [nextSendIndex EXCEPT ![c] = nextQIndex]
      BY <1>1, <1>4, <2>1, <2>4 DEF RunSubscribe, TooLate, StartIndex
    <3>2. Members = subscribers /\ Members' = Members \cup {c}
      BY <2>4, <3>1 DEF Members
    <3>3. /\ nextSendIndex'[c] = nextQIndex
          /\ \A d \in Chans \ {c} : nextSendIndex'[d] = nextSendIndex[d]
      BY <1>1, <2>2, <3>1 DEF TypeOK
    <3>4. Owed(c)' = <<>>
      <4>1. nextQIndex' - nextSendIndex'[c] = 0
        BY <1>1, <2>1, <3>3 DEF TypeOK
      <4>2. Latest(0, sent) = <<>>
        BY <1>1, LatestSeq DEF TypeOK
      <4> QED BY <2>1, <4>1, <4>2 DEF Owed
    <3>5. \A d \in Chans \ {c} : Owed(d)' = Owed(d)
      BY <2>1, <3>3 DEF Owed
    <3>6. Pending' = [Pending EXCEPT ![c] = <<>>]
      BY <1>2, <2>2, <3>2, <3>4, <3>5
    <3>7. Abs!Join(c)
      BY <2>1, <2>2, <2>4, <3>1, <3>2, <3>6 DEF Abs!Join
    <3> QED BY <2>2, <3>7 DEF Abs!Next
  <2> QED BY <2>3, <2>4
<1>5. CASE RunSubscribeClosed \/ RunMsgClosed \/ RunDone
  <2>1. closing' /\ UNCHANGED <<received, sent>>
    BY <1>5 DEF RunSubscribeClosed, RunMsgClosed, RunDone, FinishIteration, envVars
  <2>2. Members' = {} /\ Pending' = [c \in Chans |-> <<>>]
    BY <1>2, <2>1 DEF Members
  <2>3. CASE closing
    <3>1. Members = {} /\ Pending = [c \in Chans |-> <<>>]
      BY <1>2, <2>3 DEF Members
    <3> QED BY <1>1, <2>1, <2>2, <2>3, <3>1 DEF TypeOK
  <2>4. CASE ~closing
    <3>1. Abs!Shut
      BY <1>1, <2>1, <2>2, <2>4 DEF Abs!Shut, TypeOK
    <3> QED BY <3>1 DEF Abs!Next
  <2> QED BY <2>3, <2>4
<1>6. CASE RunUnsubscribe
  <2> PICK c : c = Head(unsubscribe)
    OBVIOUS
  <2>1. /\ unsubscribe # <<>> /\ subscribers' = subscribers \ {c} /\ nils' = nils
        /\ closing' = (closing \/ nils # {})
        /\ UNCHANGED <<received, sent, nextQIndex, nextSendIndex>>
    BY <1>6 DEF RunUnsubscribe, FinishIteration, Without, envVars
  <2>2. c \in Chans
    BY <1>1, <2>1, HeadTailProperties DEF TypeOK
  <2>3. closing' = closing /\ \A d \in Chans : Owed(d)' = Owed(d)
    BY <1>1, <2>1 DEF Owed, TypeOK
  <2>4. Members' = Members \ {c}
    BY <2>1, <2>3 DEF Members
  <2>5. Pending' = [Pending EXCEPT ![c] = <<>>]
    BY <1>2, <2>2, <2>3, <2>4
  <2>6. CASE c \in Members
    <3>1. Abs!Leave(c)
      BY <2>1, <2>3, <2>4, <2>5, <2>6 DEF Abs!Leave
    <3> QED BY <2>2, <3>1 DEF Abs!Next
  <2>7. CASE c \notin Members
    <3>1. Members' = Members /\ Pending' = Pending
      BY <1>2, <2>3, <2>4, <2>7
    <3> QED BY <2>1, <2>3, <3>1
  <2> QED BY <2>6, <2>7
<1>7. CASE RunMsg
  <2>1. /\ sent' = sent + 1 /\ UNCHANGED <<received, subscribers, nextSendIndex>>
        /\ nils' = nils /\ closing' = (closing \/ nils # {})
        /\ subscribers # {} => nextQIndex' = nextQIndex + 1
    BY <1>7 DEF RunMsg, FinishIteration
  <2>2. closing' = closing /\ Members' = Members /\ Members \subseteq subscribers
    BY <1>1, <2>1 DEF Members, TypeOK
  <2>3. ASSUME NEW c \in Members PROVE Owed(c)' = Append(Owed(c), sent')
    <3>1. nextQIndex - nextSendIndex[c] \in Nat /\ sent \in Nat /\ nextQIndex \in Nat
          /\ nextSendIndex[c] \in Nat
      BY <1>1, <2>2 DEF IndexSafe, TypeOK, qStartIndex
    <3>2. nextQIndex' - nextSendIndex'[c] = (nextQIndex - nextSendIndex[c]) + 1
      BY <2>1, <2>2, <3>1
    <3> QED BY <2>1, <3>1, <3>2, LatestGrows DEF Owed
  <2>4. Pending' = [c \in Chans |-> IF c \in Members THEN Append(Pending[c], sent')
                                                     ELSE Pending[c]]
    BY <1>2, <2>2, <2>3
  <2>5. Abs!Publish
    BY <2>1, <2>2, <2>4 DEF Abs!Publish
  <2> QED BY <2>5 DEF Abs!Next
<1>8. ASSUME NEW c \in Chans, RunSend(c) PROVE Abs!Next
  <2>1. /\ ~closing /\ c \in subscribers /\ nextSendIndex[c] < nextQIndex
        /\ received' = [received EXCEPT ![c] = Append(@, NextFor(c))]
        /\ nextSendIndex' = [nextSendIndex EXCEPT ![c] = @ + 1]
        /\ UNCHANGED <<sent, nextQIndex, subscribers>>
        /\ nils' = nils /\ closing' = (closing \/ nils # {})
    BY <1>8 DEF RunSend, HasWork, FinishIteration, envVars
  <2>2. closing' = closing /\ Members' = Members /\ Members = subscribers
    BY <1>1, <2>1 DEF Members, TypeOK
  <2> DEFINE n == nextQIndex - nextSendIndex[c]
  <2>3. n \in Nat /\ n > 0 /\ sent \in Nat /\ nextQIndex' - nextSendIndex'[c] = n - 1
    <3>1. /\ nextQIndex \in Nat /\ nextSendIndex[c] \in Nat /\ sent \in Nat
          /\ nextSendIndex'[c] = nextSendIndex[c] + 1
      BY <1>1, <2>1 DEF TypeOK
    <3> QED BY <2>1, <3>1
  <2>4. /\ Owed(c)' = Tail(Owed(c)) /\ Head(Owed(c)) = sent - n + 1 /\ Owed(c) # <<>>
    <3> HIDE DEF n
    <3>1. Latest(n, sent) # <<>>
      BY <2>3, LatestSeq
    <3>2. Owed(c) = Latest(n, sent) /\ Owed(c)' = Latest(n - 1, sent)
      BY <2>1, <2>3 DEF Owed, n
    <3> QED BY <2>3, <3>1, <3>2, LatestShrinks
  <2>5. \A d \in Chans \ {c} : Owed(d)' = Owed(d)
    BY <1>1, <2>1 DEF Owed, TypeOK
  <2>6. Pending[c] = Owed(c) /\ Pending' = [Pending EXCEPT ![c] = Tail(@)]
    BY <1>2, <2>1, <2>2, <2>4, <2>5
  <2>7. NextFor(c) = sent - n + 1
    <3>1. /\ nextQIndex \in Nat /\ nextSendIndex[c] \in Nat /\ sent \in Nat /\ Len(q) \in Nat
          /\ nextSendIndex[c] < nextQIndex /\ qStartIndex = nextQIndex - Len(q)
      BY <1>1, <2>1 DEF TypeOK, qStartIndex
    <3>2. nextSendIndex[c] - qStartIndex + 1 \in nextSendIndex[c] - qStartIndex + 1 .. Len(q)
      BY ONLY <3>1
    <3>3. NextFor(c) = sent - Len(q) + (nextSendIndex[c] - qStartIndex + 1)
      BY <2>1, <3>2 DEF RInv, IInv, CursorInv, NextFor
    <3> QED BY <3>1, <3>3
  <2>8. Abs!Deliver(c)
    <3> HIDE DEF n
    <3>1. Pending[c] # <<>> /\ NextFor(c) = Head(Pending[c])
      BY <2>4, <2>6, <2>7 DEF n
    <3> QED BY <2>1, <2>2, <2>6, <3>1 DEF Abs!Deliver
  <2> QED BY <2>8 DEF Abs!Next
<1> QED BY <1>3, <1>4, <1>5, <1>6, <1>7, <1>8 DEF Next, RunRecv, AllReturned

\* The shared queue, trimmed when it suits and read at a cursor per subscriber, is
\* not to be told from one queue for each subscriber.
THEOREM Refinement == Spec => ImplementsBcastAbs
<1>1. Init => RInv
  BY InitIInv DEF RInv, NilsInv, Init
<1>2. RInv /\ [Next]_vars => RInv'
  BY StepIInv, NilsStep DEF RInv, IInv
<1>3. Init => Abs!Init
  BY DEF Init, Abs!Init, Pending, Members
<1>4. RInv /\ [Next]_vars /\ RInv' => [Abs!Next]_Abs!abstractVars
  BY StepImplements
<1> QED BY <1>1, <1>2, <1>3, <1>4, PTL DEF Spec, ImplementsBcastAbs, Abs!Spec
=============================================================================
