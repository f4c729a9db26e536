------------------------------- MODULE Bcast -------------------------------
(***************************************************************************)
(* The packet broadcaster gps/app/bcast: one goroutine (Run) copies every  *)
(* message of an input channel to all current subscribers, through one     *)
(* shared queue with a cursor per subscriber.  Callers are the goroutines  *)
(* that Subscribe, read and Unsubscribe (proxy, HTTP, NTRIP, session...),  *)
(* and the one that calls Close.                                           *)
(*                                                                         *)
(* Each call of Subscribe makes a channel of its own, so a caller and its  *)
(* channel are identified: Chans is the set of both.                       *)
(***************************************************************************)
EXTENDS Integers, Sequences, FiniteSets

CONSTANTS Chans,     \* the channels that calls of Subscribe will create
          MaxMsgs    \* bound on the number of messages the source sends

ASSUME MaxMsgsAssumption == MaxMsgs \in Nat

VARIABLES
  \* the callers
  pc,           \* pc[c]: where the goroutine that owns channel c is
  chan,         \* chan[c]: state of the Go channel, "panic" if closed twice
  received,     \* received[c]: the messages read from c, in order
  closer,       \* the goroutine that calls Close
  \* the fields of Bcast that Subscribe, Unsubscribe and Close use
  closed,       \* b.closed, which is also "b.subscribe is closed"
  subscribe,    \* contents of b.subscribe, capacity 1
  unsubscribe,  \* contents of b.unsubscribe, capacity 1
  \* the source of the messages and the context
  sent,         \* number of messages received from the source: message n is n
  srcClosed,    \* the source has closed b.msg
  cancelled,    \* ctx is cancelled
  \* state of the Run goroutine
  nils,         \* which of its channels subscribe, msg, done it has set to nil
  closing,      \* closing: the subscribers' channels have been closed
  q, nextQIndex,
  subscribers,  \* b.subscribers as a set: its order is never observable
  nextSendIndex,
  joinedAt      \* history: value of sent when Run took the subscription

callerVars == <<pc, chan, received, closer>>
apiVars    == <<closed, subscribe, unsubscribe>>
envVars    == <<sent, srcClosed, cancelled>>
queueVars  == <<q, nextQIndex, subscribers, nextSendIndex, joinedAt>>
runVars    == <<nils, closing>>
vars == <<callerVars, apiVars, envVars, runVars, queueVars>>

ChanCap == 1

PCs == {"idle", "wantSubscribe", "inSubscribe", "active",
        "wantUnsubscribe", "inUnsubscribe", "gone"}

TypeOK ==
  /\ pc \in [Chans -> PCs]
  /\ chan \in [Chans -> {"open", "closed", "panic"}]
  /\ received \in [Chans -> Seq(Nat)]
  /\ closer \in {"idle", "wantClose", "done"}
  /\ closed \in BOOLEAN
  /\ subscribe \in Seq(Chans) /\ Len(subscribe) <= ChanCap
  /\ unsubscribe \in Seq(Chans) /\ Len(unsubscribe) <= ChanCap
  /\ sent \in Nat
  /\ srcClosed \in BOOLEAN
  /\ cancelled \in BOOLEAN
  /\ nils \in SUBSET {"subscribe", "msg", "done"}
  /\ closing \in BOOLEAN
  /\ q \in Seq(Nat)
  /\ nextQIndex \in Nat
  /\ subscribers \in SUBSET Chans
  /\ nextSendIndex \in [Chans -> Nat]
  /\ joinedAt \in [Chans -> Nat]

Init ==
  /\ pc = [c \in Chans |-> "idle"]
  /\ chan = [c \in Chans |-> "open"]
  /\ received = [c \in Chans |-> <<>>]
  /\ closer = "idle"
  /\ closed = FALSE
  /\ subscribe = <<>>
  /\ unsubscribe = <<>>
  /\ sent = 0
  /\ srcClosed = FALSE
  /\ cancelled = FALSE
  /\ nils = {}
  /\ closing = FALSE
  /\ q = <<>>
  /\ nextQIndex = 0
  /\ subscribers = {}
  /\ nextSendIndex = [c \in Chans |-> 0]
  /\ joinedAt = [c \in Chans |-> 0]

-----------------------------------------------------------------------------
(* The callers.  b.mu is held exactly by a caller inside Subscribe or       *)
(* Unsubscribe; Close never waits while it holds b.mu, so it is one step.   *)

\* A send on b.subscribe or b.unsubscribe can complete.
HasRoom(ch) == Len(ch) < ChanCap

MuFree == \A c \in Chans : pc[c] \notin {"inSubscribe", "inUnsubscribe"}

CallSubscribe(c) ==
  /\ pc[c] = "idle"
  /\ pc' = [pc EXCEPT ![c] = "wantSubscribe"]
  /\ UNCHANGED <<chan, received, closer, apiVars, envVars, runVars, queueVars>>

LockSubscribe(c) ==
  /\ pc[c] = "wantSubscribe"
  /\ MuFree
  /\ pc' = [pc EXCEPT ![c] = "inSubscribe"]
  /\ UNCHANGED <<chan, received, closer, apiVars, envVars, runVars, queueVars>>

\* The body of Subscribe under the lock: it blocks while b.subscribe is full.
Subscribe(c) ==
  /\ pc[c] = "inSubscribe"
  /\ \/ /\ closed
        /\ chan' = [chan EXCEPT ![c] = "closed"]
        /\ UNCHANGED subscribe
     \/ /\ ~closed
        /\ HasRoom(subscribe)
        /\ subscribe' = Append(subscribe, c)
        /\ UNCHANGED chan
  /\ pc' = [pc EXCEPT ![c] = "active"]
  /\ UNCHANGED <<received, closer, closed, unsubscribe, envVars, runVars, queueVars>>

\* A subscriber stops reading for a reason of its own: its connection failed,
\* its context was cancelled, or it saw its channel closed.
CallUnsubscribe(c) ==
  /\ pc[c] = "active"
  /\ pc' = [pc EXCEPT ![c] = "wantUnsubscribe"]
  /\ UNCHANGED <<chan, received, closer, apiVars, envVars, runVars, queueVars>>

LockUnsubscribe(c) ==
  /\ pc[c] = "wantUnsubscribe"
  /\ MuFree
  /\ pc' = [pc EXCEPT ![c] = "inUnsubscribe"]
  /\ UNCHANGED <<chan, received, closer, apiVars, envVars, runVars, queueVars>>

\* Unsubscribe sends nothing after Close: Run may be gone.
UnsubscribeIsVoid == closed

Unsubscribe(c) ==
  /\ pc[c] = "inUnsubscribe"
  /\ \/ /\ UnsubscribeIsVoid
        /\ UNCHANGED unsubscribe
     \/ /\ ~UnsubscribeIsVoid
        /\ HasRoom(unsubscribe)
        /\ unsubscribe' = Append(unsubscribe, c)
  /\ pc' = [pc EXCEPT ![c] = "gone"]
  /\ UNCHANGED <<chan, received, closer, closed, subscribe, envVars, runVars,
                 queueVars>>

CallClose ==
  /\ closer = "idle"
  /\ closer' = "wantClose"
  /\ UNCHANGED <<pc, chan, received, apiVars, envVars, runVars, queueVars>>

Close ==
  /\ closer = "wantClose"
  /\ MuFree
  /\ closed' = TRUE
  /\ closer' = "done"
  /\ UNCHANGED <<pc, chan, received, subscribe, unsubscribe, envVars, runVars,
                 queueVars>>

(* The environment: ctx, and the goroutine that feeds and closes b.msg.     *)
Cancel ==
  /\ ~cancelled
  /\ cancelled' = TRUE
  /\ UNCHANGED <<callerVars, apiVars, sent, srcClosed, runVars, queueVars>>

CloseSource ==
  /\ ~srcClosed
  /\ srcClosed' = TRUE
  /\ UNCHANGED <<callerVars, apiVars, sent, cancelled, runVars, queueVars>>

-----------------------------------------------------------------------------
(* Run: one iteration of its select loop per action.                        *)

qStartIndex == nextQIndex - Len(q)

Running_UntilDone == ~({"subscribe", "msg", "done"} \subseteq nils)

\* The loop condition: subscribe != nil || msg != nil.
Running == ~({"subscribe", "msg"} \subseteq nils)

Exited == ~Running

\* close(c) for each c in S: closing a closed Go channel panics.
CloseAll(S, ch) ==
  [c \in Chans |-> IF c \notin S THEN ch[c]
                   ELSE IF ch[c] = "open" THEN "closed" ELSE "panic"]

\* Closing the subscribers again on each of the three events.
FinishIteration_NoClosing(n, subs, ch) ==
  /\ nils' = n
  /\ closing' = (closing \/ n # {})
  /\ chan' = IF n # nils THEN CloseAll(subs, ch) ELSE ch

\* The end of every iteration: the first time one of subscribe, msg and done
\* is nil, close the channel of every subscriber.  n, subs and ch are nils,
\* subscribers and chan as the case of the select leaves them.
FinishIteration(n, subs, ch) ==
  /\ nils' = n
  /\ closing' = (closing \/ n # {})
  /\ chan' = IF ~closing /\ n # {} THEN CloseAll(subs, ch) ELSE ch

StartIndex_Oldest == qStartIndex

\* Where a new subscriber starts: at the end of the queue.
StartIndex == nextQIndex

\* A subscription taken now is refused by closing its channel.
TooLate == closing

\* case 0, ok.
RunSubscribe ==
  /\ "subscribe" \notin nils
  /\ subscribe # <<>>
  /\ LET c == Head(subscribe)
     IN  IF TooLate
         THEN /\ FinishIteration(nils, subscribers, CloseAll({c}, chan))
              /\ UNCHANGED <<subscribers, nextSendIndex, joinedAt>>
         ELSE /\ subscribers' = subscribers \cup {c}
              /\ nextSendIndex' = [nextSendIndex EXCEPT ![c] = StartIndex]
              /\ joinedAt' = [joinedAt EXCEPT ![c] = sent]
              /\ FinishIteration(nils, subscribers', chan)
  /\ subscribe' = Tail(subscribe)
  /\ UNCHANGED <<pc, received, closer, closed, unsubscribe, envVars, q, nextQIndex>>

\* case 0, !ok: b.subscribe is closed and its buffer is drained.
RunSubscribeClosed ==
  /\ "subscribe" \notin nils
  /\ subscribe = <<>> /\ closed
  /\ FinishIteration(nils \cup {"subscribe"}, subscribers, chan)
  /\ UNCHANGED <<pc, received, closer, apiVars, envVars, queueVars>>

\* b.subscribers without c, if subscriberIndex finds it.
Without(c) == subscribers \ {c}

\* case 1: removes the subscriber if subscriberIndex finds it; q is not trimmed.
RunUnsubscribe ==
  /\ Running
  /\ unsubscribe # <<>>
  /\ subscribers' = Without(Head(unsubscribe))
  /\ unsubscribe' = Tail(unsubscribe)
  /\ FinishIteration(nils, subscribers', chan)
  /\ UNCHANGED <<pc, received, closer, closed, subscribe, envVars, q,
                 nextQIndex, nextSendIndex, joinedAt>>

\* case 2, ok: a message is queued only if somebody is subscribed.
RunMsg ==
  /\ "msg" \notin nils
  /\ ~srcClosed
  /\ sent < MaxMsgs
  /\ sent' = sent + 1
  /\ IF subscribers = {}
     THEN UNCHANGED <<q, nextQIndex>>
     ELSE /\ q' = Append(q, sent')
          /\ nextQIndex' = nextQIndex + 1
  /\ FinishIteration(nils, subscribers, chan)
  /\ UNCHANGED <<pc, received, closer, apiVars, srcClosed, cancelled,
                 subscribers, nextSendIndex, joinedAt>>

\* case 2, !ok: the source closed b.msg.
RunMsgClosed ==
  /\ "msg" \notin nils
  /\ srcClosed
  /\ FinishIteration(nils \cup {"msg"}, subscribers, chan)
  /\ UNCHANGED <<pc, received, closer, apiVars, envVars, queueVars>>

\* case 3: ctx is done.
RunDone ==
  /\ Running /\ "done" \notin nils
  /\ cancelled
  /\ FinishIteration(nils \cup {"done"}, subscribers, chan)
  /\ UNCHANGED <<pc, received, closer, apiVars, envVars, queueVars>>

\* trimQ: needIndex is the smallest index a subscriber still needs.
NeedIndex(subs, nsi) ==
  LET indexes == {nextQIndex} \cup {nsi[c] : c \in subs}
  IN  CHOOSE i \in indexes : \A j \in indexes : i <= j

TrimQ_OnlyWhenEmpty(subs, nsi) ==
  IF nextQIndex = NeedIndex(subs, nsi) THEN <<>> ELSE q

\* trimQ drops what nobody needs, but only once that is half of q or all of it.
TrimQ(subs, nsi) ==
  LET nNeed    == nextQIndex - NeedIndex(subs, nsi)
      nDiscard == Len(q) - nNeed
  IN  IF nNeed = 0 THEN <<>>
      ELSE IF nDiscard >= nNeed THEN SubSeq(q, nDiscard + 1, Len(q))
      ELSE q

\* Run offers c a message in its select.
HasWork(c) == ~closing /\ c \in subscribers /\ nextSendIndex[c] < nextQIndex

\* The send case of c, if it were made from the newest entry of q.
NextFor_Newest(c) == q[Len(q)]

\* The message in the send case of c.
NextFor(c) == q[nextSendIndex[c] - qStartIndex + 1]

\* default case: the rendezvous with a subscriber that is reading its channel.
RunSend(c) ==
  /\ Running
  /\ HasWork(c)
  /\ pc[c] = "active"
  /\ received' = [received EXCEPT ![c] = Append(@, NextFor(c))]
  /\ nextSendIndex' = [nextSendIndex EXCEPT ![c] = @ + 1]
  /\ q' = TrimQ(subscribers, nextSendIndex')
  /\ FinishIteration(nils, subscribers, chan)
  /\ UNCHANGED <<pc, closer, apiVars, envVars, nextQIndex, subscribers, joinedAt>>

-----------------------------------------------------------------------------
Caller(c) == \/ CallSubscribe(c) \/ LockSubscribe(c) \/ Subscribe(c)
             \/ CallUnsubscribe(c) \/ LockUnsubscribe(c) \/ Unsubscribe(c)

RunRecv == \/ RunSubscribe \/ RunSubscribeClosed \/ RunUnsubscribe
           \/ RunMsg \/ RunMsgClosed \/ RunDone

\* Everyone has returned: the only states in which nothing more can happen.
AllReturned ==
  /\ Exited
  /\ \A c \in Chans : pc[c] = "gone"
  /\ srcClosed /\ cancelled
  /\ UNCHANGED vars

Next ==
  \/ \E c \in Chans : Caller(c)
  \/ CallClose \/ Close
  \/ Cancel \/ CloseSource
  \/ RunRecv
  \/ \E c \in Chans : RunSend(c)
  \/ AllReturned

\* Goroutines in the middle of a call keep going once they can; Run's select
\* takes every case that stays ready (reflect.Select chooses at random among
\* them).  Nobody is obliged to call anything, to cancel or to send.
Fairness ==
  /\ \A c \in Chans : /\ WF_vars(LockSubscribe(c)) /\ WF_vars(Subscribe(c))
                      /\ WF_vars(LockUnsubscribe(c)) /\ WF_vars(Unsubscribe(c))
                      /\ WF_vars(RunSend(c))
  /\ WF_vars(Close)
  /\ WF_vars(RunSubscribe) /\ WF_vars(RunSubscribeClosed)
  /\ WF_vars(RunUnsubscribe) /\ WF_vars(RunMsgClosed) /\ WF_vars(RunDone)

Spec == Init /\ [][Next]_vars /\ Fairness

-----------------------------------------------------------------------------
(* Safety.                                                                  *)

\* The index expression b.q[s.nextSendIndex-qStartIndex] of Run (bcast.go:96)
\* never leaves the slice, however trimming, late subscribers and removals
\* interleave: every cursor lies between the start and the end of q.
IndexSafe ==
  /\ Len(q) <= nextQIndex
  /\ \A c \in subscribers : nextSendIndex[c] \in qStartIndex .. nextQIndex

\* No channel is closed twice, and Run never sends on a closed channel.
ChannelsSafe ==
  /\ \A c \in Chans : chan[c] # "panic"
  /\ ~closing => \A c \in subscribers : chan[c] = "open"

\* Run never panics, which would take the daemon down: neither by an index out of
\* range nor by one of its channels.
NoPanic == IndexSafe /\ ChannelsSafe

\* A subscriber sees exactly the messages that the source sent since Run took
\* its subscription: none lost, repeated or out of order, whatever the other
\* subscribers' lag did to the shared queue.
GapFree ==
  \A c \in Chans : \A i \in 1 .. Len(received[c]) :
    received[c][i] = joinedAt[c] + i

Buffered(c, ch) == \E i \in 1 .. Len(ch) : ch[i] = c

\* Run takes Subscribe and Unsubscribe from two channels, in any order.  Once it has taken
\* the Unsubscribe of a reader that had received something, the reader is not a subscriber.
LeaverRemoved ==
  \A c \in Chans :
    (pc[c] = "gone" /\ received[c] # <<>> /\ ~closed
      /\ ~Buffered(c, unsubscribe))
    => c \notin subscribers

\* Run has taken the subscription of c, and c may have left since.
Joined(c) ==
  \/ c \in subscribers
  \/ pc[c] = "gone" /\ chan[c] = "open" /\ ~Buffered(c, subscribe)

\* What c has still to get is in q.
Backlog(c) == nextQIndex - nextSendIndex[c]

\* "Compact only once at least half of q is discardable" (bcast.go:161): q is less than
\* twice as long as the backlog of a reader.  That reader may be one that has left, whose
\* backlog stays in q until the next message is delivered to somebody.
KeptForSomebody ==
  ~closing =>
    \/ q = <<>>
    \/ \E c \in Chans : Joined(c) /\ Backlog(c) <= Len(q) /\ Len(q) < 2 * Backlog(c)

\* The queue does not grow beyond what the laggards cost, whoever joins, reads and leaves
\* in between, and leaving is not undone.
QueueBounded == LeaverRemoved /\ KeptForSomebody

(* Refinement: the shared queue and its cursors are private FIFOs.          *)
Members == IF closing THEN {} ELSE subscribers

Pending == [c \in Chans |->
              IF c \in Members
              THEN SubSeq(q, nextSendIndex[c] - qStartIndex + 1, Len(q))
              ELSE <<>>]

Abs == INSTANCE BcastAbs WITH
         Readers <- Chans, published <- sent, open <- ~closing,
         members <- Members, pending <- Pending, delivered <- received

\* Run with its shared, lazily trimmed queue behaves as if each subscriber had
\* a queue of its own: trimming, removal and late joining of one subscriber
\* are invisible to the others.
ImplementsBcastAbs == Abs!Spec

(* Liveness.  Calls and messages are bounded, so that all of it is said of  *)
(* how things are in the end.                                               *)

\* Nobody stays blocked in Subscribe, Unsubscribe or Close: the mutex held
\* while sending on a channel of capacity 1 is always released.
CallsReturn ==
  <>[](/\ \A c \in Chans : pc[c] \in {"idle", "active", "gone"}
       /\ closer # "wantClose")

\* "It will exit when both Close has being called on Bcast and the msg channel
\* is closed" (bcast.go:69-71), with calls still in progress or not.
RunExits == <>[](closed /\ srcClosed => Exited)

\* After a cancellation, a Close or the end of the source, every reader,
\* however late it subscribed, sees its channel closed and is not left waiting.
ReadersReleased ==
  <>[](cancelled \/ closed \/ srcClosed =>
         \A c \in Chans : pc[c] = "active" => chan[c] = "closed")

\* A subscriber that keeps reading gets everything sent since it joined.
Delivered ==
  <>[](closing \/ \A c \in subscribers :
                    pc[c] = "active" => Len(received[c]) = sent - joinedAt[c])

\* Callers, Run and readers wait for each other, and none of them for ever.
NobodyWaitsForEver == CallsReturn /\ RunExits /\ ReadersReleased /\ Delivered
=============================================================================
