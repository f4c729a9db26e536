---------------------------- MODULE InputProofs ----------------------------
(***************************************************************************)
(* Proofs about the two inputs of the PHC controller: timestamps with      *)
(* their eras (PhcEra) and time messages (TimeMsg).                        *)
(*                                                                         *)
(* Eras, for any number of pulses, steps of the clock and losses of        *)
(* carrier: the counter only grows, and it is even while the clock is      *)
(* stepped, so a certain era that the worker remembers and the counter     *)
(* still shows has not ended.  Hence every timestamp captured since the    *)
(* worker loaded that era was captured from the clock as it is now, and so *)
(* was a reading of the clock that began in that era.                      *)
(*                                                                         *)
(* Time messages, for any receiver, read window and number of faults: a    *)
(* message is numbered by its epoch and its place in the epoch.  What was  *)
(* received is in the order of the numbers, but for a message read again   *)
(* right after itself, so it is in the order of its times of reading too,  *)
(* and the error of its UTC time only ever falls.  The entries of the      *)
(* buffer are the end of what was received, startIndex is where the read   *)
(* window begins, and each of the two messages kept for their correction   *)
(* is the last of its kind.  What the controller asks is then a question   *)
(* about the numbers.                                                      *)
(***************************************************************************)
EXTENDS PhcEra, TimeMsg, SequenceTheorems, WellFoundedInduction, TLAPS

-----------------------------------------------------------------------------
(* Eras of timestamps. *)

AnyCaptured == [epoch : Nat, session : Nat, window : {"in", "out"}]
AnySample   == [era : Nat, epoch : Nat]

EraTypes ==
  /\ epoch \in Nat /\ session \in Nat
  /\ counter \in Nat /\ era \in Nat /\ label \in Nat /\ pre \in Nat
  /\ fifo \in Seq(AnyCaptured)
  /\ ts \in AnyCaptured
  /\ sample \in AnySample

\* The counter is even exactly while AdjTime runs, and no era is ahead of it.
CounterInv ==
  /\ Uncertain(counter) <=> dpc \in {"stepping", "stepped"}
  /\ era <= counter /\ label <= counter /\ pre <= counter

\* The clock has not been stepped since the start of the era e, which lasts.
Lasting(e) == ~Uncertain(e) /\ counter = e

\* What the worker has read or is about to read, and the era it will give to it.
QueueInv ==
  /\ wpc = "polled" => \A i \in 1 .. Len(fifo) : fifo[i].window = "in"
  /\ Lasting(era) =>
       \A i \in 1 .. Len(fifo) : fifo[i].window = "out" => fifo[i].epoch = epoch

ReadInv ==
  /\ (wpc = "got" /\ Lasting(era) /\ ts.window = "out") => ts.epoch = epoch
  /\ (wpc \in {"pre", "read", "post"} /\ Lasting(label) /\ ts.window = "out")
       => ts.epoch = epoch
  /\ (wpc = "post" /\ Lasting(pre)) => sample.epoch = epoch
  /\ (wpc = "send" /\ ~Uncertain(label) /\ sample.era = label /\ ts.window = "out")
       => ts.epoch = sample.epoch

Sound(e) == (e.kind = "timestamp" /\ e.ts.window = "out") => OneClock(e)

IInv == EraTypes /\ CounterInv /\ QueueInv /\ ReadInv /\ Sound(tsCh) /\ Sound(given)

LEMMA Parity ==
  \A n \in Nat : /\ Uncertain(n) <=> ~Uncertain(n + 1)
                 /\ Uncertain(n) <=> Uncertain(n + 2)
BY DEF Uncertain

LEMMA EraOfFacts ==
  ASSUME NEW now \in Nat, NEW polled \in Nat, polled <= now
  PROVE  /\ EraOf(now, polled) \in Nat
         /\ EraOf(now, polled) <= now
         /\ ~Uncertain(EraOf(now, polled)) => now = polled /\ EraOf(now, polled) = now
BY Parity DEF EraOf

LEMMA ComputeEraFacts ==
  ASSUME NEW a \in Nat, NEW b \in Nat, a <= b
  PROVE  /\ ComputeEra(a, b) \in Nat
         /\ ~Uncertain(ComputeEra(a, b)) => a = b /\ ComputeEra(a, b) = b
BY Parity DEF ComputeEra

LEMMA ZeroFacts == ZeroTs \in AnyCaptured /\ ZeroSample \in AnySample
BY DEF ZeroTs, ZeroSample, AnyCaptured, AnySample

LEMMA InitIInv == Init => IInv
<1> SUFFICES ASSUME Init PROVE IInv
  OBVIOUS
<1>1. fifo \in Seq(AnyCaptured)
  <2>1. <<>> \in Seq(AnyCaptured) OBVIOUS
  <2>2. <<ZeroTs>> \in Seq(AnyCaptured) BY ZeroFacts
  <2> QED BY <2>1, <2>2 DEF Init
<1>2. EraTypes BY <1>1, ZeroFacts DEF Init, EraTypes, StaleEra
<1>3. Uncertain(0) /\ ~Uncertain(1) BY DEF Uncertain
<1>4. CounterInv BY <1>3 DEF Init, CounterInv, StaleEra
<1>5. QueueInv BY <1>3 DEF Init, QueueInv, Lasting, StaleEra
<1>6. ReadInv BY DEF Init, ReadInv
<1>7. Sound(tsCh) /\ Sound(given) BY DEF Init, Sound, NoEvent
<1> QED BY <1>2, <1>4, <1>5, <1>6, <1>7 DEF IInv

\* Steps that leave the clock, the counter, the queue and the worker's data alone,
\* and take the worker to a place where its data does not matter yet.
LEMMA QuietStep ==
  ASSUME IInv, UNCHANGED <<epoch, fifo, counter, era, ts, label, pre, sample, dpc>>,
         session' \in Nat,
         wpc' = wpc \/ wpc' \in {"top", "pause", "noCarrier", "resume", "exited"},
         Sound(tsCh)', Sound(given)'
  PROVE  IInv'
<1>1. EraTypes' BY DEF IInv, EraTypes
<1>2. CounterInv' BY DEF IInv, CounterInv
<1>3. QueueInv' BY DEF IInv, QueueInv, Lasting
<1>4. ReadInv' BY DEF IInv, ReadInv, Lasting
<1> QED BY <1>1, <1>2, <1>3, <1>4 DEF IInv

\* The counter moves on: no era that the worker knows lasts.
LEMMA CounterStep ==
  ASSUME IInv, UNCHANGED <<fifo, session, era, wpc, ts, label, pre, sample, tsCh, given>>,
         epoch' \in Nat, counter' \in Nat, counter' > counter \/ Uncertain(counter),
         counter' >= counter,
         Uncertain(counter') <=> dpc' \in {"stepping", "stepped"},
         counter' = counter => Uncertain(counter')
  PROVE  IInv'
<1>1. EraTypes' BY DEF IInv, EraTypes
<1>2. CounterInv'
  BY DEF IInv, CounterInv, EraTypes
<1>3. /\ ~Lasting(era)' /\ ~Lasting(label)' /\ ~Lasting(pre)'
  BY DEF IInv, CounterInv, EraTypes, Lasting
<1>4. QueueInv' BY <1>3 DEF IInv, QueueInv
<1>5. ReadInv' BY <1>3 DEF IInv, ReadInv
<1>6. Sound(tsCh)' /\ Sound(given)' BY DEF IInv, Sound, OneClock, Certain
<1> QED BY <1>1, <1>2, <1>4, <1>5, <1>6 DEF IInv

\* Steps of the hardware, the network and the shutdown.
LEMMA EnvironmentStep ==
  ASSUME IInv, Environment
  PROVE  IInv'
<1>1. CASE Capture
  <2> DEFINE x == [epoch |-> epoch, session |-> session,
                   window |-> IF wpc = "polled" THEN "in" ELSE "out"]
  <2>1. /\ fifo' = Append(fifo, x)
        /\ UNCHANGED <<epoch, counter, era, wpc, ts, label, pre, sample, session, dpc, tsCh, given>>
    BY <1>1 DEF Capture, workerVars, dispVars
  <2>2. fifo \in Seq(AnyCaptured) /\ x \in AnyCaptured
    BY DEF IInv, EraTypes, AnyCaptured
  <2>3. /\ x.epoch = epoch
        /\ wpc = "polled" => x.window = "in"
    OBVIOUS
  <2> HIDE DEF x
  <2>4. /\ fifo' \in Seq(AnyCaptured) /\ Len(fifo') = Len(fifo) + 1
        /\ fifo'[Len(fifo) + 1] = x
        /\ \A i \in 1 .. Len(fifo) : fifo'[i] = fifo[i]
    BY <2>1, <2>2, AppendProperties
  <2>5. EraTypes' BY <2>1, <2>4 DEF IInv, EraTypes
  <2>6. CounterInv' BY <2>1 DEF IInv, CounterInv
  <2>7. \A i \in 1 .. Len(fifo') : i \in 1 .. Len(fifo) \/ i = Len(fifo) + 1
    BY <2>2, <2>4
  <2>8. QueueInv'
    BY <2>1, <2>3, <2>4, <2>7 DEF IInv, QueueInv, Lasting
  <2>9. ReadInv' BY <2>1 DEF IInv, ReadInv, Lasting
  <2>10. Sound(tsCh)' /\ Sound(given)' BY <2>1 DEF IInv, Sound, OneClock, Certain
  <2> QED BY <2>5, <2>6, <2>8, <2>9, <2>10 DEF IInv
<1>2. CASE LoseCarrier \/ RestoreCarrier \/ NetlinkError \/ Cancel
  <2>1. UNCHANGED <<epoch, fifo, counter, era, wpc, ts, label, pre, sample, session, dpc,
                    tsCh, given>>
    BY <1>2 DEF LoseCarrier, RestoreCarrier, NetlinkError, Cancel, phcVars, workerVars, dispVars
  <2>2. Sound(tsCh)' /\ Sound(given)' BY <2>1 DEF IInv, Sound, OneClock, Certain
  <2>3. session' \in Nat BY <2>1 DEF IInv, EraTypes
  <2> QED BY <2>1, <2>2, <2>3, QuietStep
<1> QED BY <1>1, <1>2 DEF Environment

\* The worker's steps around the reading of a timestamp.
LEMMA ReadStep ==
  ASSUME IInv, PollEmpty \/ LoadEra \/ ReadExtts \/ Label \/ SamplePre \/ SampleRead
               \/ SampleError \/ SamplePost
  PROVE  IInv'
<1>1. /\ EraTypes /\ CounterInv /\ QueueInv /\ ReadInv /\ Sound(tsCh) /\ Sound(given)
  BY DEF IInv
<1>2. UNCHANGED <<epoch, counter, session, dpc, tsCh, given>>
  BY DEF PollEmpty, LoadEra, ReadExtts, Label, SamplePre, SampleRead, SampleError, SamplePost,
         phcVars, dispVars
<1>3. Sound(tsCh)' /\ Sound(given)' BY <1>1, <1>2 DEF Sound, OneClock, Certain
<1>4. CASE PollEmpty
  <2>1. /\ wpc' = "polled" /\ fifo = <<>> /\ UNCHANGED <<fifo, era, ts, label, pre, sample>>
    BY <1>4 DEF PollEmpty, phcVars
  <2>2. EraTypes' /\ CounterInv' BY <1>1, <1>2, <2>1 DEF EraTypes, CounterInv
  <2>3. Len(fifo') = 0 BY <2>1
  <2>4. QueueInv' BY <2>3 DEF QueueInv
  <2>5. ReadInv' BY <2>1 DEF ReadInv
  <2> QED BY <1>3, <2>2, <2>4, <2>5 DEF IInv
<1>5. CASE LoadEra
  <2>1. /\ wpc = "polled" /\ wpc' = "top" /\ era' = counter
        /\ UNCHANGED <<fifo, ts, label, pre, sample>>
    BY <1>5 DEF LoadEra, phcVars
  <2>2. EraTypes' /\ CounterInv' BY <1>1, <1>2, <2>1 DEF EraTypes, CounterInv
  <2>3. QueueInv' BY <1>1, <2>1 DEF QueueInv
  <2>4. ReadInv' BY <2>1 DEF ReadInv
  <2> QED BY <1>3, <2>2, <2>3, <2>4 DEF IInv
<1>6. CASE ReadExtts
  <2>1. /\ wpc' = "got" /\ fifo # <<>> /\ ts' = Head(fifo) /\ fifo' = Tail(fifo)
        /\ UNCHANGED <<era, label, pre, sample>>
    BY <1>6 DEF ReadExtts
  <2>2. fifo \in Seq(AnyCaptured) BY <1>1 DEF EraTypes
  <2>3. /\ Head(fifo) \in AnyCaptured /\ Tail(fifo) \in Seq(AnyCaptured)
        /\ Len(Tail(fifo)) = Len(fifo) - 1
        /\ \A i \in 1 .. Len(Tail(fifo)) : Tail(fifo)[i] = fifo[i + 1]
    BY <2>1, <2>2, HeadTailProperties
  <2>4. Head(fifo) = fifo[1] /\ Len(fifo) \in Nat /\ Len(fifo) >= 1
    BY <2>1, <2>2
  <2>5. EraTypes' /\ CounterInv' BY <1>1, <1>2, <2>1, <2>3 DEF EraTypes, CounterInv
  <2>6. \A i \in 1 .. Len(fifo') : i + 1 \in 1 .. Len(fifo) /\ fifo'[i] = fifo[i + 1]
    BY <2>1, <2>3, <2>4
  <2>7. QueueInv' BY <1>1, <1>2, <2>1, <2>6 DEF QueueInv, Lasting
  <2>8. 1 \in 1 .. Len(fifo) BY <2>4
  <2>9. ReadInv' BY <1>1, <1>2, <2>1, <2>4, <2>8 DEF ReadInv, QueueInv, Lasting
  <2> QED BY <1>3, <2>5, <2>7, <2>9 DEF IInv
<1>7. CASE Label
  <2>1. /\ wpc = "got" /\ wpc' = "pre" /\ label' = EraOf(counter, era)
        /\ UNCHANGED <<fifo, era, ts, pre, sample>>
    BY <1>7 DEF Label, phcVars
  <2>2. /\ label' \in Nat /\ label' <= counter
        /\ ~Uncertain(label') => counter = era /\ label' = counter
    BY <1>1, <2>1, EraOfFacts DEF EraTypes, CounterInv
  <2>3. EraTypes' /\ CounterInv' BY <1>1, <1>2, <2>1, <2>2 DEF EraTypes, CounterInv
  <2>4. QueueInv' BY <1>1, <1>2, <2>1 DEF QueueInv, Lasting
  <2>5. ReadInv' BY <1>1, <1>2, <2>1, <2>2 DEF ReadInv, Lasting
  <2> QED BY <1>3, <2>3, <2>4, <2>5 DEF IInv
<1>8. CASE SamplePre
  <2>1. /\ wpc = "pre" /\ wpc' = "read" /\ pre' = counter
        /\ UNCHANGED <<fifo, era, ts, label, sample>>
    BY <1>8 DEF SamplePre, phcVars
  <2>2. EraTypes' /\ CounterInv' BY <1>1, <1>2, <2>1 DEF EraTypes, CounterInv
  <2>3. QueueInv' BY <1>1, <1>2, <2>1 DEF QueueInv, Lasting
  <2>4. ReadInv' BY <1>1, <1>2, <2>1 DEF ReadInv, Lasting
  <2> QED BY <1>3, <2>2, <2>3, <2>4 DEF IInv
<1>9. CASE SampleRead
  <2>1. /\ wpc = "read" /\ wpc' = "post" /\ sample' = [era |-> 0, epoch |-> epoch]
        /\ UNCHANGED <<fifo, era, ts, label, pre>>
    BY <1>9 DEF SampleRead, phcVars
  <2>2. sample' \in AnySample /\ sample'.epoch = epoch
    BY <1>1, <2>1 DEF AnySample, EraTypes
  <2>3. EraTypes' /\ CounterInv' BY <1>1, <1>2, <2>1, <2>2 DEF EraTypes, CounterInv
  <2>4. QueueInv' BY <1>1, <1>2, <2>1 DEF QueueInv, Lasting
  <2>5. ReadInv' BY <1>1, <1>2, <2>1, <2>2 DEF ReadInv, Lasting
  <2> QED BY <1>3, <2>3, <2>4, <2>5 DEF IInv
<1>10. CASE SampleError
  <2>1. /\ wpc' = "send" /\ sample' = ZeroSample
        /\ UNCHANGED <<fifo, era, ts, label, pre>>
    BY <1>10 DEF SampleError, phcVars
  <2>2. sample' \in AnySample BY <2>1, ZeroFacts
  <2>3. EraTypes' /\ CounterInv' BY <1>1, <1>2, <2>1, <2>2 DEF EraTypes, CounterInv
  <2>4. QueueInv' BY <1>1, <1>2, <2>1 DEF QueueInv, Lasting
  <2>5. sample'.era = 0 /\ Uncertain(0) BY <2>1 DEF ZeroSample, Uncertain
  <2>6. ReadInv' BY <2>1, <2>5 DEF ReadInv
  <2> QED BY <1>3, <2>3, <2>4, <2>6 DEF IInv
<1>11. CASE SamplePost
  <2>1. /\ wpc = "post" /\ wpc' = "send"
        /\ sample' = [sample EXCEPT !.era = ComputeEra(pre, counter)]
        /\ UNCHANGED <<fifo, era, ts, label, pre>>
    BY <1>11 DEF SamplePost, phcVars
  <2>2. /\ ComputeEra(pre, counter) \in Nat
        /\ ~Uncertain(ComputeEra(pre, counter))
             => pre = counter /\ ComputeEra(pre, counter) = counter
    BY <1>1, ComputeEraFacts DEF EraTypes, CounterInv
  <2>3. /\ sample' \in AnySample /\ sample'.epoch = sample.epoch
        /\ sample'.era = ComputeEra(pre, counter)
    BY <1>1, <2>1, <2>2 DEF EraTypes, AnySample
  <2>4. EraTypes' /\ CounterInv' BY <1>1, <1>2, <2>1, <2>3 DEF EraTypes, CounterInv
  <2>5. QueueInv' BY <1>1, <1>2, <2>1 DEF QueueInv, Lasting
  <2>6. ReadInv' BY <1>1, <1>2, <2>1, <2>2, <2>3 DEF ReadInv, Lasting
  <2> QED BY <1>3, <2>4, <2>5, <2>6 DEF IInv
<1> QED BY <1>4, <1>5, <1>6, <1>7, <1>8, <1>9, <1>10, <1>11

LEMMA SendStep ==
  ASSUME IInv, SendEvent
  PROVE  IInv'
<1>1. /\ EraTypes /\ CounterInv /\ QueueInv /\ ReadInv /\ Sound(given)
  BY DEF IInv
<1>2. /\ wpc = "send" /\ wpc' = "top"
      /\ tsCh' = [kind |-> "timestamp", ts |-> ts, era |-> label, sample |-> sample]
      /\ ts' = ZeroTs /\ label' = 0 /\ pre' = 0 /\ sample' = ZeroSample
      /\ UNCHANGED <<epoch, fifo, era, session, counter, dpc, given>>
  BY DEF SendEvent, phcVars, dispVars
<1>3. EraTypes' /\ CounterInv'
  BY <1>1, <1>2, ZeroFacts DEF EraTypes, CounterInv
<1>4. QueueInv' BY <1>1, <1>2 DEF QueueInv, Lasting
<1>5. ReadInv' BY <1>2 DEF ReadInv
<1>6. /\ tsCh'.ts = ts /\ tsCh'.era = label /\ tsCh'.sample = sample
  BY <1>2
<1>7. Sound(tsCh)'
  BY <1>1, <1>2, <1>6 DEF Sound, OneClock, Certain, ReadInv
<1>8. Sound(given)' BY <1>1, <1>2 DEF Sound, OneClock, Certain
<1> QED BY <1>3, <1>4, <1>5, <1>7, <1>8 DEF IInv

\* The worker's other steps: its exit and the handling of a lost carrier.
LEMMA LifecycleStep ==
  ASSUME IInv, Exit \/ CloseTsCh \/ CarrierLost \/ WatchLost \/ SendPause \/ CarrierBack
               \/ SendResume
  PROVE  IInv'
<1>1. /\ UNCHANGED <<epoch, fifo, counter, era, ts, label, pre, sample, dpc, given>>
      /\ wpc' = wpc \/ wpc' \in {"top", "pause", "noCarrier", "resume", "exited"}
      /\ session' = session \/ session' = session + 1
      /\ tsCh' \in {tsCh, ClosedMark, PauseEvent, ResumeEvent}
  BY DEF Exit, CloseTsCh, CarrierLost, WatchLost, SendPause, CarrierBack, SendResume,
         phcVars, workerVars, dispVars
<1>2. session' \in Nat BY <1>1 DEF IInv, EraTypes
<1>3. Sound(tsCh)'
  BY <1>1 DEF IInv, Sound, OneClock, Certain, ClosedMark, PauseEvent, ResumeEvent
<1>4. Sound(given)' BY <1>1 DEF IInv, Sound, OneClock, Certain
<1> QED BY <1>1, <1>2, <1>3, <1>4, QuietStep

LEMMA DispatcherStep ==
  ASSUME IInv, Dispatcher
  PROVE  IInv'
<1>1. counter \in Nat /\ epoch \in Nat
  BY DEF IInv, EraTypes
<1>2. Uncertain(counter) <=> dpc \in {"stepping", "stepped"}
  BY DEF IInv, CounterInv
<1>3. /\ Uncertain(counter) <=> ~Uncertain(counter + 1)
      /\ Uncertain(counter) <=> Uncertain(counter + 2)
  BY <1>1, Parity
<1>4. CASE HandlePause \/ HandleTimestamp
  <2>1. /\ UNCHANGED <<epoch, fifo, counter, era, wpc, ts, label, pre, sample, session, dpc>>
        /\ tsCh' = NoEvent /\ given' \in {given, tsCh}
    BY <1>4 DEF HandlePause, HandleTimestamp, phcVars, workerVars, dispVars
  <2>2. Sound(tsCh)' BY <2>1 DEF Sound, NoEvent
  <2>3. Sound(given)' BY <2>1 DEF IInv, Sound, OneClock, Certain
  <2>4. session' \in Nat BY <2>1 DEF IInv, EraTypes
  <2> QED BY <2>1, <2>2, <2>3, <2>4, QuietStep
<1>5. CASE ResumeLoad \/ HandleClosed
  <2>1. /\ UNCHANGED <<epoch, fifo, counter, era, wpc, ts, label, pre, sample, session, given>>
        /\ tsCh' = NoEvent /\ dpc = "idle" /\ dpc' \in {"resuming", "done"}
    BY <1>5 DEF ResumeLoad, HandleClosed, phcVars, workerVars
  <2>2. EraTypes' BY <2>1 DEF IInv, EraTypes
  <2>3. CounterInv' BY <2>1 DEF IInv, CounterInv
  <2>4. QueueInv' BY <2>1 DEF IInv, QueueInv, Lasting
  <2>5. ReadInv' BY <2>1 DEF IInv, ReadInv, Lasting
  <2>6. Sound(tsCh)' BY <2>1 DEF Sound, NoEvent
  <2>7. Sound(given)' BY <2>1 DEF IInv, Sound, OneClock, Certain
  <2> QED BY <2>2, <2>3, <2>4, <2>5, <2>6, <2>7 DEF IInv
<1>6. CASE ResumeAdd \/ AdjBegin \/ AdjStep \/ AdjEnd
  <2>1. UNCHANGED <<fifo, session, era, wpc, ts, label, pre, sample, tsCh, given>>
    BY <1>6 DEF ResumeAdd, AdjBegin, AdjStep, AdjEnd, phcVars, workerVars
  <2>2. CASE ResumeAdd
    <3>1. counter' = counter + 2 /\ dpc = "resuming" /\ dpc' = "idle" /\ epoch' = epoch
      BY <2>2 DEF ResumeAdd, phcVars
    <3>2. /\ epoch' \in Nat /\ counter' \in Nat /\ counter' > counter
      BY <1>1, <3>1
    <3>3. Uncertain(counter') <=> dpc' \in {"stepping", "stepped"}
      BY <1>2, <1>3, <3>1
    <3> QED BY <1>1, <2>1, <3>2, <3>3, CounterStep
  <2>3. CASE AdjBegin
    <3>1. counter' = counter + 1 /\ dpc = "idle" /\ dpc' = "stepping" /\ epoch' = epoch
      BY <2>3 DEF AdjBegin, phcVars
    <3>2. /\ epoch' \in Nat /\ counter' \in Nat /\ counter' > counter
      BY <1>1, <3>1
    <3>3. Uncertain(counter') <=> dpc' \in {"stepping", "stepped"}
      BY <1>2, <1>3, <3>1
    <3> QED BY <1>1, <2>1, <3>2, <3>3, CounterStep
  <2>4. CASE AdjStep
    <3>1. counter' = counter /\ dpc = "stepping" /\ dpc' = "stepped"
          /\ epoch' \in {epoch, epoch + 1}
      BY <2>4 DEF AdjStep
    <3>2. /\ epoch' \in Nat /\ counter' \in Nat
      BY <1>1, <3>1
    <3> QED BY <1>1, <1>2, <2>1, <3>1, <3>2, CounterStep
  <2>5. CASE AdjEnd
    <3>1. counter' = counter + 1 /\ dpc = "stepped" /\ dpc' = "idle" /\ epoch' = epoch
      BY <2>5 DEF AdjEnd, phcVars
    <3>2. /\ epoch' \in Nat /\ counter' \in Nat /\ counter' > counter
      BY <1>1, <3>1
    <3>3. Uncertain(counter') <=> dpc' \in {"stepping", "stepped"}
      BY <1>2, <1>3, <3>1
    <3> QED BY <1>1, <2>1, <3>2, <3>3, CounterStep
  <2> QED BY <1>6, <2>2, <2>3, <2>4, <2>5
<1> QED BY <1>4, <1>5, <1>6 DEF Dispatcher, Handle

LEMMA StepIInv == IInv /\ [Next]_vars => IInv'
<1> SUFFICES ASSUME IInv, [Next]_vars PROVE IInv'
  OBVIOUS
<1>1. CASE Environment BY <1>1, EnvironmentStep
<1>2. CASE ReadWorker BY <1>2, ReadStep, SendStep, LifecycleStep DEF ReadWorker
<1>3. CASE Dispatcher BY <1>3, DispatcherStep
<1>4. CASE UNCHANGED vars
  <2>1. UNCHANGED <<epoch, fifo, counter, era, wpc, ts, label, pre, sample, session, dpc,
                    tsCh, given>>
    BY <1>4 DEF vars, phcVars, workerVars, dispVars
  <2>2. Sound(tsCh)' /\ Sound(given)' BY <2>1 DEF IInv, Sound, OneClock, Certain
  <2>3. session' \in Nat BY <2>1 DEF IInv, EraTypes
  <2> QED BY <2>1, <2>2, <2>3, QuietStep
<1> QED BY <1>1, <1>2, <1>3, <1>4 DEF Next, Finished

\* The counter is odd outside AdjTime, no remembered era is ahead of it, and what
\* is queued, read or given in an era that lasts was captured from this clock.
THEOREM Invariance == Spec => []IInv
BY InitIInv, StepIInv, PTL DEF Spec

\* A timestamp and the reading of the clock that goes with it are of one clock when
\* they have the same certain era, wherever in AdjTime the reads fall, unless the
\* timestamp was captured between an empty poll and the load of the era.
THEOREM ErasAreSound == Spec => []EraSound
<1>1. IInv => EraSound
  BY DEF IInv, Sound, EraSound
<1> QED BY <1>1, Invariance, PTL
-----------------------------------------------------------------------------
(* The bounds of the counters, which depend on each other: the worker announces a   *)
(* resume once for each loss of carrier, and each resume and each step moves the    *)
(* era counter on.  TypeOK speaks of them.                                          *)

If(b) == IF b THEN 1 ELSE 0
Pausing   == wpc \in {"pause", "noCarrier", "resume"}
Announced == tsCh.kind = "resume"

Bounds ==
  /\ epoch + If(dpc = "stepping") <= steps
  /\ session = resumed + If(Announced)
  /\ session + If(Pausing) + If(carrier = "down" /\ wpc \notin {"pause", "noCarrier"})
       <= losses + 1
  /\ counter = 2 * (resumed + steps) - 1 - 2 * If(dpc = "resuming")
                 - If(dpc \in {"stepping", "stepped"})
  /\ counter >= 1

LEMMA InitBounds == Init => TypeOK /\ Bounds
<1> SUFFICES ASSUME Init PROVE TypeOK /\ Bounds
  OBVIOUS
<1>1. /\ 0 \in Eras /\ 1 \in Eras /\ {0, 1} \subseteq Sessions /\ 0 \in 0 .. MaxSteps
      /\ 0 \in 0 .. MaxPulses /\ 0 \in 0 .. MaxLosses
  BY BoundsAssumption DEF Eras, MaxEra, Sessions
<1>2. ZeroTs \in Captured /\ ZeroSample \in Sample
  BY <1>1 DEF ZeroTs, ZeroSample, Captured, Sample
<1>3. fifo \in Seq(Captured)
  <2>1. <<>> \in Seq(Captured) OBVIOUS
  <2>2. <<ZeroTs>> \in Seq(Captured) BY <1>2
  <2> QED BY <2>1, <2>2 DEF Init
<1>4. TypeOK
  BY <1>1, <1>2, <1>3 DEF Init, TypeOK, WorkerPC, StaleEra
<1>5. Bounds
  BY DEF Init, Bounds, If, Pausing, Announced, NoEvent
<1> QED BY <1>4, <1>5

LEMMA StepBounds ==
  ASSUME TypeOK, Bounds, [Next]_vars
  PROVE  Bounds'
<1> USE DEF Bounds, If, Pausing, Announced
<1>1. /\ epoch \in Nat /\ session \in Nat /\ resumed \in Nat /\ steps \in Nat /\ losses \in Nat
      /\ counter \in Int
  BY BoundsAssumption DEF TypeOK, Eras, MaxEra, Sessions
<1>2. CASE Capture \/ Cancel
  BY <1>1, <1>2 DEF Capture, Cancel, workerVars, dispVars, linkVars, phcVars
<1>8. CASE LoseCarrier \/ RestoreCarrier \/ NetlinkError
  <2>1. UNCHANGED <<epoch, dpc, steps, session, resumed, tsCh, wpc, counter>>
    BY <1>8 DEF LoseCarrier, RestoreCarrier, NetlinkError, phcVars, workerVars, dispVars
  <2>2. \/ losses' = losses + 1
        \/ losses' = losses /\ carrier' # "down"
    BY <1>8 DEF LoseCarrier, RestoreCarrier, NetlinkError
  <2>3. If(carrier' = "down" /\ wpc \notin {"pause", "noCarrier"}) \in {0, 1}
    OBVIOUS
  <2> QED BY <1>1, <2>1, <2>2, <2>3
<1>3. CASE Exit \/ PollEmpty \/ LoadEra \/ ReadExtts \/ Label \/ SamplePre \/ SampleRead
            \/ SampleError \/ SamplePost
  <2>1. UNCHANGED <<epoch, dpc, steps, session, resumed, tsCh, counter, carrier, losses>>
    BY <1>3 DEF Exit, PollEmpty, LoadEra, ReadExtts, Label, SamplePre, SampleRead, SampleError,
                SamplePost, phcVars, dispVars, linkVars
  <2>2. {wpc, wpc'} \cap {"pause", "noCarrier", "resume"} = {}
    BY <1>3 DEF Exit, PollEmpty, LoadEra, ReadExtts, Label, SamplePre, SampleRead, SampleError,
                SamplePost
  <2> QED BY <1>1, <2>1, <2>2
<1>9. CASE CarrierLost \/ CarrierBack
  BY <1>1, <1>9 DEF CarrierLost, CarrierBack, phcVars, dispVars, linkVars
<1>4. CASE CloseTsCh \/ WatchLost \/ SendEvent \/ SendPause \/ SendResume
  BY <1>1, <1>4 DEF CloseTsCh, WatchLost, SendEvent, SendPause, SendResume, phcVars, workerVars,
                    dispVars, linkVars, NoEvent, ClosedMark, PauseEvent, ResumeEvent
<1>5. CASE HandlePause \/ HandleTimestamp \/ HandleClosed \/ ResumeLoad
  BY <1>1, <1>5 DEF HandlePause, HandleTimestamp, HandleClosed, ResumeLoad, phcVars, workerVars,
                    dispVars, linkVars, NoEvent, ClosedMark, PauseEvent, ResumeEvent
<1>6. CASE ResumeAdd \/ AdjBegin \/ AdjStep \/ AdjEnd
  BY <1>1, <1>6 DEF ResumeAdd, AdjBegin, AdjStep, AdjEnd, phcVars, workerVars, linkVars
<1>7. CASE UNCHANGED vars
  BY <1>7 DEF vars, phcVars, workerVars, dispVars, linkVars
<1> QED BY <1>2, <1>3, <1>4, <1>5, <1>6, <1>7, <1>8, <1>9
        DEF Next, Environment, ReadWorker, Dispatcher, Handle, Finished

LEMMA ComputeEraBound ==
  ASSUME NEW a \in Nat, NEW b \in Nat, a <= b
  PROVE  ComputeEra(a, b) <= b
BY DEF ComputeEra

Numbers ==
  /\ epoch \in Nat /\ session \in Nat /\ resumed \in Nat /\ counter \in Nat
  /\ steps \in 0 .. MaxSteps /\ losses \in 0 .. MaxLosses

InRange ==
  /\ epoch \in 0 .. MaxSteps /\ session \in Sessions /\ resumed \in Sessions
  /\ counter \in Eras \ {0}

LEMMA Ranges == Numbers /\ Bounds => InRange
<1> SUFFICES ASSUME Numbers, Bounds PROVE InRange
  OBVIOUS
<1>1. /\ epoch <= steps /\ session <= losses + 1 /\ resumed <= session
      /\ counter <= 2 * (resumed + steps) - 1 /\ counter >= 1
  BY DEF Numbers, Bounds, If
<1> QED BY <1>1, BoundsAssumption DEF Numbers, InRange, Sessions, Eras, MaxEra

\* What a step can do to the data that few steps touch.
LEMMA NextEffects ==
  ASSUME [Next]_vars
  PROVE  /\ resumed' \in {resumed, resumed + 1} /\ staleEra' \in {staleEra, counter}
         /\ Capture \/ ReadExtts \/ (fifo' = fifo /\ ts' \in {ts, ZeroTs})
         /\ SampleRead \/ SamplePost \/ sample' \in {sample, ZeroSample}
         /\ \/ SendEvent \/ HandleTimestamp
            \/ /\ tsCh' \in {tsCh, NoEvent, PauseEvent, ResumeEvent, ClosedMark}
               /\ given' = given
<1>1. resumed' \in {resumed, resumed + 1} /\ staleEra' \in {staleEra, counter}
  BY DEF Next, Environment, ReadWorker, Dispatcher, Handle, Finished,
         Capture, LoseCarrier, RestoreCarrier, NetlinkError, Cancel,
         Exit, CloseTsCh, CarrierLost, WatchLost, PollEmpty, LoadEra, ReadExtts, Label, SamplePre,
         SampleRead, SampleError, SamplePost, SendEvent, SendPause, CarrierBack, SendResume,
         HandlePause, ResumeLoad, ResumeAdd, HandleTimestamp, HandleClosed,
         AdjBegin, AdjStep, AdjEnd, vars, phcVars, workerVars, dispVars
<1>2. Capture \/ ReadExtts \/ (fifo' = fifo /\ ts' \in {ts, ZeroTs})
  BY DEF Next, Environment, ReadWorker, Dispatcher, Handle, Finished,
         LoseCarrier, RestoreCarrier, NetlinkError, Cancel,
         Exit, CloseTsCh, CarrierLost, WatchLost, PollEmpty, LoadEra, Label, SamplePre,
         SampleRead, SampleError, SamplePost, SendEvent, SendPause, CarrierBack, SendResume,
         HandlePause, ResumeLoad, ResumeAdd, HandleTimestamp, HandleClosed,
         AdjBegin, AdjStep, AdjEnd, vars, phcVars, workerVars, dispVars
<1>3. SampleRead \/ SamplePost \/ sample' \in {sample, ZeroSample}
  BY DEF Next, Environment, ReadWorker, Dispatcher, Handle, Finished,
         Capture, LoseCarrier, RestoreCarrier, NetlinkError, Cancel,
         Exit, CloseTsCh, CarrierLost, WatchLost, PollEmpty, LoadEra, ReadExtts, Label, SamplePre,
         SampleError, SendEvent, SendPause, CarrierBack, SendResume,
         HandlePause, ResumeLoad, ResumeAdd, HandleTimestamp, HandleClosed,
         AdjBegin, AdjStep, AdjEnd, vars, phcVars, workerVars, dispVars
<1>4. \/ SendEvent \/ HandleTimestamp
      \/ /\ tsCh' \in {tsCh, NoEvent, PauseEvent, ResumeEvent, ClosedMark}
         /\ given' = given
  BY DEF Next, Environment, ReadWorker, Dispatcher, Handle, Finished,
         Capture, LoseCarrier, RestoreCarrier, NetlinkError, Cancel,
         Exit, CloseTsCh, CarrierLost, WatchLost, PollEmpty, LoadEra, ReadExtts, Label, SamplePre,
         SampleRead, SampleError, SamplePost, SendPause, CarrierBack, SendResume,
         HandlePause, ResumeLoad, ResumeAdd, HandleClosed,
         AdjBegin, AdjStep, AdjEnd, vars, phcVars, workerVars, dispVars
<1> QED BY <1>1, <1>2, <1>3, <1>4

LEMMA StepTypeOK ==
  ASSUME IInv, TypeOK, Bounds, [Next]_vars, IInv', Bounds'
  PROVE  TypeOK'
<1>1. /\ extts' \in {"on", "off"} /\ wpc' \in WorkerPC
      /\ carrier' \in {"up", "down", "error"} /\ watch' \in {"on", "off"}
      /\ ctx' \in {"live", "cancelled"}
      /\ dpc' \in {"idle", "stepping", "stepped", "resuming", "done"}
  BY DEF TypeOK, WorkerPC, Next, Environment, ReadWorker, Dispatcher, Handle, Finished,
         Capture, LoseCarrier, RestoreCarrier, NetlinkError, Cancel,
         Exit, CloseTsCh, CarrierLost, WatchLost, PollEmpty, LoadEra, ReadExtts, Label, SamplePre,
         SampleRead, SampleError, SamplePost, SendEvent, SendPause, CarrierBack, SendResume,
         HandlePause, ResumeLoad, ResumeAdd, HandleTimestamp, HandleClosed,
         AdjBegin, AdjStep, AdjEnd, vars, phcVars, workerVars, dispVars, linkVars
<1>2. pulses' \in 0 .. MaxPulses /\ steps' \in 0 .. MaxSteps /\ losses' \in 0 .. MaxLosses
  BY BoundsAssumption
     DEF TypeOK, Next, Environment, ReadWorker, Dispatcher, Handle, Finished,
         Capture, LoseCarrier, RestoreCarrier, NetlinkError, Cancel,
         Exit, CloseTsCh, CarrierLost, WatchLost, PollEmpty, LoadEra, ReadExtts, Label, SamplePre,
         SampleRead, SampleError, SamplePost, SendEvent, SendPause, CarrierBack, SendResume,
         HandlePause, ResumeLoad, ResumeAdd, HandleTimestamp, HandleClosed,
         AdjBegin, AdjStep, AdjEnd, vars, phcVars, workerVars, dispVars, linkVars
<1>3. resumed' \in Nat
  BY NextEffects, BoundsAssumption DEF TypeOK, Sessions
<1>4. /\ epoch' \in 0 .. MaxSteps /\ session' \in Sessions /\ resumed' \in Sessions
      /\ counter' \in Eras \ {0} /\ epoch \in 0 .. MaxSteps /\ session \in Sessions
      /\ counter \in Eras /\ counter \in Nat
  <2>1. epoch' \in Nat /\ session' \in Nat /\ counter' \in Nat
    BY DEF IInv, EraTypes
  <2>2. Numbers'
    BY <1>2, <1>3, <2>1 DEF Numbers
  <2>3. (Numbers /\ Bounds => InRange)'
    BY Ranges, PTL
  <2>4. epoch \in 0 .. MaxSteps /\ session \in Sessions /\ counter \in Eras /\ counter \in Nat
    BY DEF TypeOK, IInv, EraTypes
  <2> QED BY <2>2, <2>3, <2>4 DEF InRange
<1>5. era' \in Eras /\ label' \in Eras /\ pre' \in Eras
  BY <1>4, BoundsAssumption DEF IInv, EraTypes, CounterInv, Eras, MaxEra
<1>6. staleEra' \in Eras
  BY <1>4, NextEffects DEF TypeOK
<1>7. ZeroTs \in Captured /\ ZeroSample \in Sample
  BY BoundsAssumption DEF ZeroTs, ZeroSample, Captured, Sample, Sessions, Eras, MaxEra
<1>8. fifo' \in Seq(Captured) /\ ts' \in Captured
  <2>1. CASE Capture
    <3> DEFINE x == [epoch |-> epoch, session |-> session,
                     window |-> IF wpc = "polled" THEN "in" ELSE "out"]
    <3>1. x \in Captured BY <1>4 DEF Captured
    <3>2. fifo' = Append(fifo, x) /\ ts' = ts BY <2>1 DEF Capture, workerVars
    <3> HIDE DEF x
    <3> QED BY <3>1, <3>2, AppendProperties DEF TypeOK
  <2>2. CASE ReadExtts
    <3>1. fifo # <<>> /\ ts' = Head(fifo) /\ fifo' = Tail(fifo) BY <2>2 DEF ReadExtts
    <3> QED BY <3>1, HeadTailProperties DEF TypeOK
  <2>3. CASE ~Capture /\ ~ReadExtts
    <3>1. fifo' = fifo /\ ts' \in {ts, ZeroTs}
      BY <2>3, NextEffects
    <3> QED BY <1>7, <3>1 DEF TypeOK
  <2> QED BY <2>1, <2>2, <2>3
<1>9. sample' \in Sample
  <2>1. CASE SampleRead
    BY <1>4, <2>1, BoundsAssumption DEF SampleRead, Sample, Eras, MaxEra
  <2>2. CASE SamplePost
    <3>1. pre \in Nat /\ pre <= counter BY DEF IInv, EraTypes, CounterInv
    <3>2. ComputeEra(pre, counter) \in Nat /\ ComputeEra(pre, counter) <= counter
      BY <1>4, <3>1, ComputeEraFacts, ComputeEraBound
    <3>3. ComputeEra(pre, counter) \in Eras
      BY <1>4, <3>2, BoundsAssumption DEF Eras, MaxEra
    <3> QED BY <2>2, <3>3 DEF SamplePost, TypeOK, Sample
  <2>3. CASE ~SampleRead /\ ~SamplePost
    <3>1. sample' \in {sample, ZeroSample}
      BY <2>3, NextEffects
    <3> QED BY <1>7, <3>1 DEF TypeOK
  <2> QED BY <2>1, <2>2, <2>3
<1>10. /\ tsCh' \in {NoEvent, PauseEvent, ResumeEvent, ClosedMark} \cup TimestampEvent
       /\ given' \in {NoEvent} \cup TimestampEvent
  <2>1. CASE SendEvent
    BY <2>1 DEF SendEvent, TypeOK, TimestampEvent, dispVars
  <2>2. CASE HandleTimestamp
    <3>1. tsCh \in TimestampEvent
      BY <2>2 DEF HandleTimestamp, TypeOK, NoEvent, PauseEvent, ResumeEvent, ClosedMark
    <3>2. tsCh' = NoEvent /\ given' \in {given, tsCh} BY <2>2 DEF HandleTimestamp
    <3> QED BY <3>1, <3>2 DEF TypeOK
  <2>3. CASE ~SendEvent /\ ~HandleTimestamp
    <3>1. tsCh' \in {tsCh, NoEvent, PauseEvent, ResumeEvent, ClosedMark} /\ given' = given
      BY <2>3, NextEffects
    <3> QED BY <3>1 DEF TypeOK
  <2> QED BY <2>1, <2>2, <2>3
<1> QED BY <1>1, <1>2, <1>4, <1>5, <1>6, <1>8, <1>9, <1>10 DEF TypeOK

-----------------------------------------------------------------------------
(* Stale timestamps.  One from before the last resume that the worker still finds   *)
(* in the queue gets its label from an era that the worker learnt when the queue    *)
(* was last empty, hence before that resume; and ResumeFunc makes the era that it   *)
(* finds, which is no older, the stale one.                                         *)

FromBefore(e) == e <= staleEra \/ Announced

StaleInv ==
  /\ staleEra <= counter
  /\ \A i \in 1 .. Len(fifo) : fifo[i].session <= session
  /\ wpc = "polled" => \A i \in 1 .. Len(fifo) : fifo[i].session = session
  /\ \A i \in 1 .. Len(fifo) : fifo[i].session < session => FromBefore(era)
  /\ ts.session <= session
  /\ (wpc = "got" /\ ts.session < session) => FromBefore(era)
  /\ (wpc \in {"pre", "read", "post", "send"} /\ ts.session < session /\ ~Uncertain(label))
       => FromBefore(label)
  /\ (Certain(tsCh) /\ tsCh.ts.session # resumed) => tsCh.era <= staleEra

TInv == IInv /\ TypeOK /\ Bounds /\ StaleInv

LEMMA InitStale == Init => StaleInv
<1> SUFFICES ASSUME Init PROVE StaleInv
  OBVIOUS
<1>1. fifo \in {<<>>, <<ZeroTs>>} /\ session = 1 /\ era = 0 /\ staleEra = 0 /\ counter = 1
      /\ ts = ZeroTs /\ wpc = "top" /\ tsCh = NoEvent
  BY DEF Init, StaleEra
<1>2. \A i \in 1 .. Len(fifo) : fifo[i].session = 0
  <2>1. CASE fifo = <<>> BY <2>1
  <2>2. CASE fifo = <<ZeroTs>>
    <3>1. Len(fifo) = 1 /\ fifo[1] = ZeroTs BY <2>2
    <3> QED BY <3>1 DEF ZeroTs
  <2> QED BY <1>1, <2>1, <2>2
<1>3. ZeroTs.session = 0 BY DEF ZeroTs
<1> QED BY <1>1, <1>2, <1>3 DEF StaleInv, FromBefore, Certain, NoEvent

\* Steps that leave what StaleInv speaks of alone, apart from the counter, which grows.
LEMMA QuietStale ==
  ASSUME TInv, counter' \in Nat, counter <= counter',
         UNCHANGED <<fifo, session, era, staleEra, ts, label, tsCh, resumed>>,
         \/ wpc' = wpc
         \/ wpc' \in {"top", "pause", "noCarrier", "resume", "exited"}
         \/ {wpc, wpc'} \subseteq {"pre", "read", "post", "send"}
  PROVE  StaleInv'
<1>1. staleEra \in Nat /\ counter \in Nat
  BY DEF TInv, IInv, EraTypes, TypeOK, Eras
<1> QED BY <1>1 DEF TInv, StaleInv, FromBefore, Announced, Certain

LEMMA StepStale ==
  ASSUME TInv, IInv', [Next]_vars
  PROVE  StaleInv'
<1>1. /\ StaleInv /\ CounterInv /\ CounterInv'
      /\ session = IF Announced THEN resumed + 1 ELSE resumed
  <2>1. resumed \in Int BY BoundsAssumption DEF TInv, TypeOK, Sessions
  <2>2. session = resumed + If(Announced) BY DEF TInv, Bounds
  <2>3. CASE Announced BY <2>1, <2>2, <2>3 DEF If, TInv, IInv
  <2>4. CASE ~Announced BY <2>1, <2>2, <2>4 DEF If, TInv, IInv
  <2> QED BY <2>3, <2>4
<1>2. /\ staleEra \in Nat /\ counter \in Nat /\ counter' \in Nat /\ era \in Nat /\ label \in Nat
      /\ session \in Nat /\ resumed \in Nat /\ ts.session \in Nat
      /\ fifo \in Seq(Captured) /\ \A i \in 1 .. Len(fifo) : fifo[i].session \in Nat
  <2>1. /\ counter \in Nat /\ counter' \in Nat /\ era \in Nat /\ label \in Nat
    BY DEF TInv, IInv, EraTypes
  <2>2. Sessions \subseteq Nat /\ Eras \subseteq Nat
    BY BoundsAssumption DEF Eras, Sessions
  <2>3. \A c \in Captured : c.session \in Nat
    BY <2>2 DEF Captured
  <2>4. fifo \in Seq(Captured) /\ ts \in Captured
    BY DEF TInv, TypeOK
  <2>5. \A i \in 1 .. Len(fifo) : fifo[i] \in Captured
    BY <2>4
  <2>6. staleEra \in Nat /\ session \in Nat /\ resumed \in Nat
    BY <2>2 DEF TInv, TypeOK
  <2> QED BY <2>1, <2>3, <2>4, <2>5, <2>6
<1>3. CASE Capture
  <2> DEFINE x == [epoch |-> epoch, session |-> session,
                   window |-> IF wpc = "polled" THEN "in" ELSE "out"]
  <2>1. /\ fifo' = Append(fifo, x)
        /\ UNCHANGED <<session, era, staleEra, counter, wpc, ts, label, tsCh, resumed>>
    BY <1>3 DEF Capture, workerVars, dispVars
  <2>2. x \in Captured /\ x.session = session
    BY DEF Captured, TInv, TypeOK
  <2> HIDE DEF x
  <2>3. \A i \in 1 .. Len(fifo') : \/ i \in 1 .. Len(fifo) /\ fifo'[i] = fifo[i]
                                   \/ fifo'[i].session = session
    BY <1>2, <2>1, <2>2, AppendProperties
  <2> QED BY <1>1, <1>2, <2>1, <2>3 DEF StaleInv, FromBefore, Announced, Certain
<1>4. CASE LoseCarrier \/ RestoreCarrier \/ NetlinkError \/ Cancel \/ Exit \/ CarrierLost
           \/ WatchLost \/ SamplePre \/ SampleRead \/ SampleError \/ SamplePost \/ CarrierBack
           \/ ResumeAdd \/ AdjBegin \/ AdjStep \/ AdjEnd \/ UNCHANGED vars
  <2>1. /\ UNCHANGED <<fifo, session, era, staleEra, ts, label, tsCh, resumed>>
        /\ counter' \in {counter, counter + 1, counter + 2}
        /\ \/ wpc' = wpc
           \/ wpc' \in {"top", "pause", "noCarrier", "resume", "exited"}
           \/ {wpc, wpc'} \subseteq {"pre", "read", "post", "send"}
    BY <1>4 DEF LoseCarrier, RestoreCarrier, NetlinkError, Cancel, Exit, CarrierLost,
           WatchLost, SamplePre, SampleRead, SampleError, SamplePost, CarrierBack,
           ResumeAdd, AdjBegin, AdjStep, AdjEnd, vars, phcVars, workerVars, dispVars
  <2>2. counter <= counter' BY <1>2, <2>1
  <2> QED BY <1>2, <2>1, <2>2, QuietStale
<1>5. CASE PollEmpty
  <2>1. /\ fifo = <<>> /\ wpc' = "polled"
        /\ UNCHANGED <<fifo, session, era, staleEra, counter, ts, label, tsCh, resumed>>
    BY <1>5 DEF PollEmpty, phcVars, dispVars
  <2>2. Len(fifo') = 0 BY <2>1
  <2> QED BY <1>1, <1>2, <2>1, <2>2 DEF StaleInv, FromBefore, Announced, Certain
<1>6. CASE LoadEra
  <2>1. /\ wpc = "polled" /\ wpc' = "top"
        /\ UNCHANGED <<fifo, session, staleEra, counter, ts, label, tsCh, resumed>>
    BY <1>6 DEF LoadEra, phcVars, dispVars
  <2> QED BY <1>1, <1>2, <2>1 DEF StaleInv, FromBefore, Announced, Certain
<1>7. CASE ReadExtts
  <2>1. /\ wpc' = "got" /\ fifo # <<>> /\ ts' = Head(fifo) /\ fifo' = Tail(fifo)
        /\ UNCHANGED <<session, era, staleEra, counter, label, tsCh, resumed>>
    BY <1>7 DEF ReadExtts, dispVars
  <2>2. Head(fifo) = fifo[1] /\ 1 \in 1 .. Len(fifo)
    BY <1>2, <2>1
  <2>3. \A i \in 1 .. Len(fifo') : i + 1 \in 1 .. Len(fifo) /\ fifo'[i] = fifo[i + 1]
    BY <1>2, <2>1, HeadTailProperties
  <2> QED BY <1>1, <1>2, <2>1, <2>2, <2>3 DEF StaleInv, FromBefore, Announced, Certain
<1>8. CASE Label
  <2>1. /\ wpc = "got" /\ wpc' = "pre" /\ label' = EraOf(counter, era)
        /\ UNCHANGED <<fifo, session, era, staleEra, counter, ts, tsCh, resumed>>
    BY <1>8 DEF Label, phcVars, dispVars
  <2>2. ~Uncertain(label') => label' = era
    BY <1>1, <1>2, <2>1, EraOfFacts DEF CounterInv
  <2> QED BY <1>1, <1>2, <2>1, <2>2 DEF StaleInv, FromBefore, Announced, Certain
<1>9. CASE SendEvent
  <2>1. /\ wpc = "send" /\ wpc' = "top" /\ tsCh = NoEvent
        /\ tsCh' = [kind |-> "timestamp", ts |-> ts, era |-> label, sample |-> sample]
        /\ ts' = ZeroTs /\ label' = 0
        /\ UNCHANGED <<fifo, session, era, staleEra, counter, resumed>>
    BY <1>9 DEF SendEvent, phcVars, dispVars
  <2>2. ~Announced /\ ~Announced' /\ session = resumed
    BY <1>1, <2>1 DEF Announced, NoEvent
  <2>3. ZeroTs.session = 0 /\ tsCh'.ts = ts /\ tsCh'.era = label BY <2>1 DEF ZeroTs
  <2>4. (Certain(tsCh') /\ tsCh'.ts.session # resumed) => tsCh'.era <= staleEra
    BY <1>1, <1>2, <2>1, <2>2, <2>3 DEF StaleInv, FromBefore, Certain
  <2> QED BY <1>1, <1>2, <2>1, <2>2, <2>3, <2>4 DEF StaleInv, FromBefore
<1>10. CASE CloseTsCh \/ SendPause
  <2>1. /\ wpc' \in {wpc, "noCarrier"} /\ tsCh = NoEvent /\ tsCh' \in {ClosedMark, PauseEvent}
        /\ UNCHANGED <<fifo, session, era, staleEra, counter, ts, label, resumed>>
    BY <1>10 DEF CloseTsCh, SendPause, phcVars, workerVars, dispVars
  <2>2. ~Announced /\ ~Announced' /\ ~Certain(tsCh')
    BY <2>1 DEF Announced, Certain, NoEvent, ClosedMark, PauseEvent
  <2> QED BY <1>1, <1>2, <2>1, <2>2 DEF StaleInv, FromBefore
<1>11. CASE SendResume
  <2>1. /\ wpc' = "top" /\ tsCh' = ResumeEvent /\ session' = session + 1
        /\ UNCHANGED <<fifo, era, staleEra, counter, ts, label, resumed>>
    BY <1>11 DEF SendResume, dispVars
  <2>2. Announced' /\ ~Certain(tsCh')
    BY <2>1 DEF Announced, Certain, ResumeEvent
  <2> QED BY <1>1, <1>2, <2>1, <2>2 DEF StaleInv, FromBefore
<1>12. CASE HandlePause \/ HandleTimestamp \/ HandleClosed
  <2>1. /\ tsCh' = NoEvent /\ \/ tsCh = PauseEvent \/ tsCh = ClosedMark \/ tsCh.kind = "timestamp"
        /\ UNCHANGED <<fifo, wpc, session, era, staleEra, counter, ts, label, resumed>>
    BY <1>12 DEF HandlePause, HandleTimestamp, HandleClosed, phcVars, workerVars, dispVars
  <2>2. ~Announced /\ ~Announced' /\ ~Certain(tsCh')
    BY <2>1 DEF Announced, Certain, NoEvent, ClosedMark, PauseEvent
  <2> QED BY <1>1, <1>2, <2>1, <2>2 DEF StaleInv, FromBefore
<1>13. CASE ResumeLoad
  <2>1. /\ tsCh' = NoEvent /\ staleEra' = counter
        /\ UNCHANGED <<fifo, wpc, session, era, counter, ts, label>>
    BY <1>13 DEF ResumeLoad, phcVars, workerVars
  <2>2. ~Certain(tsCh')
    BY <2>1 DEF Certain, NoEvent
  <2>3. era <= staleEra' /\ label <= staleEra'
    BY <1>1, <2>1 DEF CounterInv
  <2> QED BY <1>1, <1>2, <2>1, <2>2, <2>3 DEF StaleInv, FromBefore
<1> QED BY <1>3, <1>4, <1>5, <1>6, <1>7, <1>8, <1>9, <1>10, <1>11, <1>12, <1>13
        DEF Next, Environment, ReadWorker, Dispatcher, Handle, Finished

\* The state stays in its type, and what is known of stale timestamps holds.
THEOREM TypedInvariance == Spec => []TInv
<1>1. Init => TInv
  BY InitIInv, InitBounds, InitStale DEF TInv
<1>2. TInv /\ [Next]_vars => TInv'
  <2> SUFFICES ASSUME TInv, [Next]_vars PROVE TInv'
    OBVIOUS
  <2>1. IInv' BY StepIInv DEF TInv
  <2>2. Bounds' BY StepBounds DEF TInv
  <2>3. TypeOK' BY <2>1, <2>2, StepTypeOK DEF TInv
  <2>4. StaleInv' BY <2>1, StepStale
  <2> QED BY <2>1, <2>2, <2>3, <2>4 DEF TInv
<1> QED BY <1>1, <1>2, PTL DEF Spec

\* Every variable keeps its type: the era counter moves on only with a resume or a
\* step of the clock, and nothing but timestamps, pauses and resumes is sent.
THEOREM TypeCorrect == Spec => []TypeOK
<1>1. TInv => TypeOK
  BY DEF TInv
<1> QED BY <1>1, TypedInvariance, PTL

\* A timestamp from before a loss of carrier is not given to the controller as one of
\* a certain era, unless the clock has been stepped since it was read.
THEOREM StaleIsUnseen == Spec => StaleUnseen
<1>1. TInv /\ [Next]_vars =>
        [(given' # given /\ Certain(given'))
           => given'.ts.session = resumed \/ given'.era < staleEra]_vars
  <2> SUFFICES ASSUME TInv, [Next]_vars, given' # given, Certain(given')
               PROVE  given'.ts.session = resumed \/ given'.era < staleEra
    OBVIOUS
  <2>1. HandleTimestamp
    BY NextEffects DEF SendEvent, dispVars
  <2>2. given' = tsCh /\ tsCh.era # staleEra
    BY <2>1 DEF HandleTimestamp, IsStale
  <2>3. tsCh.kind = "timestamp" /\ tsCh \in TimestampEvent
    BY <2>1 DEF HandleTimestamp, TInv, TypeOK, NoEvent, PauseEvent, ResumeEvent, ClosedMark
  <2>4. tsCh.era \in Nat /\ staleEra \in Nat
    BY <2>3 DEF TInv, TypeOK, TimestampEvent, Eras
  <2>5. tsCh.ts.session # resumed => tsCh.era <= staleEra
    BY <2>2 DEF TInv, StaleInv
  <2> QED BY <2>2, <2>4, <2>5
<1> QED BY <1>1, TypedInvariance, PTL DEF Spec, StaleUnseen

-----------------------------------------------------------------------------
(* Time messages: division. *)

LEMMA Product ==
  ASSUME NEW a \in Int, NEW b \in Int, NEW c \in Nat
  PROVE  a <= b => a * c <= b * c
  OBVIOUS

LEMMA ProductStrict ==
  ASSUME NEW a \in Int, NEW b \in Int, NEW c \in Nat
  PROVE  a < b => a * c + c <= b * c
  OBVIOUS

LEMMA Division ==
  ASSUME NEW a \in Int, NEW b \in Nat \ {0}
  PROVE  a \div b \in Int /\ a % b \in 0 .. b - 1 /\ a = (a \div b) * b + (a % b)
  OBVIOUS

LEMMA DivisionNat ==
  ASSUME NEW a \in Nat, NEW b \in Nat \ {0}
  PROVE  a \div b \in Nat
  OBVIOUS

LEMMA Quotient ==
  ASSUME NEW q \in Int, NEW r \in Int, NEW b \in Nat \ {0}, 0 <= r, r < b
  PROVE  (q * b + r) \div b = q /\ (q * b + r) % b = r
  OBVIOUS

-----------------------------------------------------------------------------
(* Messages and their numbers. *)

Cycle(t) == t \div Epoch
Num(e)   == Cycle(e.tRead) * Len(Types) + e.k
Late(e)  == e.tRead - Cycle(e.tRead) * Epoch - Type(e).at
Due(e)   == Nominal(e.k, e.tRead)
Ahead(k) == IF Types[k].ref = "pre" THEN 1 ELSE 0

\* What is assumed of the receivers, for this one.
LEMMA Receiver ==
  ASSUME receiver \in Receivers
  PROVE  /\ Second \in Nat \ {0} /\ Epoch \in Nat \ {0} /\ Len(Types) \in Nat \ {0}
         /\ receiver.rate \in Nat \ {0} /\ receiver.rate * Epoch = Second /\ Epoch <= Second
         /\ \A k \in 1 .. Len(Types) :
              /\ Types[k] \in MsgType /\ Types[k].at \in Nat /\ Types[k].at + 1 < Epoch
              /\ Types[k].ref = "nav" => Types[k].corr = "no"
              /\ Types[k].ref # "nav" => Epoch = Second
              /\ \A j \in 1 .. Len(Types) :
                   /\ k < j => Types[k].at < Types[j].at
                   /\ k # j /\ Types[k].ref # "nav" => Types[j].ref # Types[k].ref
  <1>1. Second \in Nat \ {0} BY BufferAssumption
  <1> DEFINE r == receiver.rate
  <1>2. r \in 1 .. Second /\ Second % r = 0 BY ReceiversAssumption
  <1>3. Types \in Seq(MsgType) /\ Types # <<>> BY ReceiversAssumption DEF Types
  <1>4. Len(Types) \in Nat \ {0} BY <1>3
  <1>5. r \in Nat \ {0} BY <1>1, <1>2
  <1> HIDE DEF r
  <1>6. r * Epoch = Second /\ Epoch \in Nat \ {0} /\ Epoch <= Second
    <2>1. Epoch = Second \div r BY DEF Epoch, r
    <2>2. Epoch \in Nat /\ Second = Epoch * r BY <1>1, <1>2, <1>5, <2>1, Division, DivisionNat
    <2>3. Epoch # 0 BY <1>1, <1>5, <2>2
    <2>4. 1 <= r BY <1>5
    <2>5. Epoch <= Epoch * r BY <1>5, <2>2, <2>4, Product
    <2>6. Epoch * r = r * Epoch BY <1>5, <2>2
    <2> QED BY <2>2, <2>3, <2>5, <2>6
  <1>7. ASSUME NEW k \in 1 .. Len(Types)
        PROVE  /\ Types[k] \in MsgType /\ Types[k].at \in Nat /\ Types[k].at + 1 < Epoch
               /\ Types[k].ref = "nav" => Types[k].corr = "no"
               /\ Types[k].ref # "nav" => r = 1
               /\ \A j \in k + 1 .. Len(Types) :
                    /\ Types[k].at < Types[j].at
                    /\ Types[k].ref # "nav" => Types[j].ref # Types[k].ref
    <2>1. Types[k] \in MsgType BY <1>3
    <2>2. Types[k].at \in Nat BY <2>1 DEF MsgType
    <2> QED BY <2>1, <2>2, ReceiversAssumption DEF Types, Epoch, r
  <1>8. \A k \in 1 .. Len(Types) : Types[k].ref # "nav" => Epoch = Second BY <1>6, <1>7
  <1>9. \A k, j \in 1 .. Len(Types) :
          /\ k < j => Types[k].at < Types[j].at
          /\ k # j /\ Types[k].ref # "nav" => Types[j].ref # Types[k].ref
    <2> TAKE k, j \in 1 .. Len(Types)
    <2>1. k < j => j \in k + 1 .. Len(Types) BY <1>4
    <2>2. j < k => k \in j + 1 .. Len(Types) BY <1>4
    <2>3. k # j => k < j \/ j < k BY <1>4
    <2> QED BY <1>7, <2>1, <2>2, <2>3
  <1> QED BY <1>1, <1>4, <1>5, <1>6, <1>7, <1>8, <1>9 DEF r

\* The epoch in which a time is, and its end.
LEMMA InCycle ==
  ASSUME receiver \in Receivers, NEW t \in Nat
  PROVE  /\ Cycle(t) \in Nat
         /\ Cycle(t) * Epoch \in Nat /\ Cycle(t) * Epoch <= t /\ t < Cycle(t) * Epoch + Epoch
         /\ StartOf(Epoch, t) = Cycle(t) * Epoch
  <1>1. Epoch \in Nat \ {0} BY Receiver
  <1>2. /\ Cycle(t) \in Nat /\ t % Epoch \in 0 .. Epoch - 1 /\ t = Cycle(t) * Epoch + (t % Epoch)
    <2>1. t \in Int OBVIOUS
    <2> QED BY <1>1, <2>1, Division, DivisionNat DEF Cycle
  <1>3. StartOf(Epoch, t) = Epoch * Cycle(t) BY DEF StartOf, Cycle
  <1>4. StartOf(Epoch, t) = Cycle(t) * Epoch /\ Cycle(t) * Epoch \in Nat BY <1>1, <1>2, <1>3
  <1> QED BY <1>1, <1>2, <1>4

\* The epoch of a time that is given by its epoch.
LEMMA CycleOf ==
  ASSUME receiver \in Receivers, NEW c \in Nat, NEW d \in Nat, d < Epoch
  PROVE  Cycle(c * Epoch + d) = c
  <1>1. Epoch \in Nat \ {0} BY Receiver
  <1> QED BY <1>1, Quotient DEF Cycle

\* A message about a pulse is sent once a second, so that its epoch is a second.
LEMMA NominalIs ==
  ASSUME receiver \in Receivers, NEW k \in 1 .. Len(Types), NEW t \in Nat
  PROVE  Nominal(k, t) = (Cycle(t) + Ahead(k)) * Epoch /\ Nominal(k, t) \in Nat
  <1>1. Epoch \in Nat \ {0} /\ (Types[k].ref # "nav" => Epoch = Second) BY Receiver
  <1>2. Cycle(t) \in Nat /\ StartOf(Epoch, t) = Cycle(t) * Epoch /\ Cycle(t) * Epoch \in Nat BY InCycle
  <1>3. CASE Types[k].ref = "pre"
    <2>1. Nominal(k, t) = Cycle(t) * Epoch + Epoch BY <1>1, <1>2, <1>3 DEF Nominal
    <2>2. Ahead(k) = 1 BY <1>3 DEF Ahead
    <2>3. (Cycle(t) + 1) * Epoch = Cycle(t) * Epoch + Epoch BY <1>1, <1>2
    <2> QED BY <1>1, <1>2, <2>1, <2>2, <2>3
  <1>4. CASE Types[k].ref # "pre"
    <2>1. Nominal(k, t) = Cycle(t) * Epoch BY <1>2, <1>4 DEF Nominal
    <2>2. Ahead(k) = 0 BY <1>4 DEF Ahead
    <2> QED BY <1>2, <2>1, <2>2
  <1> QED BY <1>3, <1>4

\* The number of a message gives its epoch and its type.
LEMMA Sending ==
  ASSUME receiver \in Receivers, NEW n \in Nat \ {0}
  PROVE  /\ Kind(n) \in 1 .. Len(Types)
         /\ ReadAt(n) \in Nat
         /\ Cycle(ReadAt(n)) \in Nat /\ n = Cycle(ReadAt(n)) * Len(Types) + Kind(n)
         /\ ReadAt(n) = Cycle(ReadAt(n)) * Epoch + Types[Kind(n)].at
  <1> DEFINE c == (n - 1) \div Len(Types)
  <1>1. Epoch \in Nat \ {0} /\ Len(Types) \in Nat \ {0} BY Receiver
  <1>2. /\ c \in Nat /\ (n - 1) % Len(Types) \in 0 .. Len(Types) - 1
        /\ n - 1 = c * Len(Types) + ((n - 1) % Len(Types))
    <2>1. n - 1 \in Nat /\ n - 1 \in Int OBVIOUS
    <2> QED BY <1>1, <2>1, Division, DivisionNat
  <1>3. Kind(n) = 1 + ((n - 1) % Len(Types)) BY DEF Kind
  <1>4. Kind(n) \in 1 .. Len(Types) BY <1>1, <1>2, <1>3
  <1>5. ReadAt(n) = c * Epoch + Types[Kind(n)].at BY DEF ReadAt
  <1>6. Types[Kind(n)].at \in Nat /\ Types[Kind(n)].at < Epoch BY <1>1, <1>4, Receiver
  <1> HIDE DEF c
  <1>7. Cycle(ReadAt(n)) = c BY <1>2, <1>5, <1>6, CycleOf
  <1>8. n = c * Len(Types) + Kind(n)
    <2>1. c * Len(Types) \in Nat BY <1>1, <1>2
    <2> QED BY <1>2, <1>3, <2>1
  <1>9. ReadAt(n) \in Nat
    <2>1. c * Epoch \in Nat BY <1>1, <1>2
    <2> QED BY <1>5, <1>6, <2>1
  <1> QED BY <1>2, <1>4, <1>5, <1>7, <1>8, <1>9

-----------------------------------------------------------------------------
(* The first and the last index of a set. *)

LEMMA EarliestIs ==
  ASSUME NEW S, S \subseteq Nat, S # {}
  PROVE  Earliest(S) \in S /\ \A j \in S : Earliest(S) <= j
  <1> DEFINE Less == OpToRel(<, Nat)
  <1>1. IsWellFoundedOn(Less, Nat) BY NatLessThanWellFounded
  <1> HIDE DEF Less
  <1>2. \E x \in S : \A y \in S : ~(<<y, x>> \in Less) BY ONLY <1>1, S \subseteq Nat, S # {}, WFMin
  <1>3. PICK x \in S : \A y \in S : ~(<<y, x>> \in Less) BY <1>2
  <1>4. ASSUME NEW y \in S PROVE x <= y
    <2>1. x \in Nat /\ y \in Nat BY <1>3, <1>4
    <2>2. ~(y < x) BY <1>3, <1>4, <2>1 DEF Less, OpToRel
    <2> QED BY <2>1, <2>2
  <1>5. \E i \in S : \A j \in S : i <= j BY <1>3, <1>4
  <1> QED BY <1>5, Zenon DEF Earliest

LEMMA LastIs ==
  ASSUME NEW n \in Nat, NEW S, S \subseteq 0 .. n, S # {}
  PROVE  Last(S) \in S /\ \A j \in S : j <= Last(S)
  <1> DEFINE T == {n - j : j \in S}
  <1>1. T \subseteq Nat /\ T # {} OBVIOUS
  <1>2. Earliest(T) \in T /\ \A j \in T : Earliest(T) <= j
    <2> HIDE DEF T
    <2> QED BY <1>1, EarliestIs
  <1>3. PICK i \in S : Earliest(T) = n - i BY <1>2
  <1>4. ASSUME NEW j \in S PROVE j <= i
    <2>1. n - i <= n - j BY <1>2, <1>3, <1>4
    <2> QED BY <1>3, <1>4, <2>1
  <1>5. \E l \in S : \A j \in S : j <= l BY <1>3, <1>4
  <1> QED BY <1>5, Zenon DEF Last

-----------------------------------------------------------------------------
(* Messages as the receiver makes them. *)

\* A message that was sent, whether or not it is a repetition.
Made(e) ==
  /\ e \in Entry
  /\ Late(e) \in {0, 1}
  /\ e.tai \in {NoTime, Due(e)}
  /\ e.utc \in {NoTime, Due(e), Due(e) + Second}
  /\ Valid(e) => /\ e.tai = NoTime <=> Type(e).scale = "utc"
                 /\ e.utc = NoTime <=> Type(e).scale = "tai"
  /\ e.offset # "none" => Valid(e) /\ Type(e).corr = "yes"

\* Numbers order messages by their epoch first.
LEMMA Positions ==
  ASSUME NEW l \in Nat, NEW a \in Nat, NEW b \in Nat, NEW k \in 1 .. l, NEW m \in 1 .. l,
         a * l + k <= b * l + m
  PROVE  a <= b /\ (a = b => k <= m)
  <1>1. a * l \in Nat /\ b * l \in Nat OBVIOUS
  <1>2. ASSUME b < a PROVE FALSE
    <2>1. b * l + l <= a * l BY <1>2, ProductStrict
    <2> QED BY <1>1, <2>1
  <1>3. a <= b BY <1>2
  <1>4. a = b => k <= m BY <1>1
  <1> QED BY <1>3, <1>4

LEMMA MadeTimes ==
  ASSUME receiver \in Receivers, NEW e, Made(e)
  PROVE  /\ e.k \in 1 .. Len(Types) /\ e.tRead \in Nat /\ Type(e) = Types[e.k]
         /\ Cycle(e.tRead) \in Nat /\ Num(e) \in Nat /\ 0 < Num(e)
         /\ Num(e) = Cycle(e.tRead) * Len(Types) + e.k
         /\ Cycle(e.tRead) * Epoch \in Nat
         /\ e.tRead = Cycle(e.tRead) * Epoch + Type(e).at + Late(e)
         /\ Cycle(e.tRead) * Epoch <= e.tRead /\ e.tRead < Cycle(e.tRead) * Epoch + Epoch
         /\ Due(e) = (Cycle(e.tRead) + Ahead(e.k)) * Epoch /\ Due(e) \in Nat
  <1>1. e.k \in 1 .. Len(Types) /\ e.tRead \in Nat BY DEF Made, Entry
  <1>2. /\ Cycle(e.tRead) \in Nat /\ Cycle(e.tRead) * Epoch \in Nat
        /\ Cycle(e.tRead) * Epoch <= e.tRead /\ e.tRead < Cycle(e.tRead) * Epoch + Epoch
    BY <1>1, InCycle
  <1>3. Len(Types) \in Nat \ {0} BY Receiver
  <1>4. Num(e) \in Nat /\ 0 < Num(e)
    <2>1. Cycle(e.tRead) * Len(Types) \in Nat BY <1>2, <1>3
    <2> QED BY <1>1, <1>3, <2>1 DEF Num
  <1>5. Types[e.k].at \in Nat BY <1>1, Receiver
  <1>6. e.tRead = Cycle(e.tRead) * Epoch + Type(e).at + Late(e)
    BY <1>1, <1>2, <1>5 DEF Late, Type
  <1>7. Due(e) = (Cycle(e.tRead) + Ahead(e.k)) * Epoch /\ Due(e) \in Nat
    BY <1>1, NominalIs DEF Due
  <1>8. Type(e) = Types[e.k] BY DEF Type
  <1>9. Num(e) = Cycle(e.tRead) * Len(Types) + e.k BY DEF Num
  <1> QED BY <1>1, <1>2, <1>4, <1>6, <1>7, <1>8, <1>9

\* The UTC time of a message shows the error of the receiver.
LEMMA MadeUTC ==
  ASSUME receiver \in Receivers, NEW e, Made(e)
  PROVE  /\ ErrorOf(e) \in {0, 1}
         /\ e.utc # NoTime => e.utc = Due(e) + ErrorOf(e) * Second
  <1>1. Due(e) \in Nat BY MadeTimes
  <1>2. Second \in Nat \ {0} BY Receiver
  <1>3. CASE e.utc = NoTime BY <1>3 DEF ErrorOf
  <1>4. CASE e.utc # NoTime
    <2>1. ErrorOf(e) = (e.utc - Due(e)) \div Second BY <1>4 DEF ErrorOf, Due
    <2>2. CASE e.utc = Due(e)
      <3>1. e.utc - Due(e) = 0 * Second + 0 BY <1>1, <1>2, <2>2
      <3>2. (0 * Second + 0) \div Second = 0 BY <1>2, Quotient
      <3>3. ErrorOf(e) = 0 BY ONLY <2>1, <3>1, <3>2, Zenon
      <3> QED BY <1>1, <1>2, <2>2, <3>3
    <2>3. CASE e.utc = Due(e) + Second
      <3>1. e.utc - Due(e) = 1 * Second + 0 BY <1>1, <1>2, <2>3
      <3>2. (1 * Second + 0) \div Second = 1 BY <1>2, Quotient
      <3>3. ErrorOf(e) = 1 BY ONLY <2>1, <3>1, <3>2, Zenon
      <3> QED BY <1>1, <1>2, <2>3, <3>3
    <2> QED BY <1>4, <2>2, <2>3 DEF Made
  <1> QED BY <1>3, <1>4

-----------------------------------------------------------------------------
(* The order of what was received. *)

\* b is a read again.
Again(a, b) == Late(a) = 0 /\ b = [a EXCEPT !.tRead = @ + 1]

After(a, b) ==
  /\ Num(a) <= Num(b)
  /\ Num(a) = Num(b) => Again(a, b)
  /\ a.utc # NoTime /\ b.utc # NoTime => ErrorOf(b) <= ErrorOf(a)

LEMMA InOrder ==
  ASSUME receiver \in Receivers, NEW a, NEW b, Made(a), Made(b), After(a, b)
  PROVE  /\ Cycle(a.tRead) <= Cycle(b.tRead)
         /\ Cycle(a.tRead) = Cycle(b.tRead) => a.k <= b.k
         /\ a.tRead <= b.tRead
         /\ a.k = b.k /\ Cycle(a.tRead) = Cycle(b.tRead) => Num(a) = Num(b) /\ Again(a, b)
  <1> DEFINE ca == Cycle(a.tRead)
             cb == Cycle(b.tRead)
  <1>1. /\ a.k \in 1 .. Len(Types) /\ a.tRead \in Nat /\ ca \in Nat
        /\ ca * Epoch \in Nat /\ a.tRead = ca * Epoch + Type(a).at + Late(a)
        /\ a.tRead < ca * Epoch + Epoch /\ Num(a) = ca * Len(Types) + a.k /\ Type(a) = Types[a.k]
    BY MadeTimes
  <1>2. /\ b.k \in 1 .. Len(Types) /\ b.tRead \in Nat /\ cb \in Nat
        /\ cb * Epoch \in Nat /\ b.tRead = cb * Epoch + Type(b).at + Late(b)
        /\ cb * Epoch <= b.tRead /\ Num(b) = cb * Len(Types) + b.k /\ Type(b) = Types[b.k]
    BY MadeTimes
  <1>3. Late(a) \in {0, 1} /\ Late(b) \in {0, 1} BY DEF Made
  <1>4. Len(Types) \in Nat /\ Epoch \in Nat BY Receiver
  <1>5. ca * Len(Types) + a.k <= cb * Len(Types) + b.k BY <1>1, <1>2 DEF After
  <1> HIDE DEF ca, cb
  <1>6. ca <= cb /\ (ca = cb => a.k <= b.k) BY <1>1, <1>2, <1>4, <1>5, Positions
  <1>7. a.k = b.k /\ ca = cb => Num(a) = Num(b) /\ Again(a, b) BY <1>1, <1>2 DEF After
  <1>8. a.tRead <= b.tRead
    <2>1. CASE ca < cb
      <3>1. ca * Epoch + Epoch <= cb * Epoch BY <1>1, <1>2, <1>4, <2>1, ProductStrict
      <3>2. ca * Epoch \in Nat /\ a.tRead \in Nat /\ a.tRead < ca * Epoch + Epoch BY <1>1
      <3>3. cb * Epoch \in Nat /\ b.tRead \in Nat /\ cb * Epoch <= b.tRead BY <1>2
      <3>4. Epoch \in Nat BY <1>4
      <3> QED BY ONLY <3>1, <3>2, <3>3, <3>4
    <2>2. CASE ca = cb /\ a.k < b.k
      <3>1. Types[a.k].at < Types[b.k].at BY <1>1, <1>2, <2>2, Receiver
      <3>2. Types[a.k].at \in Nat /\ Types[b.k].at \in Nat BY <1>1, <1>2, Receiver
      <3>3. a.tRead = ca * Epoch + Types[a.k].at + Late(a) BY <1>1
      <3>4. b.tRead = ca * Epoch + Types[b.k].at + Late(b) BY <1>2, <2>2
      <3>5. ca * Epoch \in Nat BY <1>1
      <3> QED BY ONLY <1>3, <3>1, <3>2, <3>3, <3>4, <3>5
    <2>3. CASE ca = cb /\ a.k = b.k
      <3>1. b = [a EXCEPT !.tRead = @ + 1] BY <1>7, <2>3 DEF Again
      <3>2. b.tRead = a.tRead + 1 BY <3>1 DEF Made, Entry
      <3> QED BY <1>1, <1>2, <3>2
    <2> QED BY <1>1, <1>2, <1>6, <2>1, <2>2, <2>3
  <1> QED BY <1>6, <1>7, <1>8 DEF ca, cb

\* A message that is read again is the same but for the time of reading.
LEMMA SameAgain ==
  ASSUME receiver \in Receivers, NEW a, NEW b, Made(a), Again(a, b)
  PROVE  /\ Made(b) /\ Num(b) = Num(a) /\ Late(b) = 1
         /\ b.k = a.k /\ b.tai = a.tai /\ b.utc = a.utc /\ b.dev = a.dev /\ b.offset = a.offset
         /\ b.tRead = a.tRead + 1 /\ Cycle(b.tRead) = Cycle(a.tRead)
         /\ Type(b) = Type(a) /\ Due(b) = Due(a) /\ ErrorOf(b) = ErrorOf(a)
  <1> DEFINE c == Cycle(a.tRead)
  <1>1. /\ a.k \in 1 .. Len(Types) /\ a.tRead \in Nat /\ c \in Nat
        /\ c * Epoch \in Nat /\ a.tRead = c * Epoch + Type(a).at + Late(a)
        /\ Due(a) = (c + Ahead(a.k)) * Epoch /\ Type(a) = Types[a.k]
    BY MadeTimes
  <1>2. a \in Entry /\ Late(a) = 0 /\ b = [a EXCEPT !.tRead = @ + 1] BY DEF Made, Again
  <1>3. /\ b \in Entry /\ b.k = a.k /\ b.tai = a.tai /\ b.utc = a.utc /\ b.dev = a.dev
        /\ b.offset = a.offset /\ b.tRead = a.tRead + 1
    BY <1>2 DEF Entry
  <1>4. Type(b) = Type(a) BY <1>3 DEF Type
  <1>5. Types[a.k].at \in Nat /\ Types[a.k].at + 1 < Epoch BY <1>1, Receiver
  <1> HIDE DEF c
  <1>6. b.tRead = c * Epoch + (Types[a.k].at + 1)
    BY ONLY <1>1, <1>2, <1>3, <1>5
  <1>7. Cycle(b.tRead) = c
    <2>1. Types[a.k].at + 1 \in Nat BY <1>5
    <2>2. Cycle(c * Epoch + (Types[a.k].at + 1)) = c BY <1>1, <1>5, <2>1, CycleOf
    <2> QED BY <1>6, <2>2
  <1>8. Num(b) = Num(a) BY <1>3, <1>7 DEF Num, c
  <1>9. Late(b) = 1
    <2>1. Late(b) = b.tRead - c * Epoch - Types[a.k].at
      BY ONLY <1>1, <1>4, <1>7 DEF Late
    <2>2. c * Epoch \in Nat BY <1>1
    <2> QED BY ONLY <1>5, <1>6, <2>1, <2>2
  <1>10. Due(b) = Due(a)
    <2>1. b.k \in 1 .. Len(Types) /\ b.tRead \in Nat BY <1>1, <1>3
    <2>2. Due(b) = (Cycle(b.tRead) + Ahead(b.k)) * Epoch BY <2>1, NominalIs DEF Due
    <2> QED BY <1>1, <1>3, <1>7, <2>2
  <1>11. ErrorOf(b) = ErrorOf(a) BY <1>3, <1>10 DEF ErrorOf, Due
  <1>12. Valid(b) <=> Valid(a) BY <1>3 DEF Valid
  <1>13. Made(b) BY <1>3, <1>4, <1>9, <1>10, <1>12 DEF Made
  <1> QED BY <1>3, <1>4, <1>7, <1>8, <1>9, <1>10, <1>11, <1>13 DEF c

\* The times that are sent deviate by integers.
LEMMA Deviations ==
  ASSUME receiver \in Receivers, NEW n \in Nat \ {0}, NEW d \in Types[Kind(n)].dev
  PROVE  d \in Int
  <1>1. Kind(n) \in 1 .. Len(Types) BY Sending
  <1>2. Types[Kind(n)] \in MsgType BY <1>1, Receiver
  <1> QED BY <1>2 DEF MsgType

\* A message that the receiver sends.
LEMMA MessageMade ==
  ASSUME receiver \in Receivers, utcError \in {0, 1}, NEW n \in Nat \ {0},
         NEW valid \in BOOLEAN, NEW offset \in {"none", "ok", "big"},
         offset # "none" => valid /\ Offset(n) # "none", NEW d \in Int
  PROVE  LET e == Message(n, ReadAt(n), valid, offset, d)
         IN  /\ Made(e) /\ Num(e) = n /\ Late(e) = 0
             /\ e.utc # NoTime => ErrorOf(e) = utcError
  <1> DEFINE e == Message(n, ReadAt(n), valid, offset, d)
             k == Kind(n)
             s == Nominal(k, ReadAt(n))
  <1>1. /\ k \in 1 .. Len(Types) /\ ReadAt(n) \in Nat /\ Cycle(ReadAt(n)) \in Nat
        /\ n = Cycle(ReadAt(n)) * Len(Types) + k
        /\ ReadAt(n) = Cycle(ReadAt(n)) * Epoch + Types[k].at
    BY Sending
  <1>2. s \in Nat BY <1>1, NominalIs
  <1>3. Second \in Nat \ {0} /\ NoTime = -Second BY Receiver DEF NoTime
  <1>4. /\ e.k = k /\ e.tRead = ReadAt(n) /\ e.offset = offset /\ e.dev = d
        /\ e.tai = IF valid /\ Types[k].scale # "utc" THEN s ELSE NoTime
        /\ e.utc = IF valid /\ Types[k].scale # "tai" THEN s + utcError * Second ELSE NoTime
    BY DEF Message
  <1>5. e \in Entry
    <2>1. utcError * Second \in Nat BY <1>3
    <2>2. e.tai \in Nat \cup {NoTime} /\ e.utc \in Nat \cup {NoTime} BY <1>2, <1>4, <2>1
    <2>3. e = [k |-> e.k, tRead |-> e.tRead, offset |-> e.offset, dev |-> e.dev,
               tai |-> e.tai, utc |-> e.utc]
      BY DEF Message
    <2> HIDE DEF e
    <2> QED BY <1>1, <1>4, <2>2, <2>3 DEF Entry
  <1> HIDE DEF e, s
  <1>6. Due(e) = s /\ Type(e) = Types[k] BY <1>4 DEF Due, Type, s
  <1> HIDE DEF k
  <1>7. Num(e) = n BY <1>1, <1>4 DEF Num
  <1>8. Late(e) = 0
    <2>1. Types[k].at \in Nat /\ Epoch \in Nat BY <1>1, Receiver
    <2>2. Cycle(ReadAt(n)) * Epoch \in Nat BY <1>1, <2>1
    <2>3. Late(e) = ReadAt(n) - Cycle(ReadAt(n)) * Epoch - Types[k].at BY <1>4, <1>6 DEF Late
    <2> DEFINE x == Cycle(ReadAt(n)) * Epoch
    <2>4. x \in Nat /\ Types[k].at \in Nat /\ ReadAt(n) = x + Types[k].at
          /\ Late(e) = ReadAt(n) - x - Types[k].at
      BY <1>1, <2>1, <2>2, <2>3
    <2> HIDE DEF x
    <2> QED BY ONLY <2>4
  <1>9. e.tai \in {NoTime, s} BY <1>4
  <1>10. e.utc \in {NoTime, s, s + Second}
    <2>1. 0 * Second = 0 /\ 1 * Second = Second BY <1>3
    <2>2. utcError * Second \in {0, Second} BY <2>1
    <2>3. s + 0 = s BY <1>2
    <2> QED BY <1>4, <2>2, <2>3
  <1>11. s # NoTime /\ s + utcError * Second # NoTime
    <2>1. utcError * Second \in Nat BY <1>3
    <2> QED BY <1>2, <1>3, <2>1
  <1>12. Types[k].scale \in {"tai", "utc", "both"}
    <2>1. Types[k] \in MsgType BY <1>1, Receiver
    <2> QED BY <2>1 DEF MsgType
  <1>13. Valid(e) <=> valid BY <1>4, <1>11, <1>12 DEF Valid
  <1>14. Valid(e) => /\ e.tai = NoTime <=> Type(e).scale = "utc"
                     /\ e.utc = NoTime <=> Type(e).scale = "tai"
    BY <1>4, <1>6, <1>11, <1>13
  <1>15. e.offset # "none" => Valid(e) /\ Type(e).corr = "yes"
    BY <1>4, <1>6, <1>13 DEF Offset, k
  <1>16. Made(e) BY <1>5, <1>6, <1>8, <1>9, <1>10, <1>14, <1>15 DEF Made
  <1>17. ASSUME e.utc # NoTime PROVE ErrorOf(e) = utcError
    <2>1. ErrorOf(e) \in {0, 1} /\ e.utc = s + ErrorOf(e) * Second BY <1>6, <1>16, <1>17, MadeUTC
    <2>2. e.utc = s + utcError * Second BY <1>4, <1>17
    <2> QED BY <1>2, <1>3, <2>1, <2>2
  <1> QED BY <1>7, <1>8, <1>16, <1>17 DEF e

\* What is received of n messages with f faults, while the error of the receiver is at
\* least u: in the order of the numbers, at most a fault for each message too many.
History(R, n, u, f) ==
  /\ R \in Seq(Entry)
  /\ \A i \in 1 .. Len(R) : /\ Made(R[i]) /\ Num(R[i]) <= n
                            /\ R[i].utc # NoTime => u <= ErrorOf(R[i])
  /\ \A i, j \in 1 .. Len(R) :
       i < j => After(R[i], R[j]) /\ j - i <= Num(R[j]) - Num(R[i]) + f

LEMMA HistoryLater ==
  ASSUME receiver \in Receivers, NEW R, NEW n \in Nat, NEW u \in {0, 1}, NEW f \in Nat, History(R, n, u, f),
         NEW m \in Nat, NEW v \in {0, 1}, NEW g \in Nat, n <= m, v <= u, f <= g
  PROVE  History(R, m, v, g)
  <1>1. R \in Seq(Entry) BY DEF History
  <1>2. \A i \in 1 .. Len(R) : /\ Made(R[i]) /\ Num(R[i]) <= n
                               /\ R[i].utc # NoTime => u <= ErrorOf(R[i])
    BY DEF History
  <1>3. \A i \in 1 .. Len(R) : Num(R[i]) \in Nat /\ ErrorOf(R[i]) \in {0, 1}
    BY <1>2, MadeTimes, MadeUTC
  <1>4. \A i \in 1 .. Len(R) : /\ Made(R[i]) /\ Num(R[i]) <= m
                               /\ R[i].utc # NoTime => v <= ErrorOf(R[i])
    BY <1>2, <1>3
  <1>5. \A i, j \in 1 .. Len(R) :
          i < j => After(R[i], R[j]) /\ j - i <= Num(R[j]) - Num(R[i]) + f
    BY DEF History
  <1>6. \A i, j \in 1 .. Len(R) :
          i < j => After(R[i], R[j]) /\ j - i <= Num(R[j]) - Num(R[i]) + g
    BY <1>1, <1>3, <1>5
  <1> QED BY <1>1, <1>4, <1>6 DEF History

\* The next message that is sent is received.
LEMMA HistorySent ==
  ASSUME receiver \in Receivers, NEW R, NEW n \in Nat, NEW u \in {0, 1}, NEW f \in Nat, History(R, n, u, f),
         NEW e, Made(e), Num(e) = n + 1, e.utc # NoTime => ErrorOf(e) = u
  PROVE  History(Append(R, e), n + 1, u, f)
  <1> DEFINE S == Append(R, e)
             N == Len(R)
  <1>1. R \in Seq(Entry) /\ N \in Nat /\ e \in Entry BY DEF History, Made
  <1>2. /\ S \in Seq(Entry) /\ Len(S) = N + 1 /\ S[N + 1] = e
        /\ \A i \in 1 .. N : S[i] = R[i]
    BY <1>1
  <1>3. \A i \in 1 .. N : /\ Made(R[i]) /\ Num(R[i]) <= n /\ Num(R[i]) \in Nat
                          /\ R[i].utc # NoTime => u <= ErrorOf(R[i])
    BY MadeTimes DEF History
  <1>4. \A i, j \in 1 .. N :
          i < j => After(R[i], R[j]) /\ j - i <= Num(R[j]) - Num(R[i]) + f
    BY DEF History
  <1> HIDE DEF S, N
  <1>5. \A i \in 1 .. N + 1 : i \in 1 .. N \/ i = N + 1 BY <1>1
  <1>6. ErrorOf(e) \in {0, 1} BY MadeUTC
  <1>7. ASSUME NEW i \in 1 .. N + 1
        PROVE  Made(S[i]) /\ Num(S[i]) <= n + 1 /\ (S[i].utc # NoTime => u <= ErrorOf(S[i]))
    BY <1>2, <1>3, <1>5, <1>6
  <1>8. ASSUME NEW i \in 1 .. N
        PROVE  After(R[i], e) /\ N + 1 - i <= Num(e) - Num(R[i]) + f
    <2>1. After(R[i], e) BY <1>3 DEF After
    <2>2. CASE i = N
      <3>1. Num(R[i]) <= n /\ Num(R[i]) \in Nat BY <1>3
      <3> QED BY ONLY <1>1, <2>1, <2>2, <3>1, Num(e) = n + 1, n \in Nat, f \in Nat
    <2>3. CASE i < N
      <3>1. N \in 1 .. N BY <1>1, <1>8
      <3>2. N - i <= Num(R[N]) - Num(R[i]) + f BY <1>4, <2>3, <3>1
      <3>3. Num(R[N]) <= n /\ Num(R[N]) \in Nat /\ Num(R[i]) \in Nat BY <1>3, <3>1
      <3> QED BY ONLY <1>1, <2>1, <3>2, <3>3, Num(e) = n + 1, n \in Nat, f \in Nat, i \in 1 .. N
    <2> QED BY <1>1, <2>1, <2>2, <2>3
  <1>9. ASSUME NEW i \in 1 .. N + 1, NEW j \in 1 .. N + 1, i < j
        PROVE  After(S[i], S[j]) /\ j - i <= Num(S[j]) - Num(S[i]) + f
    <2>1. i \in 1 .. N BY <1>1, <1>9
    <2>2. CASE j = N + 1
      <3>1. S[i] = R[i] /\ S[j] = e BY <1>2, <2>1, <2>2
      <3>2. After(R[i], e) /\ N + 1 - i <= Num(e) - Num(R[i]) + f BY <1>8, <2>1
      <3> QED BY ONLY <1>1, <2>2, <3>1, <3>2
    <2>3. CASE j \in 1 .. N BY <1>2, <1>4, <1>9, <2>1, <2>3
    <2> QED BY <1>5, <2>2, <2>3
  <1> QED BY <1>2, <1>7, <1>9 DEF History, S

\* The last message is received again.
LEMMA HistoryRepeated ==
  ASSUME receiver \in Receivers, NEW R, NEW n \in Nat, NEW u \in {0, 1}, NEW f \in Nat, History(R, n, u, f),
         R # <<>>, NEW e, Again(R[Len(R)], e)
  PROVE  History(Append(R, e), n, u, f + 1)
  <1> DEFINE S == Append(R, e)
             N == Len(R)
             l == R[N]
  <1>1. R \in Seq(Entry) /\ N \in Nat /\ N \in 1 .. N BY DEF History
  <1>2. Made(l) /\ Num(l) <= n /\ Num(l) \in Nat BY <1>1, MadeTimes DEF History
  <1>3. /\ Made(e) /\ Num(e) = Num(l) /\ e.utc = l.utc /\ ErrorOf(e) = ErrorOf(l)
    BY <1>2, SameAgain
  <1>4. e \in Entry BY <1>3 DEF Made
  <1>5. /\ S \in Seq(Entry) /\ Len(S) = N + 1 /\ S[N + 1] = e
        /\ \A i \in 1 .. N : S[i] = R[i]
    BY <1>1, <1>4
  <1>6. \A i \in 1 .. N : /\ Made(R[i]) /\ Num(R[i]) <= n /\ Num(R[i]) \in Nat
                          /\ R[i].utc # NoTime => u <= ErrorOf(R[i])
    BY MadeTimes DEF History
  <1>7. \A i, j \in 1 .. N :
          i < j => After(R[i], R[j]) /\ j - i <= Num(R[j]) - Num(R[i]) + f
    BY DEF History
  <1>8. Late(l) = 0 /\ Again(l, e) BY DEF Again
  <1> HIDE DEF S, N
  <1>9. \A i \in 1 .. N + 1 : i \in 1 .. N \/ i = N + 1 BY <1>1
  <1>10. ASSUME NEW i \in 1 .. N + 1
         PROVE  Made(S[i]) /\ Num(S[i]) <= n /\ (S[i].utc # NoTime => u <= ErrorOf(S[i]))
    BY <1>1, <1>2, <1>3, <1>5, <1>6, <1>9
  <1>11. ErrorOf(l) \in {0, 1} BY <1>2, MadeUTC
  <1>12. ASSUME NEW i \in 1 .. N
         PROVE  After(R[i], e) /\ N + 1 - i <= Num(e) - Num(R[i]) + (f + 1)
    <2>1. CASE i = N
      <3>1. After(l, e) BY <1>2, <1>3, <1>8, <1>11 DEF After
      <3> QED BY <1>1, <1>2, <1>3, <2>1, <3>1
    <2>2. CASE i < N
      <3>1. After(R[i], l) /\ N - i <= Num(l) - Num(R[i]) + f BY <1>1, <1>7, <2>2
      <3>2. Num(R[i]) # Num(l)
        <4>1. ASSUME Num(R[i]) = Num(l) PROVE FALSE
          <5>1. Again(R[i], l) BY <3>1, <4>1 DEF After
          <5>2. Late(l) = 1 BY <1>6, <5>1, SameAgain
          <5> QED BY <1>8, <5>2
        <4> QED BY <4>1
      <3>3. After(R[i], e) BY <1>3, <3>1, <3>2 DEF After
      <3>4. Num(R[i]) \in Nat BY <1>6
      <3>5. N - i <= Num(e) - Num(R[i]) + f BY <1>3, <3>1
      <3>6. Num(e) \in Nat BY <1>2, <1>3
      <3>7. N + 1 - i <= Num(e) - Num(R[i]) + (f + 1) BY ONLY <1>1, <3>4, <3>5, <3>6, i \in 1 .. N, f \in Nat
      <3> QED BY <3>3, <3>7
    <2> QED BY <1>1, <2>1, <2>2
  <1>13. ASSUME NEW i \in 1 .. N + 1, NEW j \in 1 .. N + 1, i < j
         PROVE  After(S[i], S[j]) /\ j - i <= Num(S[j]) - Num(S[i]) + (f + 1)
    <2>1. i \in 1 .. N BY <1>1, <1>13
    <2>2. CASE j = N + 1
      <3>1. S[i] = R[i] /\ S[j] = e BY <1>5, <2>1, <2>2
      <3>2. After(R[i], e) /\ N + 1 - i <= Num(e) - Num(R[i]) + (f + 1) BY <1>12, <2>1
      <3> QED BY ONLY <1>1, <2>2, <3>1, <3>2
    <2>3. CASE j \in 1 .. N
      <3>1. After(R[i], R[j]) /\ j - i <= Num(R[j]) - Num(R[i]) + f BY <1>7, <1>13, <2>1, <2>3
      <3>2. Num(R[i]) \in Nat /\ Num(R[j]) \in Nat BY <1>6, <2>1, <2>3
      <3> QED BY <1>5, <2>1, <2>3, <3>1, <3>2
    <2> QED BY <1>9, <2>2, <2>3
  <1> QED BY <1>5, <1>10, <1>13 DEF History, S

-----------------------------------------------------------------------------
(* The inductive invariant. *)

\* es is the end of what was received, and the messages of the read window begin behind s.
Buffered(es, s, R) ==
  /\ Len(es) <= Len(R)
  /\ \A i \in 1 .. Len(es) : es[i] = R[Len(R) - Len(es) + i]
  /\ \A i \in 1 .. Len(R) :
       i <= Len(R) - Len(es) + s <=> R[i].tRead < R[Len(R)].tRead - ReadWindow * Second

\* When the slice has to grow, it holds nothing but the read window.
Roomy(len, s, cap) ==
  /\ len <= cap /\ cap <= 2 * WindowSize
  /\ s > 0 => len < cap \/ len <= 2

Corrects(e, ref) == e.offset # "none" /\ Type(e).ref = ref

\* m is the last message in R with a correction of that kind.
LastCorrection(m, R, ref) ==
  \/ m = NoMsg /\ \A i \in 1 .. Len(R) : ~Corrects(R[i], ref)
  \/ \E i \in 1 .. Len(R) :
       /\ m = R[i] /\ Corrects(R[i], ref)
       /\ \A j \in i + 1 .. Len(R) : ~Corrects(R[j], ref)

BufferInv ==
  /\ BufferTypeOK
  /\ History(received, sent, utcError, faults)
  /\ Buffered(entries, startIndex, received)
  /\ Roomy(Len(entries), startIndex, capEntries)
  /\ LastCorrection(lastPreCorrMsg, received, "pre")
  /\ LastCorrection(lastPostCorrMsg, received, "post")

-----------------------------------------------------------------------------
(* Storing a message. *)

LEMMA TimesOrdered ==
  ASSUME receiver \in Receivers, NEW R, NEW n, NEW u, NEW f, History(R, n, u, f),
         NEW i \in 1 .. Len(R), NEW j \in 1 .. Len(R), i <= j
  PROVE  R[i].tRead \in Nat /\ R[j].tRead \in Nat /\ R[i].tRead <= R[j].tRead
  <1>1. R \in Seq(Entry) /\ Made(R[i]) /\ Made(R[j]) BY DEF History
  <1>2. R[i].tRead \in Nat /\ R[j].tRead \in Nat BY <1>1, MadeTimes
  <1>3. CASE i = j BY <1>2, <1>3
  <1>4. CASE i < j
    <2>1. After(R[i], R[j]) BY <1>4 DEF History
    <2> QED BY <1>1, <1>2, <2>1, InOrder
  <1> QED BY <1>3, <1>4

\* How many messages the read window may hold.
LEMMA WindowBound ==
  ASSUME receiver \in Receivers, NEW R, NEW n, NEW u, NEW f \in 0 .. MaxFaults, History(R, n, u, f),
         NEW i \in 1 .. Len(R), R[i].tRead >= R[Len(R)].tRead - ReadWindow * Second
  PROVE  Len(R) - i + 1 <= WindowSize
  <1> DEFINE N  == Len(R)
             ci == Cycle(R[i].tRead)
             cN == Cycle(R[N].tRead)
             L  == Len(Types)
             r  == receiver.rate
             q  == ReadWindow * r
  <1>1. L \in Nat \ {0} /\ Epoch \in Nat \ {0} /\ r \in Nat \ {0} /\ r * Epoch = Second BY Receiver
  <1>2. ReadWindow \in Nat \ {0} /\ MaxFaults \in Nat BY BufferAssumption
  <1>3. q \in Nat /\ q * L \in Nat BY <1>1, <1>2
  <1>4. WindowSize = q * L + L + MaxFaults
    <2>1. ReadWindow * (r * L) = q * L BY <1>1, <1>2
    <2>2. WindowSize = ReadWindow * (r * L) + L + MaxFaults BY DEF WindowSize, PerSecond
    <2> QED BY <2>1, <2>2
  <1>5. ReadWindow * Second = q * Epoch BY <1>1, <1>2
  <1>6. R \in Seq(Entry) /\ N \in Nat /\ N \in 1 .. N BY DEF History
  <1>7. Made(R[i]) /\ Made(R[N]) BY <1>6 DEF History
  <1>8. /\ ci \in Nat /\ ci * Epoch \in Nat /\ R[i].tRead \in Nat /\ R[i].tRead < ci * Epoch + Epoch
        /\ Num(R[i]) = ci * L + R[i].k /\ R[i].k \in 1 .. L
    BY <1>7, MadeTimes
  <1>9. /\ cN \in Nat /\ cN * Epoch \in Nat /\ R[N].tRead \in Nat /\ cN * Epoch <= R[N].tRead
        /\ Num(R[N]) = cN * L + R[N].k /\ R[N].k \in 1 .. L
    BY <1>7, MadeTimes
  <1>10. R[i].tRead >= R[N].tRead - q * Epoch BY <1>5
  <1>11. i < N => N - i <= Num(R[N]) - Num(R[i]) + f BY <1>6 DEF History
  <1> HIDE DEF N, ci, cN, L, r, q
  <1>12. cN <= ci + q
    <2>1. ASSUME ci + q < cN PROVE FALSE
      <3>1. ci + q \in Int /\ cN \in Int /\ Epoch \in Nat /\ ci \in Nat /\ q \in Nat BY <1>1, <1>3, <1>8, <1>9
      <3> DEFINE x == ci * Epoch
                 y == cN * Epoch
                 z == q * Epoch
      <3>2. (ci + q) * Epoch + Epoch <= y BY ONLY <2>1, <3>1, ProductStrict
      <3>3. (ci + q) * Epoch = x + z /\ z \in Nat BY <1>1, <1>3, <1>8
      <3>4. x \in Nat /\ R[i].tRead \in Nat /\ R[i].tRead < x + Epoch BY <1>8
      <3>5. y \in Nat /\ R[N].tRead \in Nat /\ y <= R[N].tRead BY <1>9
      <3>6. R[i].tRead >= R[N].tRead - z BY <1>10
      <3> HIDE DEF x, y, z
      <3>7. x + z + Epoch <= y BY <3>2, <3>3
      <3>8. z \in Nat /\ Epoch \in Nat BY <3>1, <3>3
      <3> QED BY ONLY <3>4, <3>5, <3>6, <3>7, <3>8
    <2> QED BY <1>3, <1>8, <1>9, <2>1
  <1>13. cN * L <= ci * L + q * L
    <2>1. cN * L <= (ci + q) * L BY <1>1, <1>3, <1>8, <1>9, <1>12, Product
    <2> QED BY <1>1, <1>3, <1>8, <1>9, <2>1
  <1>14. N - i + 1 <= q * L + L + MaxFaults
    <2>1. CASE i = N BY ONLY <1>1, <1>2, <1>3, <1>6, <2>1
    <2>2. CASE i < N
      <3> DEFINE x == ci * L
                 y == cN * L
                 z == q * L
                 k == R[i].k
                 m == R[N].k
      <3>1. x \in Nat /\ y \in Nat /\ z \in Nat /\ y <= x + z BY <1>1, <1>3, <1>8, <1>9, <1>13
      <3>2. N - i <= (y + m) - (x + k) + f BY <1>8, <1>9, <1>11, <2>2
      <3>3. k \in 1 .. L /\ m \in 1 .. L BY <1>8, <1>9
      <3> HIDE DEF x, y, z, k, m
      <3>4. f \in Nat /\ f <= MaxFaults /\ i \in Nat BY <1>2
      <3>5. N \in Nat /\ L \in Nat /\ MaxFaults \in Nat BY <1>1, <1>2, <1>6
      <3>6. N - i + 1 <= z + L + MaxFaults BY ONLY <3>1, <3>2, <3>3, <3>4, <3>5
      <3> QED BY <3>6 DEF z
    <2> QED BY <1>6, <2>1, <2>2 DEF N
  <1> QED BY <1>4, <1>14 DEF N

\* What Expired chooses.
LEMMA ExpiredIs ==
  ASSUME entries \in Seq(Entry), startIndex \in 0 .. Len(entries), NEW t
  PROVE  /\ Expired(t) \in startIndex .. Len(entries)
         /\ \A i \in startIndex + 1 .. Expired(t) : entries[i].tRead < t - ReadWindow * Second
         /\ \/ Expired(t) = Len(entries)
            \/ ~(entries[Expired(t) + 1].tRead < t - ReadWindow * Second)
  <1> DEFINE len == Len(entries)
             old(i) == entries[i].tRead < t - ReadWindow * Second
             Ends == {n \in startIndex .. len : n = len \/ ~old(n + 1)}
             m == Earliest(Ends)
  <1>1. len \in Nat /\ startIndex \in 0 .. len OBVIOUS
  <1> HIDE DEF len, old
  <1>2. Ends \subseteq Nat /\ len \in Ends BY <1>1
  <1>3. m \in Ends /\ \A j \in Ends : m <= j
    <2>1. Ends # {} BY <1>2
    <2> HIDE DEF Ends
    <2> QED BY <1>2, <2>1, EarliestIs
  <1>4. ASSUME NEW i \in startIndex + 1 .. m PROVE old(i)
    <2>1. m \in startIndex .. len BY <1>3
    <2>2. i - 1 \in startIndex .. len /\ i - 1 < m /\ (i - 1) + 1 = i BY <1>1, <1>4, <2>1
    <2>3. i - 1 \notin Ends BY <1>1, <1>3, <2>1, <2>2
    <2> QED BY <2>2, <2>3
  <1>5. \E n \in startIndex .. len : /\ \A i \in startIndex + 1 .. n : old(i)
                                     /\ n = len \/ ~old(n + 1)
    <2>1. m \in startIndex .. len /\ (m = len \/ ~old(m + 1)) BY <1>3
    <2> HIDE DEF m
    <2> QED BY <1>4, <2>1
  <1>6. Expired(t) = CHOOSE n \in startIndex .. len : /\ \A i \in startIndex + 1 .. n : old(i)
                                                      /\ n = len \/ ~old(n + 1)
    BY DEF Expired, len, old
  <1>7. /\ Expired(t) \in startIndex .. len
        /\ \A i \in startIndex + 1 .. Expired(t) : old(i)
        /\ Expired(t) = len \/ ~old(Expired(t) + 1)
    BY <1>5, <1>6, Zenon
  <1> QED BY <1>7 DEF len, old

LEMMA Appended ==
  ASSUME NEW T, NEW S \in Seq(T), NEW x \in T
  PROVE  /\ Append(S, x) \in Seq(T) /\ Len(Append(S, x)) = Len(S) + 1 /\ Len(S) \in Nat
         /\ Append(S, x)[Len(S) + 1] = x
         /\ \A i \in 1 .. Len(S) : Append(S, x)[i] = S[i]
  OBVIOUS

LEMMA EndOf ==
  ASSUME NEW T, NEW S \in Seq(T), NEW m \in 0 .. Len(S)
  PROVE  /\ SubSeq(S, m + 1, Len(S)) \in Seq(T) /\ Len(SubSeq(S, m + 1, Len(S))) = Len(S) - m
         /\ \A i \in 1 .. Len(S) - m : SubSeq(S, m + 1, Len(S))[i] = S[m + i]
  OBVIOUS

\* What store makes of the entries.
LEMMA Stored ==
  ASSUME receiver \in Receivers, NEW n, NEW u, NEW f \in 0 .. MaxFaults,
         History(received, n, u, f),
         entries \in Seq(Entry), startIndex \in 0 .. Len(entries), capEntries \in Nat,
         Buffered(entries, startIndex, received), Roomy(Len(entries), startIndex, capEntries),
         NEW e, Made(e), \A i \in 1 .. Len(received) : received[i].tRead <= e.tRead,
         NEW start, start = Expired(e.tRead),
         NEW moved, moved = IF CanMove(start) THEN SubSeq(entries, start + 1, Len(entries)) ELSE entries,
         NEW es, es = Append(moved, e),
         NEW s, s = IF CanMove(start) THEN 0 ELSE start,
         NEW cap, cap = IF Len(moved) < capEntries THEN capEntries ELSE Grown(capEntries)
  PROVE  /\ es \in Seq(Entry) /\ s \in 0 .. Len(es) /\ cap \in Nat
         /\ Buffered(es, s, Append(received, e)) /\ Roomy(Len(es), s, cap)
  <1> DEFINE len == Len(entries)
             N   == Len(received)
             R   == Append(received, e)
             W   == ReadWindow * Second
             D   == N - len + start
  <1>1. received \in Seq(Entry) /\ N \in Nat /\ len \in Nat /\ e \in Entry /\ e.tRead \in Nat
    BY MadeTimes DEF History, Made
  <1>2. /\ start \in startIndex .. len
        /\ \A i \in startIndex + 1 .. start : entries[i].tRead < e.tRead - W
        /\ start = len \/ ~(entries[start + 1].tRead < e.tRead - W)
    BY ExpiredIs
  <1>3. /\ len <= N
        /\ \A i \in 1 .. len : entries[i] = received[N - len + i]
        /\ \A i \in 1 .. N :
             i <= N - len + startIndex <=> received[i].tRead < received[N].tRead - W
    BY DEF Buffered
  <1>4. W \in Nat \ {0} BY BufferAssumption
  <1>5. \A i \in 1 .. N : received[i].tRead \in Nat /\ received[i].tRead <= e.tRead BY TimesOrdered
  <1>6. \A i, j \in 1 .. N : i <= j => received[i].tRead <= received[j].tRead BY TimesOrdered
  <1>7. R \in Seq(Entry) /\ Len(R) = N + 1 /\ R[N + 1] = e /\ \A i \in 1 .. N : R[i] = received[i]
    BY <1>1
  <1>8. /\ es = Append(moved, e) /\ s = (IF CanMove(start) THEN 0 ELSE start)
        /\ cap = IF Len(moved) < capEntries THEN capEntries ELSE Grown(capEntries)
    OBVIOUS
  <1>9. len <= capEntries /\ capEntries <= 2 * WindowSize /\ (startIndex > 0 => len < capEntries \/ len <= 2)
    BY DEF Roomy
  <1>10. WindowSize \in Nat /\ 2 <= WindowSize
    <2>1. ReadWindow \in Nat /\ 2 <= ReadWindow /\ MaxFaults \in Nat BY BufferAssumption
    <2>2. Len(Types) \in Nat \ {0} /\ receiver.rate \in Nat \ {0} BY Receiver
    <2>3. PerSecond \in Nat \ {0} BY <2>2 DEF PerSecond
    <2>4. ReadWindow <= ReadWindow * PerSecond /\ ReadWindow * PerSecond \in Nat BY ONLY <2>1, <2>3
    <2> DEFINE x == ReadWindow * PerSecond
               l == Len(Types)
    <2>5. WindowSize = x + l + MaxFaults BY DEF WindowSize
    <2>6. x \in Nat /\ ReadWindow <= x /\ l \in Nat BY <2>2, <2>4
    <2> HIDE DEF x, l
    <2> QED BY ONLY <2>1, <2>5, <2>6
  <1>11. len - startIndex <= WindowSize
    <2> HIDE DEF len, N, W
    <2>1. N \in Nat /\ len \in Nat /\ len <= N /\ startIndex \in 0 .. len /\ WindowSize \in Nat
      BY <1>1, <1>3, <1>10 DEF len
    <2>2. CASE startIndex = len BY ONLY <2>2, <2>1
    <2>3. CASE startIndex < len
      <3> DEFINE i == N - len + startIndex + 1
      <3>1. i \in 1 .. N /\ ~(i <= N - len + startIndex) BY ONLY <2>3, <2>1
      <3>2. ~(received[i].tRead < received[N].tRead - W) BY <1>3, <3>1
      <3>3. received[i].tRead \in Nat /\ received[N].tRead \in Nat
        <4>1. N \in 1 .. N BY <1>1, <3>1
        <4> QED BY <1>5, <3>1, <4>1
      <3>4. received[i].tRead >= received[N].tRead - W
        <4>1. W \in Nat BY <1>4
        <4> QED BY ONLY <3>2, <3>3, <4>1
      <3>5. N - i + 1 <= WindowSize BY <3>1, <3>4, WindowBound DEF N, W
      <3> QED BY ONLY <2>1, <3>5
    <2> QED BY ONLY <2>2, <2>3, <2>1
  <1>12. CanMove(start) <=> start > 0 /\ len < capEntries BY DEF CanMove
  <1> HIDE DEF len, N, R, W
  \* Where the entries come from, and what is left out.
  <1> DEFINE out == N - len
  <1>13. /\ N \in Nat /\ len \in Nat /\ start \in Nat /\ startIndex \in Nat /\ out \in Nat
         /\ startIndex <= start /\ start <= len /\ N = out + len /\ D = out + start
    BY <1>1, <1>2, <1>3
  <1>14. \A i \in 1 .. len : entries[i] = received[out + i] BY <1>3
  <1>15. capEntries \in Nat OBVIOUS
  <1> HIDE DEF out, D
  <1>16. /\ es \in Seq(Entry) /\ s \in 0 .. Len(es) /\ Len(es) <= N + 1
         /\ \A i \in 1 .. Len(es) : es[i] = R[N + 1 - Len(es) + i]
         /\ N + 1 - Len(es) + s = D
    <2>1. CASE CanMove(start)
      <3>1. moved = SubSeq(entries, start + 1, len) BY <2>1 DEF len
      <3>2. /\ moved \in Seq(Entry) /\ Len(moved) = len - start
            /\ \A i \in 1 .. len - start : moved[i] = entries[start + i]
        <4>1. start \in 0 .. len /\ len = Len(entries) /\ entries \in Seq(Entry) BY <1>13 DEF len
        <4> QED BY ONLY <3>1, <4>1, EndOf
      <3>3. /\ es \in Seq(Entry) /\ Len(es) = len - start + 1 /\ es[len - start + 1] = e
            /\ \A i \in 1 .. len - start : es[i] = entries[start + i]
        <4>1. es = Append(moved, e) /\ e \in Entry BY <1>1
        <4>2. /\ es \in Seq(Entry) /\ Len(es) = Len(moved) + 1 /\ es[Len(moved) + 1] = e
              /\ \A i \in 1 .. Len(moved) : es[i] = moved[i]
          BY ONLY <3>2, <4>1, Appended
        <4> QED BY ONLY <3>2, <4>2
      <3>4. s = 0 BY <1>8, <2>1
      <3>5. ASSUME NEW i \in 1 .. Len(es) PROVE es[i] = R[N + 1 - Len(es) + i]
        <4>1. Len(es) = len - start + 1 BY <3>3
        <4>2. CASE i = len - start + 1
          <5>1. N + 1 - Len(es) + i = N + 1 BY ONLY <1>13, <4>1, <4>2
          <5> QED BY <1>7, <3>3, <4>2, <5>1
        <4>3. CASE i \in 1 .. len - start
          <5>1. start + i \in 1 .. len /\ out + (start + i) \in 1 .. N BY ONLY <1>13, <4>3
          <5>2. N + 1 - Len(es) + i = out + (start + i) BY ONLY <1>13, <4>1, <4>3
          <5>3. es[i] = entries[start + i] BY <3>3, <4>3
          <5>4. entries[start + i] = received[out + (start + i)] BY <1>14, <5>1
          <5>5. R[out + (start + i)] = received[out + (start + i)] BY <1>7, <5>1
          <5> QED BY ONLY <5>2, <5>3, <5>4, <5>5
        <4>4. i = len - start + 1 \/ i \in 1 .. len - start BY ONLY <1>13, <4>1, i \in 1 .. Len(es)
        <4> QED BY <4>2, <4>3, <4>4
      <3>6. Len(es) = len - start + 1 BY <3>3
      <3>7. s \in 0 .. Len(es) /\ Len(es) <= N + 1 /\ N + 1 - Len(es) + s = D
        BY ONLY <1>13, <3>4, <3>6
      <3> QED BY <3>3, <3>5, <3>7
    <2>2. CASE ~CanMove(start)
      <3>1. es = Append(entries, e) /\ s = start BY <1>8, <2>2
      <3>2. /\ es \in Seq(Entry) /\ Len(es) = len + 1 /\ es[len + 1] = e
            /\ \A i \in 1 .. len : es[i] = entries[i]
        BY <1>1, <3>1, Appended DEF len
      <3>3. ASSUME NEW i \in 1 .. Len(es) PROVE es[i] = R[N + 1 - Len(es) + i]
        <4>1. Len(es) = len + 1 BY <3>2
        <4>2. CASE i = len + 1
          <5>1. N + 1 - Len(es) + i = N + 1 BY ONLY <1>13, <4>1, <4>2
          <5> QED BY <1>7, <3>2, <4>2, <5>1
        <4>3. CASE i \in 1 .. len
          <5>1. out + i \in 1 .. N BY ONLY <1>13, <4>3
          <5>2. N + 1 - Len(es) + i = out + i BY ONLY <1>13, <4>1, <4>3
          <5>3. es[i] = received[out + i] BY <1>14, <3>2, <4>3
          <5>4. R[out + i] = received[out + i] BY <1>7, <5>1
          <5> QED BY ONLY <5>2, <5>3, <5>4
        <4>4. i = len + 1 \/ i \in 1 .. len BY ONLY <1>13, <4>1, i \in 1 .. Len(es)
        <4> QED BY <4>2, <4>3, <4>4
      <3>4. Len(es) = len + 1 BY <3>2
      <3>5. s \in 0 .. Len(es) /\ Len(es) <= N + 1 /\ N + 1 - Len(es) + s = D
        BY ONLY <1>13, <3>1, <3>4
      <3> QED BY <3>2, <3>3, <3>5
    <2> QED BY <2>1, <2>2
  <1>17. D \in 0 .. N BY ONLY <1>13
  <1>18. ASSUME NEW i \in 1 .. N + 1
         PROVE  i <= D <=> R[i].tRead < e.tRead - W
    <2>1. CASE i = N + 1
      <3>1. ~(i <= D) BY ONLY <1>17, <1>13, <2>1
      <3>2. ~(R[i].tRead < e.tRead - W) BY <1>1, <1>4, <1>7, <2>1
      <3> QED BY <3>1, <3>2
    <2>2. CASE i \in 1 .. N
      <3>1. R[i] = received[i] /\ received[i].tRead \in Nat BY <1>5, <1>7, <2>2
      <3>2. CASE i <= out + startIndex
        <4>1. received[i].tRead < received[N].tRead - W BY <1>3, <2>2, <3>2 DEF out
        <4>2. N \in 1 .. N BY <1>1, <2>2
        <4>3. received[N].tRead \in Nat /\ received[N].tRead <= e.tRead BY <1>5, <4>2
        <4>4. received[i].tRead < e.tRead - W BY ONLY <1>1, <1>4, <3>1, <4>1, <4>3
        <4>5. i <= D BY ONLY <1>13, <2>2, <3>2
        <4> QED BY <3>1, <4>4, <4>5
      <3>3. CASE out + startIndex < i /\ i <= D
        <4> DEFINE j == i - out
        <4>1. j \in startIndex + 1 .. start /\ j \in 1 .. len /\ out + j = i
          BY ONLY <1>13, <2>2, <3>3
        <4> HIDE DEF j
        <4>2. entries[j].tRead < e.tRead - W /\ entries[j] = received[i] BY <1>2, <1>14, <4>1
        <4> QED BY <3>1, <3>3, <4>2
      <3>4. CASE D < i
        <4>1. start < len BY ONLY <1>13, <2>2, <3>4
        <4>2. start + 1 \in 1 .. len /\ out + (start + 1) = D + 1 /\ D + 1 \in 1 .. N /\ D + 1 <= i
          BY ONLY <1>13, <2>2, <3>4, <4>1
        <4>3. entries[start + 1] = received[D + 1] BY <1>14, <4>2
        <4>4. ~(received[D + 1].tRead < e.tRead - W) BY <1>2, <1>13, <4>1, <4>3
        <4>5. received[D + 1].tRead \in Nat /\ received[D + 1].tRead <= received[i].tRead
          BY <1>5, <1>6, <2>2, <4>2
        <4>6. ~(received[i].tRead < e.tRead - W)
          <5>1. e.tRead \in Nat BY <1>1
          <5> QED BY ONLY <1>4, <3>1, <4>4, <4>5, <5>1
        <4>7. ~(i <= D) BY ONLY <1>13, <2>2, <3>4
        <4> QED BY <3>1, <4>6, <4>7
      <3>5. i <= out + startIndex \/ (out + startIndex < i /\ i <= D) \/ D < i BY ONLY <1>13, <2>2
      <3> QED BY <3>2, <3>3, <3>4, <3>5
    <2>3. i = N + 1 \/ i \in 1 .. N BY <1>13
    <2> QED BY <2>1, <2>2, <2>3
  <1>19. Buffered(es, s, R)
    <2>1. R[Len(R)] = e /\ Len(R) = N + 1 BY <1>7
    <2>2. \A i \in 1 .. N + 1 : i <= N + 1 - Len(es) + s <=> R[i].tRead < e.tRead - ReadWindow * Second
      <3>1. N + 1 - Len(es) + s = D BY <1>16
      <3> QED BY <1>18, <3>1, Zenon DEF W
    <2>3. Len(es) <= N + 1 /\ \A i \in 1 .. Len(es) : es[i] = R[N + 1 - Len(es) + i] BY <1>16
    <2>4. \A i \in 1 .. Len(R) : i <= Len(R) - Len(es) + s <=> R[i].tRead < R[Len(R)].tRead - ReadWindow * Second
      BY ONLY <1>13, <2>1, <2>2
    <2>5. Len(es) <= Len(R) /\ \A i \in 1 .. Len(es) : es[i] = R[Len(R) - Len(es) + i] BY ONLY <1>13, <2>1, <2>3
    <2> QED BY ONLY <2>4, <2>5 DEF Buffered
  \* The slice.
  <1>20. cap \in Nat /\ Roomy(Len(es), s, cap)
    <2>1. CASE CanMove(start)
      <3>1. Len(es) = len - start + 1 /\ s = 0 /\ cap = capEntries
        <4>1. moved = SubSeq(entries, start + 1, len) BY <2>1 DEF len
        <4>2. moved \in Seq(Entry) /\ Len(moved) = len - start
          <5>1. start \in 0 .. Len(entries) BY <1>13 DEF len
          <5> QED BY <4>1, <5>1, EndOf DEF len
        <4>3. Len(es) = Len(moved) + 1 BY <1>1, <1>8, <4>2, Appended
        <4>4. Len(moved) < capEntries BY ONLY <1>12, <1>13, <1>15, <2>1, <4>2
        <4> QED BY <1>8, <2>1, <4>2, <4>3, <4>4
      <3>2. Len(es) <= cap /\ cap <= 2 * WindowSize /\ cap \in Nat
        <4>1. start > 0 /\ len < capEntries BY ONLY <1>12, <2>1
        <4>2. len - start + 1 <= capEntries BY ONLY <1>13, <1>15, <4>1
        <4> QED BY ONLY <1>9, <1>15, <3>1, <4>2
      <3>3. ~(s > 0) BY <3>1
      <3> QED BY <3>2, <3>3 DEF Roomy
    <2>2. CASE ~CanMove(start)
      <3>1. /\ Len(es) = len + 1 /\ s = start
            /\ cap = IF len < capEntries THEN capEntries ELSE Grown(capEntries)
        <4>1. moved = entries BY <2>2
        <4>2. es = Append(entries, e) /\ entries \in Seq(Entry) BY <1>8, <4>1
        <4>3. Len(es) = len + 1
          <5>1. e \in Entry BY <1>1
          <5>2. Len(es) = Len(entries) + 1 BY ONLY <4>2, <5>1, Appended
          <5> QED BY ONLY <5>2 DEF len
        <4>4. Len(moved) = len BY <4>1 DEF len
        <4> QED BY <1>8, <2>2, <4>4, <4>3
      <3>2. CASE len < capEntries
        <4>1. start = 0 BY ONLY <1>12, <1>13, <2>2, <3>2
        <4>2. Len(es) <= cap /\ cap <= 2 * WindowSize /\ cap \in Nat /\ ~(s > 0)
          BY ONLY <1>9, <1>13, <1>15, <3>1, <3>2, <4>1
        <4> QED BY <4>2 DEF Roomy
      <3>3. CASE len = capEntries /\ capEntries = 0
        <4>1. cap = 1 BY <3>1, <3>3 DEF Grown
        <4>2. Len(es) <= cap /\ cap <= 2 * WindowSize /\ cap \in Nat /\ ~(s > 0)
          BY ONLY <1>10, <1>13, <3>1, <3>3, <4>1
        <4> QED BY <4>2 DEF Roomy
      <3>4. CASE len = capEntries /\ capEntries # 0
        <4>1. cap = 2 * capEntries BY <1>15, <3>1, <3>4 DEF Grown
        <4>2. capEntries <= WindowSize BY ONLY <1>9, <1>10, <1>11, <1>13, <1>15, <3>4
        <4>3. /\ Len(es) <= cap /\ cap <= 2 * WindowSize /\ cap \in Nat
              /\ Len(es) < cap \/ Len(es) <= 2
          BY ONLY <1>10, <1>13, <1>15, <3>1, <3>4, <4>1, <4>2
        <4> QED BY <4>3 DEF Roomy
      <3>5. len < capEntries \/ (len = capEntries /\ capEntries = 0) \/ (len = capEntries /\ capEntries # 0)
        BY ONLY <1>9, <1>13, <1>15
      <3> QED BY <3>2, <3>3, <3>4, <3>5
    <2> QED BY <2>1, <2>2
  <1> QED BY <1>16, <1>19, <1>20 DEF R

-----------------------------------------------------------------------------
(* Each step keeps the invariant. *)

\* What depends on the receiver alone does not change with it.
LEMMA SameReceiver ==
  ASSUME receiver' = receiver
  PROVE  /\ Types' = Types /\ Epoch' = Epoch /\ MaxSent' = MaxSent /\ WindowSize' = WindowSize
         /\ Entry' = Entry
  <1>1. Types' = Types /\ Epoch' = Epoch BY DEF Types, Epoch
  <1>2. PerSecond' = PerSecond BY <1>1 DEF PerSecond
  <1> QED BY <1>1, <1>2 DEF MaxSent, WindowSize, Entry

LEMMA SameHistory ==
  ASSUME receiver' = receiver, History(received', sent', utcError', faults')
  PROVE  History(received, sent, utcError, faults)'
  <1>1. Types' = Types /\ Epoch' = Epoch /\ Entry' = Entry BY SameReceiver
  <1>2. ASSUME NEW CONSTANT e PROVE Num(e)' = Num(e) BY <1>1 DEF Num, Cycle
  <1>3. ASSUME NEW CONSTANT e PROVE Late(e)' = Late(e) BY <1>1 DEF Late, Cycle, Type
  <1>4. ASSUME NEW CONSTANT e PROVE Due(e)' = Due(e) /\ ErrorOf(e)' = ErrorOf(e)
    BY <1>1 DEF Due, ErrorOf, Nominal, StartOf
  <1>5. ASSUME NEW CONSTANT e PROVE Made(e)' <=> Made(e)
    BY <1>1, <1>3, <1>4 DEF Made, Valid, Type
  <1>6. ASSUME NEW CONSTANT a, NEW CONSTANT b PROVE After(a, b)' <=> After(a, b)
    BY <1>2, <1>3, <1>4 DEF After, Again
  <1> QED BY <1>1, <1>2, <1>4, <1>5, <1>6 DEF History

\* The last correction after a message.
LEMMA CorrectionKept ==
  ASSUME NEW R \in Seq(Entry), NEW e \in Entry, NEW m, NEW ref, LastCorrection(m, R, ref)
  PROVE  LastCorrection(IF e.offset # "none" /\ Type(e).ref = ref THEN e ELSE m, Append(R, e), ref)
  <1> DEFINE N == Len(R)
             S == Append(R, e)
  <1>1. N \in Nat /\ Len(S) = N + 1 /\ S[N + 1] = e /\ \A i \in 1 .. N : S[i] = R[i] BY Appended
  <1>2. \/ m = NoMsg /\ \A i \in 1 .. N : ~Corrects(R[i], ref)
        \/ \E i \in 1 .. N : /\ m = R[i] /\ Corrects(R[i], ref)
                             /\ \A j \in i + 1 .. N : ~Corrects(R[j], ref)
    BY DEF LastCorrection
  <1> HIDE DEF N, S
  <1>3. CASE Corrects(e, ref)
    <2>1. N + 1 \in 1 .. Len(S) /\ \A j \in (N + 1) + 1 .. Len(S) : FALSE BY <1>1
    <2>2. Corrects(S[N + 1], ref) BY <1>1, <1>3
    <2>3. LastCorrection(e, S, ref) BY <1>1, <2>1, <2>2 DEF LastCorrection
    <2> QED BY <1>3, <2>3 DEF S, Corrects
  <1>4. CASE ~Corrects(e, ref)
    <2>1. \A i \in 1 .. N + 1 : i \in 1 .. N \/ S[i] = e BY <1>1
    <2>2. LastCorrection(m, S, ref)
      <3>1. CASE m = NoMsg /\ \A i \in 1 .. N : ~Corrects(R[i], ref)
        <4>1. \A i \in 1 .. Len(S) : ~Corrects(S[i], ref) BY <1>1, <1>4, <2>1, <3>1
        <4> QED BY <3>1, <4>1 DEF LastCorrection
      <3>2. ASSUME NEW i \in 1 .. N, m = R[i], Corrects(R[i], ref),
                   \A j \in i + 1 .. N : ~Corrects(R[j], ref)
            PROVE  LastCorrection(m, S, ref)
        <4>1. i \in 1 .. Len(S) /\ m = S[i] /\ Corrects(S[i], ref) BY <1>1, <3>2
        <4>2. ASSUME NEW j \in i + 1 .. Len(S) PROVE ~Corrects(S[j], ref)
          <5>1. S[j] = e \/ (j \in i + 1 .. N /\ S[j] = R[j]) BY <1>1, <3>2
          <5> QED BY <1>4, <3>2, <5>1
        <4> QED BY <4>1, <4>2 DEF LastCorrection
      <3> QED BY <1>2, <3>1, <3>2
    <2> QED BY <1>4, <2>2 DEF S, Corrects
  <1> QED BY <1>3, <1>4

\* A message has been taken in, and the history goes on.
LEMMA TimeKeeps ==
  ASSUME receiver \in Receivers, BufferInv, receiver' = receiver,
         NEW e, Made(e), Time(e),
         sent' \in 0 .. MaxSent, utcError' \in {0, 1}, lsError' \in {0, 1}, faults' \in 0 .. MaxFaults,
         History(Append(received, e), sent', utcError', faults')
  PROVE  BufferInv'
  <1> DEFINE start == Expired(e.tRead)
             moved == IF CanMove(start) THEN SubSeq(entries, start + 1, Len(entries)) ELSE entries
  <1>1. /\ Types' = Types /\ Epoch' = Epoch /\ MaxSent' = MaxSent /\ WindowSize' = WindowSize
        /\ Entry' = Entry
    BY SameReceiver
  <1>2. /\ entries \in Seq(Entry) /\ startIndex \in 0 .. Len(entries) /\ capEntries \in Nat
        /\ faults \in 0 .. MaxFaults /\ received \in Seq(Entry)
        /\ {lastPreCorrMsg, lastPostCorrMsg} \subseteq Entry \cup {NoMsg}
        /\ lastMsgUTC \in Nat \cup {NoTime}
        /\ History(received, sent, utcError, faults)
        /\ Buffered(entries, startIndex, received)
        /\ Roomy(Len(entries), startIndex, capEntries)
        /\ LastCorrection(lastPreCorrMsg, received, "pre")
        /\ LastCorrection(lastPostCorrMsg, received, "post")
    BY DEF BufferInv, BufferTypeOK
  <1>3. /\ entries' = Append(moved, e)
        /\ startIndex' = IF CanMove(start) THEN 0 ELSE start
        /\ capEntries' = IF Len(moved) < capEntries THEN capEntries ELSE Grown(capEntries)
        /\ received' = Append(received, e)
        /\ lastPreCorrMsg' = (IF e.offset # "none" /\ Type(e).ref = "pre" THEN e ELSE lastPreCorrMsg)
        /\ lastPostCorrMsg' = (IF e.offset # "none" /\ Type(e).ref = "post" THEN e ELSE lastPostCorrMsg)
        /\ lastMsgUTC' = (IF PassedOn(e) THEN e.utc ELSE lastMsgUTC)
    BY DEF Time, store
  <1>4. e \in Entry BY DEF Made
  <1>5. \A i \in 1 .. Len(received) : received[i].tRead <= e.tRead
    <2> DEFINE S == Append(received, e)
    <2>1. /\ Len(S) = Len(received) + 1 /\ Len(received) \in Nat /\ S[Len(received) + 1] = e
          /\ \A i \in 1 .. Len(received) : S[i] = received[i]
      BY <1>2, <1>4, Appended
    <2>2. History(S, sent', utcError', faults') OBVIOUS
    <2> HIDE DEF S
    <2> TAKE i \in 1 .. Len(received)
    <2>3. i \in 1 .. Len(S) /\ Len(S) \in 1 .. Len(S) /\ i <= Len(S) BY <2>1
    <2>4. S[i].tRead <= S[Len(S)].tRead BY <2>2, <2>3, TimesOrdered
    <2> QED BY <2>1, <2>4
  <1>6. /\ entries' \in Seq(Entry) /\ startIndex' \in 0 .. Len(entries') /\ capEntries' \in Nat
        /\ Buffered(entries', startIndex', Append(received, e))
        /\ Roomy(Len(entries'), startIndex', capEntries')
    <2> HIDE DEF start, moved
    <2>1. start = Expired(e.tRead) BY DEF start
    <2>2. moved = IF CanMove(start) THEN SubSeq(entries, start + 1, Len(entries)) ELSE entries BY DEF moved
    <2> QED BY <1>2, <1>3, <1>5, <2>1, <2>2, Stored
  <1> HIDE DEF moved, start
  <1>7. /\ LastCorrection(lastPreCorrMsg', Append(received, e), "pre")
        /\ LastCorrection(lastPostCorrMsg', Append(received, e), "post")
    BY <1>2, <1>3, <1>4, CorrectionKept
  <1>8. BufferTypeOK'
    <2>1. received' \in Seq(Entry) BY <1>2, <1>3, <1>4, Appended
    <2>2. {lastPreCorrMsg', lastPostCorrMsg'} \subseteq Entry \cup {NoMsg} BY <1>2, <1>3, <1>4
    <2>3. lastMsgUTC' \in Nat \cup {NoTime} BY <1>2, <1>3, <1>4 DEF Entry
    <2>4. Len(entries') <= capEntries' BY <1>6 DEF Roomy
    <2> QED BY <1>1, <1>6, <2>1, <2>2, <2>3, <2>4 DEF BufferTypeOK
  <1>9. History(received, sent, utcError, faults)' BY <1>3, SameHistory
  <1>10. Buffered(entries, startIndex, received)' BY <1>3, <1>6
  <1>11. Roomy(Len(entries), startIndex, capEntries)' BY <1>1, <1>6 DEF Roomy
  <1>12. /\ LastCorrection(lastPreCorrMsg, received, "pre")'
         /\ LastCorrection(lastPostCorrMsg, received, "post")'
    <2>1. ASSUME NEW CONSTANT a, NEW CONSTANT ref PROVE Corrects(a, ref)' <=> Corrects(a, ref)
      BY <1>1 DEF Corrects, Type
    <2> QED BY <1>3, <1>7, <2>1 DEF LastCorrection
  <1> QED BY <1>8, <1>9, <1>10, <1>11, <1>12 DEF BufferInv

\* The next message, valid or not, is sent and received.
LEMMA SentKeeps ==
  ASSUME BufferInv, Advance, UNCHANGED env, faults' \in {faults, faults + 1}, faults' <= MaxFaults,
         NEW valid \in BOOLEAN, NEW offset \in {"none", "ok", "big"},
         offset # "none" => valid /\ Offset(sent + 1) # "none", NEW d \in Int,
         Time(Message(sent + 1, ReadAt(sent + 1), valid, offset, d))
  PROVE  BufferInv'
  <1> DEFINE e == Message(sent + 1, ReadAt(sent + 1), valid, offset, d)
  <1>1. /\ receiver \in Receivers /\ sent \in Nat /\ faults \in Nat /\ faults <= MaxFaults
        /\ utcError \in {0, 1} /\ lsError \in {0, 1} /\ sent \in 0 .. MaxSent
    BY DEF BufferInv, BufferTypeOK
  <1>2. MaxSent \in Nat
    <2>1. Len(Types) \in Nat /\ receiver.rate \in Nat /\ MaxSeconds \in Nat
      BY <1>1, Receiver, BufferAssumption
    <2> QED BY <2>1 DEF MaxSent, PerSecond
  <1>3. /\ receiver' = receiver /\ utcError' = utcError /\ lsError' = lsError
        /\ sent' = sent + 1 /\ sent' \in 0 .. MaxSent
    BY <1>1, <1>2 DEF env, Advance
  <1>4. /\ Made(e) /\ Num(e) = sent + 1
        /\ e.utc # NoTime => ErrorOf(e) = utcError
    <2>1. sent + 1 \in Nat \ {0} BY <1>1
    <2> QED BY <1>1, <2>1, MessageMade
  <1>5. faults' \in Nat /\ faults <= faults' /\ faults' \in 0 .. MaxFaults BY <1>1, BufferAssumption
  <1>6. Time(e) OBVIOUS
  <1> HIDE DEF e
  <1>7. History(Append(received, e), sent', utcError', faults')
    <2>1. History(received, sent, utcError, faults) BY DEF BufferInv
    <2>2. History(received, sent, utcError, faults') BY <1>1, <1>5, <2>1, HistoryLater
    <2>3. History(Append(received, e), sent + 1, utcError, faults')
      BY <1>1, <1>4, <1>5, <2>2, HistorySent
    <2> QED BY <1>3, <2>3
  <1> QED BY <1>1, <1>3, <1>4, <1>5, <1>6, <1>7, TimeKeeps

\* Only a message that is no repetition itself is read again.
LEMMA RepeatIsFirst ==
  ASSUME BufferInv, Repeat
  PROVE  Late(received[Len(received)]) = 0
  <1> DEFINE l == received[Len(received)]
  <1>1. /\ receiver \in Receivers /\ sent \in Nat /\ received \in Seq(Entry)
        /\ History(received, sent, utcError, faults)
    BY DEF BufferInv, BufferTypeOK
  <1>2. received # <<>> /\ l.k = Kind(sent) /\ l.tRead = ReadAt(sent) BY DEF Repeat
  <1>3. Made(l) /\ Num(l) <= sent
    <2>1. Len(received) \in 1 .. Len(received) BY <1>1, <1>2
    <2> QED BY <1>1, <2>1 DEF History
  <1> HIDE DEF l
  <1>4. sent \in Nat \ {0} BY <1>1, <1>3, MadeTimes
  <1>5. /\ Kind(sent) \in 1 .. Len(Types) /\ Cycle(ReadAt(sent)) \in Nat
        /\ ReadAt(sent) = Cycle(ReadAt(sent)) * Epoch + Types[Kind(sent)].at
    BY <1>1, <1>4, Sending
  <1>6. Epoch \in Nat /\ Types[Kind(sent)].at \in Nat BY <1>1, <1>5, Receiver
  <1> DEFINE x == Cycle(ReadAt(sent)) * Epoch
             y == Types[Kind(sent)].at
  <1>7. x \in Nat /\ y \in Nat BY <1>5, <1>6
  <1>8. Late(l) = ReadAt(sent) - x - y /\ ReadAt(sent) = x + y BY <1>2, <1>5 DEF Late, Type
  <1> HIDE DEF x, y
  <1> QED BY <1>7, <1>8 DEF l

LEMMA RepeatKeeps ==
  ASSUME BufferInv, Repeat
  PROVE  BufferInv'
  <1> DEFINE l == received[Len(received)]
             e == [l EXCEPT !.tRead = @ + 1]
  <1>1. /\ receiver \in Receivers /\ sent \in Nat /\ faults \in Nat /\ received \in Seq(Entry)
        /\ utcError \in {0, 1} /\ lsError \in {0, 1} /\ sent \in 0 .. MaxSent
        /\ History(received, sent, utcError, faults)
    BY DEF BufferInv, BufferTypeOK
  <1>2. /\ receiver' = receiver /\ utcError' = utcError /\ lsError' = lsError /\ sent' = sent
        /\ faults' = faults + 1 /\ faults' \in 0 .. MaxFaults
        /\ received # <<>> /\ l.k = Kind(sent) /\ l.tRead = ReadAt(sent) /\ Time(e)
    BY <1>1, BufferAssumption DEF Repeat, Fault, env
  <1>3. Made(l) /\ Num(l) <= sent
    <2>1. Len(received) \in 1 .. Len(received) BY <1>1, <1>2
    <2> QED BY <1>1, <2>1 DEF History
  <1> HIDE DEF l
  <1>4. Late(l) = 0 BY RepeatIsFirst DEF l
  <1>5. Again(l, e) BY <1>4 DEF Again
  <1> HIDE DEF e
  <1>6. Made(e) BY <1>1, <1>3, <1>5, SameAgain
  <1>7. History(Append(received, e), sent', utcError', faults')
    <2>1. History(Append(received, e), sent, utcError, faults + 1)
      BY <1>1, <1>2, <1>5, HistoryRepeated DEF l
    <2> QED BY <1>2, <2>1
  <1> QED BY <1>1, <1>2, <1>6, <1>7, TimeKeeps

\* Nothing is received.
LEMMA QuietKeeps ==
  ASSUME BufferInv, UNCHANGED <<receiver, bufVars, received>>,
         sent' \in 0 .. MaxSent, sent <= sent', utcError' \in {0, 1}, utcError' <= utcError,
         lsError' \in {0, 1}, faults' \in 0 .. MaxFaults, faults <= faults'
  PROVE  BufferInv'
  <1>1. /\ receiver \in Receivers /\ sent \in Nat /\ faults \in Nat /\ utcError \in {0, 1}
        /\ History(received, sent, utcError, faults)
    BY DEF BufferInv, BufferTypeOK
  <1>2. /\ receiver' = receiver /\ entries' = entries /\ startIndex' = startIndex
        /\ capEntries' = capEntries /\ lastPreCorrMsg' = lastPreCorrMsg
        /\ lastPostCorrMsg' = lastPostCorrMsg /\ lastMsgUTC' = lastMsgUTC /\ received' = received
    BY DEF bufVars
  <1>3. /\ Types' = Types /\ Epoch' = Epoch /\ MaxSent' = MaxSent /\ WindowSize' = WindowSize
        /\ Entry' = Entry
    BY <1>2, SameReceiver
  <1>4. BufferTypeOK' BY <1>2, <1>3 DEF BufferInv, BufferTypeOK
  <1>5. History(received, sent, utcError, faults)'
    <2>1. sent' \in Nat /\ faults' \in Nat OBVIOUS
    <2>2. History(received, sent', utcError', faults') BY <1>1, <2>1, HistoryLater
    <2> QED BY <1>2, <2>2, SameHistory
  <1>6. Buffered(entries, startIndex, received)' BY <1>2 DEF BufferInv
  <1>7. Roomy(Len(entries), startIndex, capEntries)' BY <1>2, <1>3 DEF BufferInv, Roomy
  <1>8. /\ LastCorrection(lastPreCorrMsg, received, "pre")'
        /\ LastCorrection(lastPostCorrMsg, received, "post")'
    <2>1. ASSUME NEW CONSTANT a, NEW CONSTANT ref PROVE Corrects(a, ref)' <=> Corrects(a, ref)
      BY <1>3 DEF Corrects, Type
    <2> QED BY <1>2, <2>1 DEF BufferInv, LastCorrection
  <1> QED BY <1>4, <1>5, <1>6, <1>7, <1>8 DEF BufferInv

LEMMA InitBufferInv == BufferInit => BufferInv
  <1> SUFFICES ASSUME BufferInit PROVE BufferInv OBVIOUS
  <1>1. /\ receiver \in Receivers /\ sent = 0 /\ faults = 0 /\ entries = <<>> /\ received = <<>>
        /\ startIndex = 0 /\ capEntries = 0 /\ lastPreCorrMsg = NoMsg /\ lastPostCorrMsg = NoMsg
        /\ lastMsgUTC = NoTime /\ utcError \in {0, 1} /\ lsError \in {0, 1 - utcError}
    BY DEF BufferInit
  <1>2. /\ Len(Types) \in Nat /\ receiver.rate \in Nat /\ MaxSeconds \in Nat /\ MaxFaults \in Nat
        /\ ReadWindow \in Nat
    BY <1>1, Receiver, BufferAssumption
  <1>3. MaxSent \in Nat BY <1>2 DEF MaxSent, PerSecond
  <1>4. 0 <= 2 * WindowSize
    <2>1. PerSecond \in Nat BY <1>2 DEF PerSecond
    <2>2. ReadWindow * PerSecond \in Nat BY <1>2, <2>1
    <2> QED BY <1>2, <2>2 DEF WindowSize
  <1>5. BufferTypeOK BY <1>1, <1>2, <1>3 DEF BufferTypeOK
  <1>6. History(received, sent, utcError, faults) BY <1>1 DEF History
  <1>7. Buffered(entries, startIndex, received) BY <1>1 DEF Buffered
  <1>8. Roomy(Len(entries), startIndex, capEntries) BY <1>1, <1>4 DEF Roomy
  <1>9. /\ LastCorrection(lastPreCorrMsg, received, "pre")
        /\ LastCorrection(lastPostCorrMsg, received, "post")
    BY <1>1 DEF LastCorrection
  <1> QED BY <1>5, <1>6, <1>7, <1>8, <1>9 DEF BufferInv

LEMMA StepBufferInv == BufferInv /\ [BufferNext]_msgVars => BufferInv'
  <1> SUFFICES ASSUME BufferInv, [BufferNext]_msgVars PROVE BufferInv' OBVIOUS
  <1>1. /\ receiver \in Receivers /\ sent \in Nat /\ sent \in 0 .. MaxSent
        /\ utcError \in {0, 1} /\ lsError \in {0, 1} /\ faults \in 0 .. MaxFaults
        /\ MaxFaults \in Nat
    BY BufferAssumption DEF BufferInv, BufferTypeOK
  <1>2. MaxSent \in Nat
    <2>1. Len(Types) \in Nat /\ receiver.rate \in Nat /\ MaxSeconds \in Nat
      BY <1>1, Receiver, BufferAssumption
    <2> QED BY <2>1 DEF MaxSent, PerSecond
  <1>3. CASE Send
    <2>1. Offset(sent + 1) \in {"none", "ok", "big"} BY DEF Offset
    <2>2. /\ Advance /\ UNCHANGED env /\ faults' = faults
          /\ \E d \in Types[Kind(sent + 1)].dev :
               Time(Message(sent + 1, ReadAt(sent + 1), TRUE, Offset(sent + 1), d))
      BY <1>3, Zenon DEF Send
    <2>3. PICK d \in Types[Kind(sent + 1)].dev :
            Time(Message(sent + 1, ReadAt(sent + 1), TRUE, Offset(sent + 1), d))
      BY <2>2
    <2>4. sent + 1 \in Nat \ {0} BY <1>1
    <2>5. d \in Int BY <1>1, <2>4, Deviations
    <2>6. faults' \in {faults, faults + 1} /\ faults' <= MaxFaults BY <1>1, <2>2
    <2> QED BY <2>1, <2>2, <2>3, <2>5, <2>6, SentKeeps
  <1>4. CASE SendInvalid
    <2>1. /\ Advance /\ UNCHANGED env /\ faults < MaxFaults /\ faults' = faults + 1
          /\ Time(Message(sent + 1, ReadAt(sent + 1), FALSE, "none", 0))
      BY <1>4, Zenon DEF SendInvalid, Fault
    <2>2. faults' \in {faults, faults + 1} /\ faults' <= MaxFaults BY <1>1, <2>1
    <2>3. 0 \in Int OBVIOUS
    <2> QED BY <2>1, <2>2, <2>3, SentKeeps
  <1>5. CASE SendBigOffset
    <2>1. /\ Advance /\ UNCHANGED env /\ faults < MaxFaults /\ faults' = faults + 1
          /\ Offset(sent + 1) # "none"
          /\ Time(Message(sent + 1, ReadAt(sent + 1), TRUE, "big", 0))
      BY <1>5, Zenon DEF SendBigOffset, Fault
    <2>2. faults' \in {faults, faults + 1} /\ faults' <= MaxFaults BY <1>1, <2>1
    <2>3. 0 \in Int OBVIOUS
    <2> QED BY <2>1, <2>2, <2>3, SentKeeps
  <1>6. CASE Repeat BY <1>6, RepeatKeeps
  <1>7. CASE Lose
    <2>1. /\ UNCHANGED <<receiver, bufVars, received>> /\ utcError' = utcError /\ lsError' = lsError
          /\ sent < MaxSent /\ sent' = sent + 1 /\ faults < MaxFaults /\ faults' = faults + 1
      BY <1>7 DEF Lose, Advance, Fault, env
    <2>2. /\ sent' \in 0 .. MaxSent /\ sent <= sent' /\ utcError' \in {0, 1} /\ utcError' <= utcError
          /\ lsError' \in {0, 1} /\ faults' \in 0 .. MaxFaults /\ faults <= faults'
      BY <1>1, <1>2, <2>1
    <2> QED BY <2>1, <2>2, QuietKeeps
  <1>8. CASE CorrectUTC \/ LeapSecond \/ UNCHANGED msgVars
    <2>1. /\ UNCHANGED <<receiver, bufVars, received>> /\ sent' = sent /\ faults' = faults
          /\ utcError' \in {0, utcError} /\ lsError' \in {0, lsError}
      BY <1>8 DEF CorrectUTC, LeapSecond, msgVars
    <2>2. /\ sent' \in 0 .. MaxSent /\ sent <= sent' /\ utcError' \in {0, 1} /\ utcError' <= utcError
          /\ lsError' \in {0, 1} /\ faults' \in 0 .. MaxFaults /\ faults <= faults'
      BY <1>1, <2>1
    <2> QED BY <2>1, <2>2, QuietKeeps
  <1> QED BY <1>3, <1>4, <1>5, <1>6, <1>7, <1>8 DEF BufferNext

\* The buffer holds the end of what was received, in the order in which it was sent, with
\* the window marked in it, and remembers the last corrections of both kinds (the
\* invariant that the theorems below rest on).
THEOREM BufferInvariance == BufferSpec => []BufferInv
  <1> QED BY InitBufferInv, StepBufferInv, PTL DEF BufferSpec

-----------------------------------------------------------------------------
(* The buffer holds just the read window. *)

\* What the buffer holds, by what was received.
LEMMA ValidIs ==
  ASSUME BufferInv
  PROVE  /\ validEntries \in Seq(Entry) /\ Len(validEntries) \in Nat
         /\ received \in Seq(Entry) /\ Len(received) \in Nat
         /\ Len(validEntries) <= Len(received)
         /\ \A i \in 1 .. Len(validEntries) :
              validEntries[i] = received[Len(received) - Len(validEntries) + i]
         /\ \A i \in 1 .. Len(received) :
              i <= Len(received) - Len(validEntries)
                <=> received[i].tRead < received[Len(received)].tRead - ReadWindow * Second
  <1> DEFINE N   == Len(received)
             len == Len(entries)
             v   == Len(validEntries)
  <1>1. /\ entries \in Seq(Entry) /\ startIndex \in 0 .. len /\ received \in Seq(Entry)
        /\ len \in Nat /\ N \in Nat /\ Buffered(entries, startIndex, received)
    BY DEF BufferInv, BufferTypeOK
  <1>2. /\ validEntries \in Seq(Entry) /\ v = len - startIndex
        /\ \A i \in 1 .. len - startIndex : validEntries[i] = entries[startIndex + i]
    BY <1>1, EndOf DEF validEntries
  <1>3. /\ len <= N
        /\ \A i \in 1 .. len : entries[i] = received[N - len + i]
        /\ \A i \in 1 .. N :
             i <= N - len + startIndex <=> received[i].tRead < received[N].tRead - ReadWindow * Second
    BY <1>1 DEF Buffered
  <1> HIDE DEF N, len, v
  <1>4. v \in Nat /\ v <= N /\ N - v = N - len + startIndex BY <1>1, <1>2, <1>3
  <1>5. ASSUME NEW i \in 1 .. v PROVE validEntries[i] = received[N - v + i]
    <2>1. i \in 1 .. len - startIndex /\ startIndex + i \in 1 .. len
          /\ N - len + (startIndex + i) = N - v + i
      BY <1>1, <1>2, <1>3
    <2> QED BY <1>2, <1>3, <2>1
  <1>6. \A i \in 1 .. N : i <= N - v <=> received[i].tRead < received[N].tRead - ReadWindow * Second
    BY <1>3, <1>4
  <1> QED BY <1>1, <1>2, <1>4, <1>5, <1>6 DEF N, v

LEMMA WindowIsKept == BufferInv => WindowKept
  <1> SUFFICES ASSUME BufferInv PROVE WindowKept OBVIOUS
  <1> DEFINE N == Len(received)
             v == Len(validEntries)
             d == N - v
             S == SubSeq(received, d + 1, N)
  <1>1. /\ validEntries \in Seq(Entry) /\ v \in Nat /\ received \in Seq(Entry) /\ N \in Nat /\ v <= N
        /\ \A i \in 1 .. v : validEntries[i] = received[N - v + i]
        /\ \A i \in 1 .. N : i <= N - v <=> received[i].tRead < received[N].tRead - ReadWindow * Second
    BY ValidIs
  <1>2. d \in 0 .. N BY <1>1
  <1>3. /\ S \in Seq(Entry) /\ Len(S) = N - d
        /\ \A i \in 1 .. N - d : S[i] = received[d + i]
    BY <1>1, <1>2, EndOf
  <1>4. N - d = v BY <1>1
  <1> HIDE DEF S
  <1>5. validEntries = S
    <2>1. Len(validEntries) = Len(S) /\ \A i \in 1 .. Len(validEntries) : validEntries[i] = S[i]
      BY <1>1, <1>3, <1>4
    <2> QED BY <1>1, <1>3, <2>1, SeqEqual
  <1>6. \A i \in 1 .. N : i <= d <=> received[i].tRead < LastRead.tRead - ReadWindow * Second
    BY <1>1 DEF LastRead
  <1> QED BY <1>2, <1>5, <1>6 DEF WindowKept, S

\* The buffer holds what was received in the read window and nothing else, however the
\* entries are moved within the slice (compacting and appending in store), and the slice
\* does not grow beyond twice what the read window needs.
THEOREM BufferIsExact == BufferSpec => []BufferExact
  <1>1. BufferInv => BufferExact BY WindowIsKept DEF BufferInv, BufferExact, Roomy, SliceBounded
  <1> QED BY <1>1, BufferInvariance, PTL

-----------------------------------------------------------------------------
(* The UTC times passed on. *)

LEMMA TimePassesOn ==
  ASSUME BufferInv, NEW e, Made(e), Time(e), lastMsgUTC' # lastMsgUTC
  PROVE  /\ lastMsgUTC' > lastMsgUTC
         /\ lastMsgUTC' = StartOf(Epoch, LastRead'.tRead) + ErrorOf(LastRead') * Second
  <1>1. receiver \in Receivers /\ received \in Seq(Entry) /\ e \in Entry
    BY DEF BufferInv, BufferTypeOK, Made
  <1>2. PassedOn(e) /\ lastMsgUTC' = e.utc /\ received' = Append(received, e) BY DEF Time
  <1>3. LastRead' = e
    <2>1. /\ Len(Append(received, e)) = Len(received) + 1
          /\ Append(received, e)[Len(received) + 1] = e
      BY <1>1, Appended
    <2> QED BY <1>2, <2>1 DEF LastRead
  <1>4. e.utc # NoTime /\ Type(e).ref # "pre" /\ e.utc > lastMsgUTC BY <1>2 DEF PassedOn
  <1>5. e.utc = Due(e) + ErrorOf(e) * Second BY <1>1, <1>4, MadeUTC
  <1>6. Due(e) = StartOf(Epoch, e.tRead) BY <1>4 DEF Due, Nominal, Type
  <1> QED BY <1>2, <1>3, <1>4, <1>5, <1>6

\* What a step takes in was sent by the receiver.
LEMMA StepMade ==
  ASSUME BufferInv, BufferNext, lastMsgUTC' # lastMsgUTC
  PROVE  \E e : Made(e) /\ Time(e)
  <1>1. /\ receiver \in Receivers /\ sent + 1 \in Nat \ {0} /\ utcError \in {0, 1}
        /\ received \in Seq(Entry) /\ History(received, sent, utcError, faults)
    BY DEF BufferInv, BufferTypeOK
  <1>2. Offset(sent + 1) \in {"none", "ok", "big"} /\ 0 \in Int BY DEF Offset
  <1>3. CASE Send
    <2>1. PICK d \in Types[Kind(sent + 1)].dev :
            Time(Message(sent + 1, ReadAt(sent + 1), TRUE, Offset(sent + 1), d))
      BY <1>3 DEF Send
    <2>2. d \in Int BY <1>1, Deviations
    <2>3. Made(Message(sent + 1, ReadAt(sent + 1), TRUE, Offset(sent + 1), d))
      BY <1>1, <1>2, <2>2, MessageMade
    <2> QED BY <2>1, <2>3
  <1>4. CASE SendInvalid
    <2>1. Time(Message(sent + 1, ReadAt(sent + 1), FALSE, "none", 0)) BY <1>4 DEF SendInvalid
    <2>2. Made(Message(sent + 1, ReadAt(sent + 1), FALSE, "none", 0)) BY <1>1, <1>2, MessageMade
    <2> QED BY <2>1, <2>2
  <1>5. CASE SendBigOffset
    <2>1. Time(Message(sent + 1, ReadAt(sent + 1), TRUE, "big", 0)) /\ Offset(sent + 1) # "none"
      BY <1>5 DEF SendBigOffset
    <2>2. Made(Message(sent + 1, ReadAt(sent + 1), TRUE, "big", 0)) BY <1>1, <1>2, <2>1, MessageMade
    <2> QED BY <2>1, <2>2
  <1>6. CASE Repeat
    <2> DEFINE l == received[Len(received)]
               e == [l EXCEPT !.tRead = @ + 1]
    <2>1. received # <<>> /\ Time(e) BY <1>6 DEF Repeat
    <2>2. Len(received) \in 1 .. Len(received) BY <1>1, <2>1
    <2>3. Late(l) = 0
      <3>1. BufferInv /\ Repeat BY <1>6
      <3> QED BY <3>1, RepeatIsFirst
    <2>4. Made(e) BY <1>1, <2>2, <2>3, SameAgain DEF History, Again
    <2> QED BY <2>1, <2>4
  <1>7. CASE Lose \/ CorrectUTC \/ LeapSecond
    BY <1>7 DEF Lose, CorrectUTC, LeapSecond, bufVars
  <1> QED BY <1>3, <1>4, <1>5, <1>6, <1>7 DEF BufferNext

\* Every UTC time passed on to the sink (msgUTCTime) is that of the epoch in which its
\* message was read and is later than the one before, whatever is lost, repeated or invalid
\* and whenever the receiver corrects its UTC time.
THEOREM UtcPassedOnce == BufferSpec => UtcOncePerEpoch
  <1>1. BufferInv /\ [BufferNext]_msgVars =>
          [lastMsgUTC' # lastMsgUTC =>
             /\ lastMsgUTC' > lastMsgUTC
             /\ lastMsgUTC' = StartOf(Epoch, LastRead'.tRead) + ErrorOf(LastRead') * Second]_msgVars
    <2> SUFFICES ASSUME BufferInv, BufferNext, lastMsgUTC' # lastMsgUTC
                 PROVE  /\ lastMsgUTC' > lastMsgUTC
                        /\ lastMsgUTC' = StartOf(Epoch, LastRead'.tRead) + ErrorOf(LastRead') * Second
      OBVIOUS
    <2>1. PICK e : Made(e) /\ Time(e) BY StepMade
    <2> QED BY <2>1, TimePassesOn
  <1> QED BY <1>1, BufferInvariance, PTL DEF BufferSpec, UtcOncePerEpoch

-----------------------------------------------------------------------------
(* Leaps. *)

\* The messages in the buffer are in the order of what was received.
LEMMA ValidOrder ==
  ASSUME BufferInv
  PROVE  /\ receiver \in Receivers
         /\ \A i \in 1 .. Len(validEntries) : Made(validEntries[i])
         /\ \A i, j \in 1 .. Len(validEntries) : i < j => After(validEntries[i], validEntries[j])
         /\ Len(validEntries) # 0 => validEntries[Len(validEntries)] = LastRead
  <1> DEFINE N == Len(received)
             v == Len(validEntries)
             es == validEntries
  <1>1. /\ v \in Nat /\ N \in Nat /\ v <= N
        /\ \A i \in 1 .. v : es[i] = received[N - v + i]
    BY ValidIs
  <1>2. receiver \in Receivers /\ History(received, sent, utcError, faults)
    BY DEF BufferInv, BufferTypeOK
  <1>3. /\ \A i \in 1 .. N : Made(received[i])
        /\ \A i, j \in 1 .. N : i < j => After(received[i], received[j])
    BY <1>2 DEF History
  <1> HIDE DEF N, v, es
  <1>4. \A i \in 1 .. v : N - v + i \in 1 .. N BY <1>1
  <1>5. \A i \in 1 .. v : Made(es[i]) BY <1>1, <1>3, <1>4
  <1>6. \A i, j \in 1 .. v : i < j => After(es[i], es[j])
    <2> SUFFICES ASSUME NEW i \in 1 .. v, NEW j \in 1 .. v, i < j PROVE After(es[i], es[j])
      OBVIOUS
    <2>1. N - v + i \in 1 .. N /\ N - v + j \in 1 .. N /\ N - v + i < N - v + j BY <1>1
    <2> QED BY <1>1, <1>3, <2>1
  <1>7. v # 0 => es[v] = LastRead
    <2>1. v # 0 => v \in 1 .. v /\ N - v + v = N BY <1>1
    <2> QED BY <1>1, <2>1 DEF LastRead, N
  <1> QED BY <1>2, <1>5, <1>6, <1>7 DEF v, es

\* Two messages of a type show a leap just when the receiver has corrected its UTC time
\* between them and they are less than a second apart, or a second apart and the time of
\* the later one does not deviate by more.
LEMMA LeapPair ==
  ASSUME receiver \in Receivers, NEW a, NEW b, Made(a), Made(b), After(a, b), a.k = b.k, b.utc # NoTime
  PROVE  (a.utc # NoTime /\ IsLeap(a, b)) <=>
           /\ ErrorOf(a) = 1 /\ ErrorOf(b) = 0 /\ Due(b) - Due(a) <= Second
           /\ Due(b) - Due(a) < Second \/ b.dev <= a.dev
  <1> DEFINE ca == Cycle(a.tRead)
             cb == Cycle(b.tRead)
             x  == ca * Epoch
             y  == cb * Epoch
             g  == Ahead(a.k) * Epoch
             at == Type(a).at
             ra == a.tRead
             rb == b.tRead
             la == Late(a)
             lb == Late(b)
             ea == ErrorOf(a)
             eb == ErrorOf(b)
  <1>1. Second \in Nat \ {0} /\ Epoch \in Nat \ {0} /\ Epoch <= Second BY Receiver
  <1>2. MinDelta \in Nat /\ 1 < MinDelta /\ MinDelta < Second BY BufferAssumption, ReceiversAssumption
  <1>3. /\ ca \in Nat /\ x \in Nat /\ ra \in Nat /\ ra = x + at + la /\ a.k \in 1 .. Len(Types)
        /\ Due(a) = (ca + Ahead(a.k)) * Epoch /\ Type(a) = Types[a.k]
    BY MadeTimes
  <1>4. /\ cb \in Nat /\ y \in Nat /\ rb \in Nat /\ rb = y + Type(b).at + lb
        /\ Due(b) = (cb + Ahead(b.k)) * Epoch
    BY MadeTimes
  <1>5. la \in {0, 1} /\ lb \in {0, 1} BY DEF Made
  <1>6. Type(b) = Type(a) BY DEF Type
  <1>7. at \in Nat BY <1>3, Receiver
  <1>8. g \in Nat /\ Due(a) = x + g /\ Due(b) = y + g
    <2>1. Ahead(a.k) \in Nat BY DEF Ahead
    <2>2. g \in Nat BY <1>1, <2>1
    <2>3. (ca + Ahead(a.k)) * Epoch = x + g BY ONLY <1>1, <1>3, <2>1
    <2>4. (cb + Ahead(a.k)) * Epoch = y + g BY ONLY <1>1, <1>4, <2>1
    <2> QED BY <1>3, <1>4, <2>2, <2>3, <2>4
  <1>9. ca <= cb BY InOrder
  <1>10. x <= y BY <1>1, <1>3, <1>4, <1>9, Product
  <1>11. ea \in {0, 1} /\ eb \in {0, 1} BY MadeUTC
  <1>12. b.utc = y + g + eb * Second BY <1>8, MadeUTC
  <1>13. a.utc # NoTime => a.utc = x + g + ea * Second /\ eb <= ea BY <1>8, MadeUTC DEF After
  <1>14. ea = 1 => a.utc # NoTime BY DEF ErrorOf
  <1>15. x = y => rb = ra + 1 /\ b.dev = a.dev
    <2>1. x = y => ca = cb
      <3>1. ASSUME x = y PROVE ~(ca < cb)
        <4>1. ca < cb => x + Epoch <= y
          <5>1. ca \in Int /\ cb \in Int /\ Epoch \in Nat BY <1>1, <1>3, <1>4
          <5> HIDE DEF ca, cb
          <5> QED BY ONLY <5>1, ProductStrict
        <4>2. ~(x + Epoch <= y)
          <5>1. x \in Nat /\ Epoch \in Nat \ {0} /\ x = y BY <1>1, <1>3, <3>1
          <5> HIDE DEF x, y
          <5> QED BY ONLY <5>1
        <4> QED BY <4>1, <4>2
      <3> QED BY <1>3, <1>4, <1>9, <3>1
    <2>2. ca = cb => Again(a, b) BY InOrder
    <2>3. Again(a, b) => rb = ra + 1 /\ b.dev = a.dev BY SameAgain
    <2> QED BY <2>1, <2>2, <2>3
  <1>16. rb = y + at + lb BY <1>4, <1>6
  <1> DEFINE da == a.dev
             db == b.dev
  <1>17. IsLeap(a, b) <=>
           \/ b.utc < a.utc
           \/ b.utc = a.utc /\ (db < da \/ (db = da /\ rb - ra >= MinDelta))
    BY DEF IsLeap
  <1>18. Due(b) - Due(a) = y - x BY <1>3, <1>4, <1>8
  <1>21. da \in Int /\ db \in Int BY DEF Made, Entry
  <1>22. x = y => rb = ra + 1 /\ db = da BY <1>15
  <1> HIDE DEF ca, cb, x, y, g, at, ra, rb, la, lb, ea, eb, da, db
  <1>19. ASSUME ea = 1, eb = 0, y - x <= Second, y - x < Second \/ db <= da
         PROVE  a.utc # NoTime /\ IsLeap(a, b)
    <2>1. a.utc # NoTime /\ a.utc = x + g + Second /\ b.utc = y + g
      BY <1>1, <1>3, <1>4, <1>8, <1>12, <1>13, <1>14, <1>19
    <2>2. x \in Nat /\ y \in Nat /\ g \in Nat /\ Second \in Nat BY <1>1, <1>3, <1>4, <1>8
    <2>3. CASE y - x < Second
      <3>1. b.utc < a.utc BY ONLY <2>1, <2>3, <2>2
      <3> QED BY <1>17, <2>1, <3>1
    <2>4. CASE y - x = Second
      <3>1. b.utc = a.utc BY ONLY <2>1, <2>4, <2>2
      <3>2. at \in Nat /\ ra = x + at + la /\ rb = y + at + lb BY <1>3, <1>7, <1>16
      <3>3. rb - ra >= Second - 1 BY ONLY <1>5, <2>4, <2>2, <3>2
      <3>4. ra \in Nat /\ rb \in Nat BY <1>3, <1>4
      <3>5. rb - ra >= MinDelta BY ONLY <1>2, <2>2, <3>3, <3>4
      <3>6. db < da \/ db = da BY ONLY <1>19, <1>21, <2>2, <2>4
      <3> QED BY <1>17, <2>1, <3>1, <3>5, <3>6
    <2> QED BY ONLY <1>19, <2>3, <2>4, <2>2
  <1>20. ASSUME a.utc # NoTime, IsLeap(a, b)
         PROVE  ea = 1 /\ eb = 0 /\ y - x <= Second /\ (y - x < Second \/ db <= da)
    <2>1. a.utc = x + g + ea * Second /\ eb <= ea BY <1>13, <1>20
    <2>2. ASSUME ea = eb PROVE FALSE
      <3>1. ea * Second \in Nat BY <1>1, <1>11
      <3>2. ~(b.utc < a.utc) BY <1>3, <1>4, <1>8, <1>10, <1>12, <2>1, <2>2, <3>1
      <3>3. b.utc = a.utc => x = y BY <1>3, <1>4, <1>8, <1>12, <2>1, <2>2, <3>1
      <3>4. rb = ra + 1 /\ db = da /\ (db < da \/ rb - ra >= MinDelta)
        BY <1>17, <1>20, <1>22, <3>2, <3>3
      <3> QED BY ONLY <1>2, <1>3, <1>4, <1>21, <3>4
    <2>3. ea = 1 /\ eb = 0 BY <1>11, <2>1, <2>2
    <2>4. a.utc = x + g + Second /\ b.utc = y + g BY <1>1, <1>3, <1>4, <1>8, <1>12, <2>1, <2>3
    <2>5. b.utc <= a.utc BY <1>1, <1>3, <1>4, <1>8, <1>17, <1>20, <2>4
    <2>6. y - x <= Second BY ONLY <1>1, <1>3, <1>4, <1>8, <2>4, <2>5
    <2>7. y - x < Second \/ db <= da
      <3>1. b.utc = a.utc => db <= da BY <1>3, <1>4, <1>8, <1>1, <1>17, <1>20, <1>21, <2>4
      <3>2. b.utc < a.utc => y - x < Second BY ONLY <1>1, <1>3, <1>4, <1>8, <2>4
      <3> QED BY <1>17, <1>20, <3>1, <3>2
    <2> QED BY <2>3, <2>6, <2>7
  <1> QED BY <1>18, <1>19, <1>20 DEF ea, eb, da, db

LEMMA LeapsAreExact == BufferInv => LeapExact
  <1> SUFFICES ASSUME BufferInv, NEW k \in 1 .. Len(Types)
               PROVE  detectInvalidLeap(k) <=>
                        \E i \in CorrectedSince(k) :
                          \/ EpochsBetween(validEntries[i]) < Second
                          \/ LastRead.dev <= validEntries[i].dev
    BY DEF LeapExact
  <1> DEFINE es == validEntries
             v == Len(es)
             Shows(e) == /\ e.k = k /\ LastRead.k = k /\ ErrorOf(e) = 1
                         /\ LastRead.utc # NoTime /\ ErrorOf(LastRead) = 0
                         /\ EpochsBetween(e) <= Second
                         /\ EpochsBetween(e) < Second \/ LastRead.dev <= e.dev
             before == {i \in 1 .. v - 1 : es[i].k = k}
  <1>1. /\ receiver \in Receivers
        /\ \A i \in 1 .. v : Made(es[i])
        /\ \A i, j \in 1 .. v : i < j => After(es[i], es[j])
        /\ v # 0 => es[v] = LastRead
    BY ValidOrder
  <1>2. v \in Nat /\ es \in Seq(Entry) BY ValidIs
  <1>3. es = <<>> <=> v = 0 BY <1>2
  <1>4. detectInvalidLeap(k) <=> /\ es # <<>> /\ es[v].k = k /\ es[v].utc # NoTime
                                 /\ before # {}
                                 /\ es[Last(before)].utc # NoTime /\ IsLeap(es[Last(before)], es[v])
    BY DEF detectInvalidLeap
  <1>11. (\E i \in CorrectedSince(k) :
            EpochsBetween(validEntries[i]) < Second \/ LastRead.dev <= validEntries[i].dev)
         <=> \E i \in 1 .. v - 1 : Shows(es[i]) /\ \A j \in i + 1 .. v - 1 : es[j].k # k
    BY DEF CorrectedSince
  <1> HIDE DEF es, v
  \* A message of the type before the last one, and the last one.
  <1>5. ASSUME NEW i \in 1 .. v - 1, es[i].k = k, es[v].k = k, es[v].utc # NoTime
        PROVE  (es[i].utc # NoTime /\ IsLeap(es[i], es[v])) <=>
                 /\ ErrorOf(es[i]) = 1 /\ ErrorOf(es[v]) = 0 /\ Due(es[v]) - Due(es[i]) <= Second
                 /\ Due(es[v]) - Due(es[i]) < Second \/ es[v].dev <= es[i].dev
    <2>1. i \in 1 .. v /\ v \in 1 .. v /\ i < v BY <1>2
    <2>2. Made(es[i]) /\ Made(es[v]) /\ After(es[i], es[v]) BY <1>1, <2>1
    <2> QED BY <1>1, <1>5, <2>2, LeapPair
  <1>6. ASSUME NEW i \in 1 .. v - 1, es[i].k = k, \A j \in i + 1 .. v - 1 : es[j].k # k
        PROVE  before # {} /\ Last(before) = i
    <2>1. i \in before BY <1>6
    <2>2. before \subseteq 0 .. v /\ before # {} BY <1>2, <2>1
    <2> HIDE DEF before
    <2>3. Last(before) \in before /\ i <= Last(before) BY <1>2, <2>1, <2>2, LastIs
    <2>4. Last(before) \in 1 .. v - 1 /\ es[Last(before)].k = k BY <2>3 DEF before
    <2>5. ~(Last(before) \in i + 1 .. v - 1) BY <1>6, <2>4
    <2> QED BY <1>2, <2>2, <2>3, <2>4, <2>5
  <1>7. ASSUME before # {}
        PROVE  /\ Last(before) \in 1 .. v - 1 /\ es[Last(before)].k = k
               /\ \A j \in Last(before) + 1 .. v - 1 : es[j].k # k
    <2>1. before \subseteq 0 .. v BY <1>2
    <2> DEFINE l == Last(before)
    <2>2. l \in before /\ \A j \in before : j <= l
      <3> HIDE DEF before
      <3> QED BY <1>2, <1>7, <2>1, LastIs
    <2>3. l \in 1 .. v - 1 /\ es[l].k = k BY <2>2
    <2> HIDE DEF l
    <2>4. ASSUME NEW j \in l + 1 .. v - 1 PROVE es[j].k # k
      <3>1. j \in 1 .. v - 1 /\ ~(j <= l) BY <1>2, <2>3
      <3> QED BY <2>2, <3>1
    <2> QED BY <2>3, <2>4 DEF l
  <1>8. v # 0 => es[v] = LastRead BY <1>1
  <1> HIDE DEF before
  <1>9. ASSUME detectInvalidLeap(k)
        PROVE  \E i \in 1 .. v - 1 : Shows(es[i]) /\ \A j \in i + 1 .. v - 1 : es[j].k # k
    <2> DEFINE i == Last(before)
    <2>1. /\ es # <<>> /\ es[v].k = k /\ es[v].utc # NoTime /\ before # {}
          /\ es[i].utc # NoTime /\ IsLeap(es[i], es[v])
      BY <1>4, <1>9
    <2>2. i \in 1 .. v - 1 /\ es[i].k = k /\ \A j \in i + 1 .. v - 1 : es[j].k # k BY <1>7, <2>1
    <2>3. es[v] = LastRead BY <1>3, <1>8, <2>1
    <2> HIDE DEF i
    <2>4. /\ ErrorOf(es[i]) = 1 /\ ErrorOf(es[v]) = 0 /\ Due(es[v]) - Due(es[i]) <= Second
          /\ Due(es[v]) - Due(es[i]) < Second \/ es[v].dev <= es[i].dev
      BY <1>5, <2>1, <2>2
    <2>5. EpochsBetween(es[i]) = Due(es[v]) - Due(es[i]) BY <2>3 DEF EpochsBetween, Due
    <2>6. Shows(es[i]) BY <2>1, <2>2, <2>3, <2>4, <2>5
    <2> QED BY <2>2, <2>6
  <1>10. ASSUME NEW i \in 1 .. v - 1, Shows(es[i]), \A j \in i + 1 .. v - 1 : es[j].k # k
         PROVE  detectInvalidLeap(k)
    <2>1. v # 0 /\ es[v] = LastRead /\ es # <<>> BY <1>2, <1>3, <1>8
    <2>2. before # {} /\ Last(before) = i BY <1>6, <1>10
    <2>3. EpochsBetween(es[i]) = Due(es[v]) - Due(es[i]) BY <2>1 DEF EpochsBetween, Due
    <2>4. es[i].utc # NoTime /\ IsLeap(es[i], es[v]) BY <1>5, <1>10, <2>1, <2>3
    <2> QED BY <1>4, <1>10, <2>1, <2>2, <2>4
  <1> QED BY <1>9, <1>10, <1>11

\* A leap is detected (detectInvalidLeap) just when the receiver has corrected its UTC time
\* between two messages of the type that are less than a second apart, or a second apart
\* with a later time that does not deviate by more: neither repeated or lost messages, nor
\* other types, nor deviations set off a false alarm.
THEOREM LeapsExact == BufferSpec => []LeapExact
  <1> QED BY LeapsAreExact, BufferInvariance, PTL

-----------------------------------------------------------------------------
(* The corrections. *)

About(e, ref) == e.offset # "none" /\ e.tai = ref

\* There is one type of message of each kind of correction, and it is sent once a second.
LEMMA OneCorrection ==
  ASSUME receiver \in Receivers, NEW a, NEW b, Made(a), Made(b), a.offset # "none",
         Type(b).ref = Type(a).ref
  PROVE  /\ Type(a).ref \in {"pre", "post"} /\ Epoch = Second /\ b.k = a.k
         /\ b.offset # "none" /\ a.tai # NoTime => b.tai = Due(b)
  <1>1. a.k \in 1 .. Len(Types) /\ b.k \in 1 .. Len(Types) /\ Type(a) = Types[a.k] /\ Type(b) = Types[b.k]
    BY MadeTimes
  <1>2. Valid(a) /\ Type(a).corr = "yes" BY DEF Made
  <1>3. Type(a).ref # "nav" BY <1>1, <1>2, Receiver
  <1>4. Type(a).ref \in {"nav", "pre", "post"}
    <2>1. Types[a.k] \in MsgType BY <1>1, Receiver
    <2> QED BY <1>1, <2>1 DEF MsgType
  <1>5. Epoch = Second BY <1>1, <1>3, Receiver
  <1>6. b.k = a.k BY <1>1, <1>3, Receiver
  <1>7. ASSUME b.offset # "none", a.tai # NoTime PROVE b.tai = Due(b)
    <2>1. Type(a).scale # "utc" BY <1>2, <1>7 DEF Made
    <2>2. Valid(b) BY <1>7 DEF Made
    <2>3. Type(b).scale # "utc" BY <1>6, <2>1 DEF Type
    <2> QED BY <2>2, <2>3 DEF Made
  <1> QED BY <1>3, <1>4, <1>5, <1>6, <1>7

\* The last correction of a kind is about a pulse at least as late as the others.
LEMMA LastIsLatest ==
  ASSUME BufferInv, NEW i \in 1 .. Len(validEntries), NEW r, NEW m, LastCorrection(m, received, r),
         NEW ref, About(validEntries[i], ref), ref # NoTime, Type(validEntries[i]).ref = r
  PROVE  /\ m # NoMsg
         /\ \E l \in i .. Len(validEntries) : m = validEntries[l]
         /\ m.offset # "none" /\ Type(m).ref = r /\ m.k = validEntries[i].k
         /\ m.tai = Due(m) /\ m.tai \in Nat /\ ref \in Nat /\ ref <= m.tai
  <1> DEFINE N == Len(received)
             v == Len(validEntries)
             a == validEntries[i]
  <1>1. /\ v \in Nat /\ N \in Nat /\ v <= N
        /\ \A j \in 1 .. v : validEntries[j] = received[N - v + j]
    BY ValidIs
  <1>2. /\ receiver \in Receivers
        /\ \A j \in 1 .. v : Made(validEntries[j])
        /\ \A j, l \in 1 .. v : j < l => After(validEntries[j], validEntries[l])
    BY ValidOrder
  <1>3. a.offset # "none" /\ a.tai = ref /\ Made(a) BY <1>2 DEF About
  <1> HIDE DEF N, v
  <1>4. N - v + i \in 1 .. N /\ received[N - v + i] = a BY <1>1 DEF v
  <1>5. Corrects(received[N - v + i], r) BY <1>3, <1>4 DEF Corrects
  <1>6. PICK q \in 1 .. N : /\ m = received[q] /\ Corrects(received[q], r)
                            /\ \A j \in q + 1 .. N : ~Corrects(received[j], r)
    BY <1>4, <1>5 DEF LastCorrection, N
  <1>7. N - v + i <= q
    <2>1. ~(N - v + i \in q + 1 .. N) BY <1>5, <1>6
    <2> QED BY <1>1, <1>4, <1>6, <2>1
  <1> DEFINE l == q - (N - v)
  <1>8. l \in i .. v /\ l \in 1 .. v /\ N - v + l = q BY <1>1, <1>6, <1>7 DEF v
  <1>9. m = validEntries[l] BY <1>1, <1>6, <1>8
  <1> HIDE DEF l
  <1>10. Made(m) /\ m.offset # "none" /\ Type(m).ref = r BY <1>2, <1>6, <1>8, <1>9 DEF Corrects
  <1>11. m # NoMsg
    <2>1. m.k # 0 BY <1>2, <1>10, MadeTimes
    <2> QED BY <2>1 DEF NoMsg
  <1>12. Epoch = Second /\ m.k = a.k /\ m.tai = Due(m) BY <1>2, <1>3, <1>10, OneCorrection
  <1>13. ref = Due(a) BY <1>3 DEF Made
  <1>14. Due(a) \in Nat /\ Due(m) \in Nat BY <1>2, <1>3, <1>10, MadeTimes
  <1>15. Due(a) <= Due(m)
    <2>1. CASE l = i BY <1>9, <1>14, <2>1
    <2>2. CASE i < l
      <3>1. After(a, m)
        <4>1. i \in 1 .. v BY DEF v
        <4> QED BY <1>2, <1>8, <1>9, <2>2, <4>1
      <3>2. Cycle(a.tRead) <= Cycle(m.tRead) BY <1>2, <1>3, <1>10, <3>1, InOrder
      <3>3. /\ Due(a) = (Cycle(a.tRead) + Ahead(a.k)) * Epoch /\ Cycle(a.tRead) \in Nat
            /\ Due(m) = (Cycle(m.tRead) + Ahead(a.k)) * Epoch /\ Cycle(m.tRead) \in Nat
        BY <1>2, <1>3, <1>10, <1>12, MadeTimes
      <3>4. Ahead(a.k) \in Nat /\ Epoch \in Nat BY <1>2, Receiver DEF Ahead
      <3>5. Cycle(a.tRead) + Ahead(a.k) <= Cycle(m.tRead) + Ahead(a.k) BY <3>2, <3>3, <3>4
      <3>6. Cycle(a.tRead) + Ahead(a.k) \in Int /\ Cycle(m.tRead) + Ahead(a.k) \in Int BY <3>3, <3>4
      <3> QED BY <3>3, <3>4, <3>5, <3>6, Product
    <2> QED BY <1>8, <2>1, <2>2
  <1>16. ref \in Nat /\ m.tai \in Nat /\ ref <= m.tai BY <1>12, <1>13, <1>14, <1>15
  <1> QED BY <1>8, <1>9, <1>10, <1>11, <1>12, <1>16 DEF v

\* If there is a correction of that kind for the pulse of this second, the search that
\* begins with the last one of that kind finds a correction for that pulse.
LEMMA SearchFinds ==
  ASSUME BufferInv, NEW i \in 1 .. Len(validEntries), NEW r, NEW m, LastCorrection(m, received, r),
         About(validEntries[i], StartOf(Second, LastRead.tRead)), Type(validEntries[i]).ref = r
  PROVE  LET ref == StartOf(Second, LastRead.tRead)
         IN  \E j \in 1 .. Len(validEntries) :
               getPulseCorrectionLast(m, ref) = validEntries[j] /\ About(validEntries[j], ref)
  <1> DEFINE ref == StartOf(Second, LastRead.tRead)
             es == validEntries
             v == Len(es)
             a == es[i]
             match == {j \in 1 .. v : es[j].offset # "none" /\ es[j].tai = ref}
             found == {j \in match : \A q \in j + 1 .. v : q \notin match /\ ~EndsSearch(es[q], m, ref)}
  <1>1. /\ receiver \in Receivers
        /\ \A j \in 1 .. v : Made(es[j])
        /\ \A j, l \in 1 .. v : j < l => After(es[j], es[l])
        /\ v # 0 => es[v] = LastRead
    BY ValidOrder
  <1>2. v \in Nat BY ValidIs
  <1>3. v # 0 /\ v \in 1 .. v /\ Made(LastRead) BY <1>1, <1>2
  <1>4. Made(a) /\ a.offset # "none" /\ a.tai = ref BY <1>1 DEF About
  <1>5. Epoch = Second /\ r \in {"pre", "post"} BY <1>1, <1>4, OneCorrection
  <1>6. ref = Cycle(LastRead.tRead) * Epoch /\ ref \in Nat
    <2>1. LastRead.tRead \in Nat BY <1>1, <1>3, MadeTimes
    <2> QED BY <1>1, <1>5, <2>1, InCycle
  <1>7. ref # NoTime /\ NoTime < ref
    <2>1. Second \in Nat \ {0} BY <1>1, Receiver
    <2> QED BY <1>6, <2>1 DEF NoTime
  <1>8. About(a, ref) BY <1>4 DEF About
  <1>9. /\ m # NoMsg /\ \E l \in i .. v : m = es[l]
        /\ m.offset # "none" /\ Type(m).ref = r /\ m.k = a.k
        /\ m.tai = Due(m) /\ m.tai \in Nat /\ ref <= m.tai
    <2>1. Type(a).ref = r /\ LastCorrection(m, received, r) OBVIOUS
    <2> HIDE DEF ref
    <2> QED BY <1>7, <1>8, <2>1, LastIsLatest
  <1>10. PICK l \in i .. v : m = es[l] BY <1>9
  <1>11. l \in 1 .. v BY <1>2, <1>10
  <1>12. getPulseCorrectionLast(m, ref) =
           IF m = NoMsg THEN NoMsg
           ELSE IF ref > m.tai THEN NoMsg
           ELSE IF ref = m.tai THEN m
           ELSE IF found = {} THEN NoMsg
           ELSE es[CHOOSE j \in found : TRUE]
    BY DEF getPulseCorrectionLast
  <1>13. i \in match /\ match \subseteq 0 .. v /\ match # {} BY <1>2, <1>4
  <1> HIDE DEF ref, es, v
  <1>14. CASE ref = m.tai
    <2>1. getPulseCorrectionLast(m, ref) = es[l] BY <1>6, <1>9, <1>10, <1>12, <1>14
    <2>2. About(es[l], ref) BY <1>9, <1>10, <1>14 DEF About
    <2> QED BY <1>11, <2>1, <2>2 DEF ref, es, v
  <1>15. CASE ref < m.tai
    <2> DEFINE ca == Cycle(a.tRead)
               cm == Cycle(m.tRead)
               cN == Cycle(LastRead.tRead)
               h  == Ahead(a.k)
    <2>1. Epoch \in Nat \ {0} /\ h \in {0, 1} BY <1>1, Receiver DEF Ahead
    <2>2. Made(m) /\ a.k \in 1 .. Len(Types) BY <1>1, <1>4, <1>10, <1>11, MadeTimes
    <2>3. ca \in Nat /\ Due(a) = (ca + h) * Epoch BY <1>1, <1>4, MadeTimes
    <2>4. cm \in Nat /\ Due(m) = (cm + h) * Epoch BY <1>1, <1>9, <2>2, MadeTimes
    <2>5. cN \in Nat BY <1>1, <1>3, MadeTimes
    <2>6. ref = Due(a) BY <1>4, <1>7 DEF Made
    <2> HIDE DEF a, ca, cm, cN, h
    <2>7. ca + h = cN
      <3>1. (ca + h) * Epoch = cN * Epoch BY <1>6, <2>3, <2>6 DEF cN
      <3>2. ca + h \in Int /\ cN \in Int /\ Epoch \in Nat BY <2>1, <2>3, <2>5
      <3>3. ca + h < cN => (ca + h) * Epoch + Epoch <= cN * Epoch BY ONLY <3>2, ProductStrict
      <3>4. cN < ca + h => cN * Epoch + Epoch <= (ca + h) * Epoch BY ONLY <3>2, ProductStrict
      <3>5. (ca + h) * Epoch \in Int /\ cN * Epoch \in Int BY ONLY <3>2
      <3> DEFINE x == (ca + h) * Epoch
                 y == cN * Epoch
                 c == ca + h
      <3>6. /\ x = y /\ x \in Int /\ y \in Int /\ c \in Int
            /\ c < cN => x + Epoch <= y
            /\ cN < c => y + Epoch <= x
        BY <3>1, <3>2, <3>3, <3>4, <3>5
      <3> HIDE DEF x, y, c
      <3>7. c = cN BY ONLY <2>1, <3>2, <3>6
      <3> QED BY <3>7 DEF c
    <2>8. ca < cm
      <3>1. cm + h <= ca + h => (cm + h) * Epoch <= (ca + h) * Epoch
        <4>1. cm + h \in Int /\ ca + h \in Int /\ Epoch \in Nat BY <2>1, <2>3, <2>4
        <4> QED BY ONLY <4>1, Product
      <3>2. ~(Due(m) <= Due(a)) BY <1>6, <1>9, <1>15, <2>6
      <3>3. ~(cm + h <= ca + h) BY <2>3, <2>4, <3>1, <3>2
      <3> QED BY <2>1, <2>3, <2>4, <3>3
    <2>9. \A q \in 1 .. v : Made(es[q]) /\ Cycle(es[q].tRead) \in Nat /\ Cycle(es[q].tRead) <= cN
      <3> TAKE q \in 1 .. v
      <3>1. Made(es[q]) /\ Cycle(es[q].tRead) \in Nat BY <1>1, MadeTimes
      <3>2. CASE q = v BY <1>1, <1>3, <2>5, <3>2 DEF cN
      <3>3. CASE q < v
        <4>1. After(es[q], LastRead) BY <1>1, <1>3, <3>3
        <4> QED BY <1>1, <1>3, <3>1, <4>1, InOrder DEF cN
      <3> QED BY <1>2, <3>1, <3>2, <3>3
    <2>10. cm = cN /\ cN = ca + 1
      <3>1. cm <= cN BY <1>10, <1>11, <2>9 DEF cm
      <3> QED BY <2>1, <2>3, <2>4, <2>5, <2>7, <2>8, <3>1
    <2> DEFINE w == Last(match)
    <2>11. w \in match /\ \A j \in match : j <= w
      <3> HIDE DEF match
      <3> QED BY <1>2, <1>13, LastIs
    <2>12. w \in 1 .. v /\ i <= w BY <1>13, <2>11
    <2> HIDE DEF w
    <2>13. ASSUME NEW q \in w + 1 .. v, EndsSearch(es[q], m, ref) PROVE FALSE
      <3>1. i \in 1 .. v /\ q \in 1 .. v /\ i < q
        <4>1. i \in 1 .. v BY <1>13
        <4> QED BY <1>2, <2>12, <4>1
      <3>2. es[q].tai < ref /\ Type(es[q]).ref = r BY <1>9, <2>13 DEF EndsSearch
      <3>3. Made(es[q]) /\ After(a, es[q]) BY <1>1, <3>1 DEF a
      <3>4. Made(a) /\ es[q].k = a.k
        <4>1. Made(a) /\ a.offset # "none" BY <1>4
        <4>2. Type(es[q]).ref = Type(a).ref BY <3>2 DEF a, es
        <4> QED BY <1>1, <3>3, <4>1, <4>2, OneCorrection
      <3> DEFINE cq == Cycle(es[q].tRead)
      <3>5. ca <= cq /\ cq <= cN /\ cq \in Nat BY <1>1, <2>9, <3>1, <3>3, <3>4, InOrder DEF ca
      <3>6. CASE cq = ca
        <4>1. Again(a, es[q]) BY <1>1, <3>3, <3>4, <3>6, InOrder DEF ca
        <4>2. es[q].tai = a.tai BY <1>1, <3>4, <4>1, SameAgain
        <4>3. a.tai = ref BY <1>4
        <4> QED BY <1>6, <3>2, <4>2, <4>3
      <3>7. CASE cq = cN
        <4>1. es[q].tai # m.tai BY <1>6, <1>9, <1>15, <3>2
        <4>2. q # l BY <1>10, <4>1
        <4>3. CASE q < l
          <5>1. After(es[q], m) BY <1>1, <1>10, <1>11, <3>1, <4>3
          <5>2. Again(es[q], m) BY <1>1, <1>9, <2>2, <2>10, <3>3, <3>4, <3>7, <5>1, InOrder DEF cm
          <5>3. m.tai = es[q].tai BY <1>1, <3>3, <5>2, SameAgain
          <5> QED BY <4>1, <5>3
        <4>4. CASE l < q
          <5>1. After(m, es[q]) BY <1>1, <1>10, <1>11, <3>1, <4>4
          <5>2. Again(m, es[q]) BY <1>1, <1>9, <2>2, <2>10, <3>3, <3>4, <3>7, <5>1, InOrder DEF cm
          <5>3. m.tai = es[q].tai BY <1>1, <2>2, <5>2, SameAgain
          <5> QED BY <4>1, <5>3
        <4> QED BY <1>11, <3>1, <4>2, <4>3, <4>4
      <3> QED BY <2>3, <2>5, <2>10, <3>5, <3>6, <3>7
    <2>14. w \in found
      <3>1. ASSUME NEW q \in w + 1 .. v PROVE q \notin match BY <2>11, <2>12
      <3> HIDE DEF match
      <3> QED BY <2>11, <2>13, <3>1
    <2> DEFINE c == CHOOSE j \in found : TRUE
    <2>15. c \in found
      <3> HIDE DEF found
      <3> QED BY <2>14
    <2>16. c \in 1 .. v /\ About(es[c], ref) BY <2>15 DEF About
    <2>17. getPulseCorrectionLast(m, ref) = es[c]
      <3>1. found # {} BY <2>14
      <3>2. ~(ref > m.tai) /\ ref # m.tai BY <1>6, <1>9, <1>15
      <3> HIDE DEF found, c
      <3>3. getPulseCorrectionLast(m, ref) = es[CHOOSE j \in found : TRUE] BY <1>9, <1>12, <3>1, <3>2
      <3> QED BY <3>3 DEF c
    <2> HIDE DEF c
    <2> QED BY <2>16, <2>17 DEF ref, es, v
  <1> QED BY <1>6, <1>9, <1>14, <1>15

\* What the search returns, if anything, is about the pulse.
LEMMA SearchIsAbout ==
  ASSUME NEW m, NEW ref, getPulseCorrectionLast(m, ref) # NoMsg
  PROVE  getPulseCorrectionLast(m, ref).tai = ref
  <1> DEFINE es == validEntries
             match == {j \in 1 .. Len(es) : es[j].offset # "none" /\ es[j].tai = ref}
             found == {j \in match : \A q \in j + 1 .. Len(es) : q \notin match /\ ~EndsSearch(es[q], m, ref)}
  <1>1. getPulseCorrectionLast(m, ref) =
           IF m = NoMsg THEN NoMsg
           ELSE IF ref > m.tai THEN NoMsg
           ELSE IF ref = m.tai THEN m
           ELSE IF found = {} THEN NoMsg
           ELSE es[CHOOSE j \in found : TRUE]
    BY DEF getPulseCorrectionLast
  <1>2. found # {} => es[CHOOSE j \in found : TRUE].tai = ref
    <2> DEFINE c == CHOOSE j \in found : TRUE
    <2>1. ASSUME found # {} PROVE c \in found
      <3> HIDE DEF found
      <3> QED BY <2>1
    <2>2. c \in found => es[c].tai = ref
      <3> HIDE DEF c
      <3> QED OBVIOUS
    <2> HIDE DEF c, found
    <2> QED BY <2>1, <2>2 DEF c
  <1> HIDE DEF found, es
  <1> QED BY <1>1, <1>2

LEMMA CorrectionsAreFound == BufferInv => CorrectionFound
  <1> SUFFICES ASSUME BufferInv, received # <<>> PROVE CorrectionFound BY DEF CorrectionFound
  <1> DEFINE ref   == StartOf(Second, LastRead.tRead)
             es    == validEntries
             v     == Len(es)
             about == {e \in {es[i] : i \in 1 .. v} : e.offset # "none" /\ e.tai = ref}
             mPre  == getPulseCorrectionLast(lastPreCorrMsg, ref)
             mPost == getPulseCorrectionLast(lastPostCorrMsg, ref)
             m     == GetPulseCorrection(ref)
  <1>1. /\ receiver \in Receivers /\ LastCorrection(lastPreCorrMsg, received, "pre")
        /\ LastCorrection(lastPostCorrMsg, received, "post")
    BY DEF BufferInv, BufferTypeOK
  <1>2. \A i \in 1 .. v : Made(es[i]) BY ValidOrder
  <1>3. m = IF Usable(mPre) THEN mPre ELSE mPost BY DEF GetPulseCorrection
  <1>4. ASSUME Usable(m) PROVE m.tai = ref
    <2>1. m # NoMsg /\ m \in {mPre, mPost} BY <1>3, <1>4 DEF Usable
    <2> HIDE DEF ref, m
    <2> QED BY <2>1, SearchIsAbout
  <1>5. ASSUME NEW e \in about
        PROVE  /\ Type(e).ref = "pre" => mPre \in about
               /\ Type(e).ref = "post" => mPost \in about
               /\ Type(e).ref \in {"pre", "post"}
    <2>1. PICK i \in 1 .. v : e = es[i] BY <1>5
    <2>2. e.offset # "none" /\ e.tai = ref /\ Made(e) BY <1>2, <1>5, <2>1
    <2>3. About(es[i], ref) BY <2>1, <2>2 DEF About
    <2>4. Type(e).ref \in {"pre", "post"} BY <1>1, <2>2, OneCorrection
    <2>5. ASSUME Type(e).ref = "pre" PROVE mPre \in about
      <3>1. \E j \in 1 .. v : mPre = es[j] /\ About(es[j], ref) BY <1>1, <2>1, <2>3, <2>5, SearchFinds
      <3> QED BY <3>1 DEF About
    <2>6. ASSUME Type(e).ref = "post" PROVE mPost \in about
      <3>1. \E j \in 1 .. v : mPost = es[j] /\ About(es[j], ref) BY <1>1, <2>1, <2>3, <2>6, SearchFinds
      <3> QED BY <3>1 DEF About
    <2> QED BY <2>4, <2>5, <2>6
  <1>6. ASSUME about # {}, \A e \in about : Usable(e) PROVE Usable(m)
    <2>1. mPre \in about \/ mPost \in about BY <1>5, <1>6
    <2> HIDE DEF about, mPre, mPost, m
    <2> QED BY <1>3, <1>6, <2>1
  <1>7. ASSUME WaitForPulseCorrection(ref), NEW e \in about PROVE Type(e).ref = "pre"
    <2>1. PICK i \in 1 .. v : e = es[i] BY <1>7
    <2>2. e.offset # "none" /\ e.tai = ref BY <1>7
    <2>3. lastPostCorrMsg # NoMsg /\ ref - lastPostCorrMsg.tai = Second
      BY <1>7 DEF WaitForPulseCorrection
    <2>4. ASSUME Type(e).ref = "post" PROVE FALSE
      <3>1. LastRead.tRead \in Nat
        <4>1. v \in Nat /\ v \in 1 .. v BY <2>1, ValidIs
        <4>2. Made(LastRead) BY <1>2, <4>1, ValidOrder
        <4> QED BY <1>1, <4>2, MadeTimes
      <3>2. Second \in Nat \ {0} BY <1>1, Receiver
      <3>3. ref # NoTime
        <4>1. LastRead.tRead \div Second \in Nat BY <3>1, <3>2, DivisionNat
        <4>2. ref \in Nat BY <3>2, <4>1 DEF StartOf
        <4> QED BY <3>2, <4>2 DEF NoTime
      <3>4. About(es[i], ref) /\ Type(es[i]).ref = "post" BY <2>1, <2>2, <2>4 DEF About
      <3>5. ref \in Nat /\ lastPostCorrMsg.tai \in Nat /\ ref <= lastPostCorrMsg.tai
        <4> HIDE DEF ref
        <4> QED BY <1>1, <3>3, <3>4, LastIsLatest
      <3> HIDE DEF ref
      <3> QED BY <2>3, <3>2, <3>5
    <2>5. Type(e).ref \in {"pre", "post"} BY <1>5, <1>7
    <2> QED BY <2>4, <2>5
  <1> HIDE DEF about, m
  <1>8. /\ Usable(m) => m.tai = ref
        /\ (about # {} /\ \A e \in about : Usable(e)) => Usable(m)
        /\ WaitForPulseCorrection(ref) => \A e \in about : Type(e).ref = "pre"
    BY <1>4, <1>6, <1>7
  <1> QED BY <1>8 DEF CorrectionFound, about, m

\* The correction of the pulse of this second is found (getPulseCorrectionLast,
\* GetPulseCorrection) if it was received and is usable, whatever came since, and no pulse
\* waits for a correction that is already there (WaitForPulseCorrection).
THEOREM CorrectionsFound == BufferSpec => []CorrectionFound
  <1> QED BY CorrectionsAreFound, BufferInvariance, PTL

-----------------------------------------------------------------------------
(* The labels that reset mode gets. *)

\* What GetPostTimeMessages returns.
LEMMA Answer ==
  \/ GetPostTimeMessages = <<>>
  \/ \E f \in [1 .. PulseWindow -> alignedEntries] :
       /\ ListsLast(f, alignedEntries)
       /\ GetPostTimeMessages = [i \in 1 .. PulseWindow |-> validEntries[f[i]]]
       /\ Len(GetPostTimeMessages) = PulseWindow
       /\ Consecutive(GetPostTimeMessages)
  <1> DEFINE S     == alignedEntries
             lists == {f \in [1 .. PulseWindow -> S] : ListsLast(f, S)}
             f     == CHOOSE g \in lists : TRUE
             last  == [i \in 1 .. PulseWindow |-> validEntries[f[i]]]
  <1>1. GetPostTimeMessages = IF lists # {} /\ Consecutive(last) THEN last ELSE <<>>
    BY DEF GetPostTimeMessages
  <1>2. CASE lists # {} /\ Consecutive(last)
    <2>1. f \in lists
      <3>1. lists # {} BY <1>2
      <3> HIDE DEF lists
      <3> QED BY <3>1
    <2>2. GetPostTimeMessages = last /\ Consecutive(last) BY <1>1, <1>2
    <2>3. Len(last) = PulseWindow
      <3>1. PulseWindow \in Nat BY BufferAssumption
      <3> HIDE DEF f
      <3> QED BY <3>1
    <2>4. f \in [1 .. PulseWindow -> alignedEntries] /\ ListsLast(f, alignedEntries) BY <2>1
    <2> HIDE DEF f
    <2> QED BY <2>2, <2>3, <2>4
  <1>3. CASE ~(lists # {} /\ Consecutive(last))
    <2> HIDE DEF lists, last
    <2> QED BY <1>1, <1>3
  <1> QED BY <1>2, <1>3

LEMMA AlignedAre ==
  ASSUME BufferInv, NEW i \in alignedEntries
  PROVE  /\ i \in bestEntries /\ i \in 1 .. Len(validEntries)
         /\ Made(validEntries[i]) /\ eligible(validEntries[i])
         /\ validEntries[i].k = epochStartMsg(bestEntries)
         /\ toTAI(validEntries[i]) % Second = 0
  <1>1. /\ i \in bestEntries /\ validEntries[i].k = epochStartMsg(bestEntries)
        /\ toTAI(validEntries[i]) % Second = 0
    BY DEF alignedEntries
  <1>2. i \in 1 .. Len(validEntries) /\ eligible(validEntries[i]) BY <1>1 DEF bestEntries
  <1> QED BY <1>1, <1>2, ValidOrder

\* The TAI time of a message about its own epoch.
LEMMA EligibleTime ==
  ASSUME receiver \in Receivers, lsError \in {0, 1}, NEW e, Made(e), eligible(e)
  PROVE  /\ Type(e).ref # "pre" /\ Due(e) = Cycle(e.tRead) * Epoch
         /\ e.tai # NoTime => e.tai = Due(e)
         /\ e.tai = NoTime => e.utc # NoTime /\ e.utc = Due(e) + ErrorOf(e) * Second
         /\ toTAI(e) = Due(e) + (IF e.tai # NoTime THEN 0 ELSE ErrorOf(e) - lsError) * Second
         /\ e.tai = NoTime <=> Type(e).scale = "utc"
  <1>1. Valid(e) /\ Type(e).ref # "pre" BY DEF eligible
  <1>2. /\ Due(e) = (Cycle(e.tRead) + Ahead(e.k)) * Epoch /\ Cycle(e.tRead) \in Nat
        /\ Due(e) \in Nat /\ Type(e) = Types[e.k]
    BY MadeTimes
  <1>3. Ahead(e.k) = 0 BY <1>1, <1>2 DEF Ahead
  <1>4. Due(e) = Cycle(e.tRead) * Epoch BY <1>2, <1>3
  <1>5. ErrorOf(e) \in {0, 1} /\ (e.utc # NoTime => e.utc = Due(e) + ErrorOf(e) * Second) BY MadeUTC
  <1>6. e.tai # NoTime => e.tai = Due(e) BY DEF Made
  <1>7. e.tai = NoTime => e.utc # NoTime BY <1>1 DEF Valid
  <1>8. e.tai = NoTime <=> Type(e).scale = "utc" BY <1>1 DEF Made
  <1>9. Second \in Nat BY Receiver
  <1>10. CASE e.tai # NoTime
    <2>1. toTAI(e) = Due(e) BY <1>6, <1>10 DEF toTAI
    <2>2. 0 * Second = 0 BY <1>9
    <2>3. toTAI(e) = Due(e) + 0 * Second BY <1>2, <2>1, <2>2
    <2> QED BY <1>1, <1>4, <1>6, <1>8, <1>10, <2>3
  <1>11. CASE e.tai = NoTime
    <2> DEFINE a == ErrorOf(e)
               b == lsError
               d == Due(e)
    <2>1. toTAI(e) = (d + a * Second) - b * Second BY <1>5, <1>7, <1>11 DEF toTAI
    <2>2. a \in Int /\ b \in Int /\ d \in Int BY <1>2, <1>5
    <2> HIDE DEF a, b, d
    <2>3. (d + a * Second) - b * Second = d + (a - b) * Second BY <1>9, <2>2
    <2>4. toTAI(e) = Due(e) + (ErrorOf(e) - lsError) * Second BY <2>1, <2>3 DEF a, b, d
    <2> QED BY <1>1, <1>4, <1>5, <1>7, <1>8, <1>11, <2>4
  <1> QED BY <1>10, <1>11

\* A message of an epoch that begins a second is read in that second.
LEMMA AlignedStart ==
  ASSUME receiver \in Receivers, lsError \in {0, 1}, NEW e, Made(e), eligible(e), toTAI(e) % Second = 0
  PROVE  StartOf(Second, e.tRead) = Due(e) /\ Due(e) % Second = 0 /\ Due(e) \in Nat
  <1> DEFINE x == Cycle(e.tRead) * Epoch
             d == IF e.tai # NoTime THEN 0 ELSE ErrorOf(e) - lsError
             t == toTAI(e)
             z == t \div Second
  <1>1. Second \in Nat \ {0} /\ Epoch \in Nat \ {0} /\ Epoch <= Second BY Receiver
  <1>2. e.tRead \in Nat /\ x \in Nat /\ x <= e.tRead /\ e.tRead < x + Epoch /\ Due(e) \in Nat
    BY MadeTimes
  <1>3. Due(e) = x /\ t = Due(e) + d * Second BY EligibleTime
  <1>4. d \in Int BY MadeUTC
  <1> HIDE DEF x, d
  <1>5. t = x + d * Second /\ t \in Int BY <1>1, <1>2, <1>3, <1>4
  <1>6. t % Second = 0 OBVIOUS
  <1> HIDE DEF t
  <1>7. z \in Int /\ t = z * Second + (t % Second) BY <1>1, <1>5, Division
  <1>8. z \in Int /\ t = z * Second BY <1>1, <1>6, <1>7
  <1> HIDE DEF z
  <1> DEFINE q == z - d
  <1>9. q \in Int /\ x = q * Second BY <1>1, <1>2, <1>4, <1>5, <1>8
  <1> HIDE DEF q
  <1> DEFINE r == e.tRead - x
  <1>10. r \in Int /\ 0 <= r /\ r < Second BY <1>1, <1>2
  <1>11. e.tRead = q * Second + r BY <1>2, <1>9
  <1> HIDE DEF r
  <1>12. (q * Second + r) \div Second = q BY <1>1, <1>9, <1>10, Quotient
  <1>13. StartOf(Second, e.tRead) = Second * q BY <1>11, <1>12 DEF StartOf
  <1>14. Second * q = x BY <1>1, <1>9
  <1>15. x % Second = 0
    <2>1. (q * Second + 0) % Second = 0 BY <1>1, <1>9, Quotient
    <2>2. q * Second + 0 = x BY <1>1, <1>2, <1>9
    <2> QED BY <2>1, <2>2
  <1> QED BY <1>2, <1>3, <1>13, <1>14, <1>15

LEMMA LabelsAreTrue == BufferInv => LabelTrue
  <1> SUFFICES ASSUME BufferInv PROVE LabelTrue OBVIOUS
  <1> DEFINE es == GetPostTimeMessages
  <1>1. CASE es = <<>>
    <2>1. Len(es) = 0 BY <1>1
    <2> HIDE DEF es
    <2>2. 1 .. Len(es) = {} /\ 2 .. Len(es) = {} BY <2>1
    <2> QED BY <2>2 DEF LabelTrue, es
  <1>2. CASE es # <<>>
    <2>1. PICK f \in [1 .. PulseWindow -> alignedEntries] :
             /\ es = [i \in 1 .. PulseWindow |-> validEntries[f[i]]]
             /\ Len(es) = PulseWindow /\ Consecutive(es)
      BY <1>2, Answer
    <2> HIDE DEF es
    <2>2. receiver \in Receivers /\ lsError \in {0, 1} BY DEF BufferInv, BufferTypeOK
    <2>3. ASSUME NEW i \in 1 .. Len(es)
          PROVE  /\ Made(es[i]) /\ eligible(es[i]) /\ es[i].k = epochStartMsg(bestEntries)
                 /\ toTAI(es[i]) % Second = 0
      <3>1. i \in 1 .. PulseWindow /\ es[i] = validEntries[f[i]] BY <2>1, <2>3
      <3>2. f[i] \in alignedEntries BY <3>1
      <3> QED BY <3>1, <3>2, AlignedAre
    <2>4. ASSUME NEW i \in 1 .. Len(es)
          PROVE  toTAI(es[i]) = StartOf(Second, es[i].tRead)
                   + (IF es[i].tai # NoTime THEN 0 ELSE ErrorOf(es[i]) - lsError) * Second
      <3>1. /\ Made(es[i]) /\ eligible(es[i]) /\ toTAI(es[i]) % Second = 0 BY <2>3
      <3>2. StartOf(Second, es[i].tRead) = Due(es[i]) BY <2>2, <3>1, AlignedStart
      <3>3. toTAI(es[i]) = Due(es[i]) + (IF es[i].tai # NoTime THEN 0 ELSE ErrorOf(es[i]) - lsError) * Second
        BY <2>2, <3>1, EligibleTime
      <3> QED BY <3>2, <3>3
    <2>5. ASSUME SameError(es), NEW i \in 2 .. Len(es)
          PROVE  StartOf(Second, es[i].tRead) = StartOf(Second, es[i - 1].tRead) + Second
      <3> DEFINE a == es[i - 1]
                 b == es[i]
                 da == IF a.tai # NoTime THEN 0 ELSE ErrorOf(a) - lsError
                 db == IF b.tai # NoTime THEN 0 ELSE ErrorOf(b) - lsError
      <3>1. i \in 1 .. Len(es) /\ i - 1 \in 1 .. Len(es)
        <4>1. PulseWindow \in Nat BY BufferAssumption
        <4> QED BY <2>1, <2>5, <4>1
      <3>2. toTAI(b) - toTAI(a) = Second BY <2>1, <2>5 DEF Consecutive
      <3>3. ErrorOf(a) = ErrorOf(b) BY <2>5, <3>1 DEF SameError
      <3>4. /\ Made(a) /\ eligible(a) /\ a.k = epochStartMsg(bestEntries) /\ toTAI(a) % Second = 0
            /\ Made(b) /\ eligible(b) /\ b.k = epochStartMsg(bestEntries) /\ toTAI(b) % Second = 0
        BY <2>3, <3>1
      <3>5. toTAI(a) = StartOf(Second, a.tRead) + da * Second BY <2>4, <3>1
      <3>6. toTAI(b) = StartOf(Second, b.tRead) + db * Second BY <2>4, <3>1
      <3>7. StartOf(Second, a.tRead) \in Nat /\ StartOf(Second, b.tRead) \in Nat
        BY <2>2, <3>4, AlignedStart
      <3>8. Type(a) = Type(b) BY <3>4 DEF Type
      <3>9. a.tai = NoTime <=> b.tai = NoTime
        <4>1. a.tai = NoTime <=> Type(a).scale = "utc" BY <2>2, <3>4, EligibleTime
        <4>2. b.tai = NoTime <=> Type(b).scale = "utc" BY <2>2, <3>4, EligibleTime
        <4> QED BY <3>8, <4>1, <4>2
      <3>10. ErrorOf(a) \in {0, 1} BY <2>2, <3>4, MadeUTC
      <3>11. da = db /\ da \in Int BY <2>2, <3>3, <3>9, <3>10
      <3>12. Second \in Nat BY <2>2, Receiver
      <3> HIDE DEF a, b, da, db
      <3>13. da * Second \in Int BY <3>11, <3>12
      <3>14. StartOf(Second, b.tRead) = StartOf(Second, a.tRead) + Second
        <4> DEFINE p == StartOf(Second, a.tRead)
                   q == StartOf(Second, b.tRead)
                   w == da * Second
        <4>1. /\ toTAI(a) = p + w /\ toTAI(b) = q + w /\ p \in Nat /\ q \in Nat /\ w \in Int
          BY <3>5, <3>6, <3>7, <3>11, <3>13
        <4>2. (q + w) - (p + w) = Second BY <3>2, <4>1
        <4> HIDE DEF p, q, w
        <4>3. q = p + Second BY ONLY <3>12, <4>1, <4>2
        <4> QED BY <4>3 DEF p, q
      <3> QED BY <3>14 DEF a, b
    <2> QED BY <2>4, <2>5 DEF LabelTrue, es
  <1> QED BY <1>1, <1>2

\* A number gives the epoch and the type.
LEMMA ByNumber ==
  ASSUME receiver \in Receivers, NEW e, Made(e), NEW c \in Nat, NEW k \in 1 .. Len(Types),
         Num(e) = c * Len(Types) + k
  PROVE  Cycle(e.tRead) = c /\ e.k = k
  <1> DEFINE ce == Cycle(e.tRead)
             L  == Len(Types)
  <1>1. ce \in Nat /\ e.k \in 1 .. L /\ ce * L + e.k = c * L + k /\ L \in Nat
    BY MadeTimes, Receiver
  <1>2. (ce * L + e.k <= c * L + k) /\ (c * L + k <= ce * L + e.k)
    <2>1. c * L \in Nat BY <1>1
    <2> QED BY <1>1, <2>1
  <1> HIDE DEF ce, L
  <1>3. ce <= c /\ (ce = c => e.k <= k) BY <1>1, <1>2, Positions DEF L
  <1>4. c <= ce /\ (c = ce => k <= e.k) BY <1>1, <1>2, Positions DEF L
  <1>5. ce = c BY <1>1, <1>3, <1>4
  <1>6. e.k = k BY <1>1, <1>3, <1>4, <1>5 DEF L
  <1> QED BY <1>5, <1>6 DEF ce

\* The rank of a message that counts is that of its type.
TypeRank(k) == (IF Types[k].scale # "utc" THEN 0 ELSE 8) + (IF Types[k].ref = "post" THEN 0 ELSE 4)
             + (IF Types[k].tag = "native" THEN 0 ELSE 2) + (IF Types[k].gnss = "timeGNSS" THEN 0 ELSE 1)

LEMMA RankIs ==
  ASSUME receiver \in Receivers, NEW e, Made(e), eligible(e)
  PROVE  Rank(e) = TypeRank(e.k) /\ Rank(e) \in Nat
  <1>1. e.tai = NoTime <=> Types[e.k].scale = "utc" BY DEF Made, eligible, Type
  <1>2. Type(e) = Types[e.k] BY DEF Type
  <1>3. Rank(e) = TypeRank(e.k) BY <1>1, <1>2, Zenon DEF Rank, TypeRank
  <1>4. TypeRank(e.k) \in Nat BY DEF TypeRank
  <1> QED BY <1>3, <1>4

\* The best entries are those of some types, which have either all a TAI time or none.
LEMMA BestAre ==
  ASSUME BufferInv
  PROVE  /\ bestEntries \subseteq 1 .. Len(validEntries)
         /\ \A i \in bestEntries : Made(validEntries[i]) /\ eligible(validEntries[i])
         /\ \A i \in bestEntries : \A j \in 1 .. Len(validEntries) :
              eligible(validEntries[j]) /\ validEntries[j].k = validEntries[i].k => j \in bestEntries
         /\ \A i, j \in bestEntries : validEntries[i].tai = NoTime <=> validEntries[j].tai = NoTime
  <1> DEFINE es == validEntries
             v  == Len(es)
             el == {i \in 1 .. v : eligible(es[i])}
  <1>1. bestEntries = {i \in el : \A j \in el : Rank(es[i]) <= Rank(es[j])} BY DEF bestEntries
  <1>2. receiver \in Receivers /\ \A i \in 1 .. v : Made(es[i]) BY ValidOrder
  <1> HIDE DEF es, v
  <1>3. bestEntries \subseteq 1 .. v /\ \A i \in bestEntries : eligible(es[i]) BY <1>1
  <1>4. ASSUME NEW i \in bestEntries, NEW j \in 1 .. v, eligible(es[j]), es[j].k = es[i].k
        PROVE  j \in bestEntries
    <2>1. Rank(es[j]) = Rank(es[i])
      <3>1. Rank(es[i]) = TypeRank(es[i].k) BY <1>2, <1>3, RankIs
      <3>2. Rank(es[j]) = TypeRank(es[j].k) BY <1>2, <1>4, RankIs
      <3> QED BY <1>4, <3>1, <3>2
    <2>2. j \in el BY <1>4
    <2>3. \A q \in el : Rank(es[i]) <= Rank(es[q]) BY <1>1
    <2> HIDE DEF el
    <2> QED BY <1>1, <2>1, <2>2, <2>3
  <1>5. ASSUME NEW i \in bestEntries, NEW j \in bestEntries
        PROVE  es[i].tai = NoTime <=> es[j].tai = NoTime
    <2>1. Rank(es[i]) <= Rank(es[j]) /\ Rank(es[j]) <= Rank(es[i]) BY <1>1
    <2>2. Rank(es[i]) \in Nat /\ Rank(es[j]) \in Nat BY <1>2, <1>3, RankIs
    <2>3. Rank(es[i]) = Rank(es[j]) BY <2>1, <2>2
    <2>4. ASSUME NEW e PROVE IF e.tai # NoTime THEN Rank(e) < 8 ELSE Rank(e) >= 8 BY DEF Rank
    <2>5. IF es[i].tai # NoTime THEN Rank(es[i]) < 8 ELSE Rank(es[i]) >= 8 BY <2>4
    <2>6. IF es[j].tai # NoTime THEN Rank(es[j]) < 8 ELSE Rank(es[j]) >= 8 BY <2>4
    <2> QED BY <2>2, <2>3, <2>5, <2>6
  <1> QED BY <1>2, <1>3, <1>4, <1>5 DEF es, v

\* What messages that count state of the time: they state the same time just when they
\* are of the same epoch and do not deviate from each other.
LEMMA StatedIs ==
  ASSUME receiver \in Receivers, lsError \in {0, 1}, NEW a, NEW b, Made(a), eligible(a), Made(b), eligible(b),
         a.tai = NoTime <=> b.tai = NoTime, ErrorOf(a) = ErrorOf(b)
  PROVE  StatedTime(a) = StatedTime(b) <=> Cycle(a.tRead) = Cycle(b.tRead) /\ a.dev = b.dev
  <1> DEFINE ca == Cycle(a.tRead)
             cb == Cycle(b.tRead)
             x == ca * Epoch
             y == cb * Epoch
             d == IF a.tai # NoTime THEN 0 ELSE ErrorOf(a) * Second
  <1>1. Second \in Nat \ {0} /\ Epoch \in Nat \ {0} BY Receiver
  <1>2. ca \in Nat /\ cb \in Nat /\ x \in Nat /\ y \in Nat BY MadeTimes
  <1>3. ErrorOf(a) \in {0, 1} BY MadeUTC
  <1>4. d \in Int BY <1>1, <1>3
  <1> DEFINE ta == IF a.tai # NoTime THEN a.tai ELSE a.utc
             tb == IF b.tai # NoTime THEN b.tai ELSE b.utc
  <1>5. ta = x + d
    <2>1. a.tai # NoTime => ta = x /\ d = 0 BY EligibleTime
    <2>2. a.tai = NoTime => ta = x + ErrorOf(a) * Second /\ d = ErrorOf(a) * Second
      BY EligibleTime
    <2> QED BY <1>2, <2>1, <2>2
  <1>6. tb = y + d
    <2>1. a.tai # NoTime => tb = y /\ d = 0 BY EligibleTime
    <2>2. a.tai = NoTime => tb = y + ErrorOf(a) * Second /\ d = ErrorOf(a) * Second
      BY EligibleTime
    <2> QED BY <1>2, <2>1, <2>2
  <1>7. ca < cb => x + Epoch <= y BY <1>1, <1>2, ProductStrict
  <1>8. cb < ca => y + Epoch <= x BY <1>1, <1>2, ProductStrict
  <1>9. ca = cb => x = y OBVIOUS
  <1>11. StatedTime(a) = <<ta, a.dev>> /\ StatedTime(b) = <<tb, b.dev>> BY DEF StatedTime
  <1> HIDE DEF ca, cb, x, y, d, ta, tb
  <1>10. ta = tb <=> ca = cb
    BY ONLY <1>1, <1>2, <1>4, <1>5, <1>6, <1>7, <1>8, <1>9
  <1> QED BY <1>10, <1>11 DEF ca, cb

\* Messages that came as they were sent have the numbers in which they were sent.
LEMMA CleanNumbers ==
  ASSUME receiver \in Receivers, NEW n \in Nat, NEW i \in Nat \ {0}, NEW e, Made(e),
         e.k = Kind(n + i), e.tRead = ReadAt(n + i)
  PROVE  Num(e) = n + i
  <1>1. n + i \in Nat \ {0} OBVIOUS
  <1>2. n + i = Cycle(ReadAt(n + i)) * Len(Types) + Kind(n + i) BY <1>1, Sending
  <1> QED BY <1>2 DEF Num

LEMMA EarliestTypes == BufferInv /\ EpochsAgree => EarliestType
  <1> SUFFICES ASSUME BufferInv, EpochsAgree, GetPostTimeMessages # <<>>, Clean(validEntries),
                      NEW b \in bestEntries
               PROVE  GetPostTimeMessages[1].k <= validEntries[b].k
    BY DEF EarliestType
  <1> DEFINE es    == validEntries
             v     == Len(es)
             best  == bestEntries
             later == laterEntries(best)
             l     == Earliest(later)
             o     == Earliest(best)
             L     == Len(Types)
             cl    == Cycle(es[l].tRead)
             co    == Cycle(es[o].tRead)
             kl    == es[l].k
             kb    == es[b].k
  <1>1. /\ receiver \in Receivers /\ lsError \in {0, 1} /\ v \in Nat
        /\ \A i \in 1 .. v : Made(es[i])
        /\ \A i, j \in 1 .. v : i < j => After(es[i], es[j])
    BY ValidOrder, ValidIs DEF BufferInv, BufferTypeOK
  <1>2. GetPostTimeMessages[1].k = epochStartMsg(best)
    <2>1. PICK f \in [1 .. PulseWindow -> alignedEntries] :
            GetPostTimeMessages = [i \in 1 .. PulseWindow |-> validEntries[f[i]]]
      BY Answer
    <2>2. 1 \in 1 .. PulseWindow BY BufferAssumption
    <2>3. GetPostTimeMessages[1] = validEntries[f[1]] /\ f[1] \in alignedEntries BY <2>1, <2>2
    <2> QED BY <2>3, AlignedAre
  <1>3. /\ best \subseteq 1 .. v
        /\ \A i \in best : Made(es[i]) /\ eligible(es[i])
        /\ \A i \in best : \A j \in 1 .. v : eligible(es[j]) /\ es[j].k = es[i].k => j \in best
        /\ \A i, j \in best : es[i].tai = NoTime <=> es[j].tai = NoTime
    BY BestAre
  <1>4. later = {i \in best : StatedTime(es[i]) # StatedTime(es[o])} BY DEF laterEntries
  <1>5. epochStartMsg(best) = IF later = {} THEN 0 ELSE es[l].k BY DEF epochStartMsg
  <1> HIDE DEF es, v, best
  <1>6. kb \in 1 .. L /\ Type(es[b]).ref # "pre" /\ b \in best
    BY <1>1, <1>3, MadeTimes DEF best, eligible
  <1>7. CASE later = {} BY <1>2, <1>5, <1>6, <1>7 DEF es
  <1>8. CASE later # {}
    <2>1. later \subseteq best /\ later \subseteq Nat /\ best \subseteq Nat /\ best # {}
      <3>1. later \subseteq best BY <1>4
      <3>2. best \subseteq 1 .. v /\ 1 .. v \subseteq Nat BY <1>1, <1>3
      <3> HIDE DEF later
      <3> QED BY <1>8, <3>1, <3>2
    <2> HIDE DEF later
    <2>2. l \in later /\ \A i \in later : l <= i BY <1>8, <2>1, EarliestIs
    <2>3. o \in best /\ \A i \in best : o <= i BY <2>1, EarliestIs
    <2> HIDE DEF l, o
    <2>4. l \in best /\ StatedTime(es[l]) # StatedTime(es[o]) BY <1>4, <2>2
    <2>5. l \in 1 .. v /\ o \in 1 .. v /\ o < l
      <3>1. l # o /\ o <= l BY <2>3, <2>4
      <3> QED BY <1>1, <1>3, <2>3, <2>4, <3>1
    <2>6. PICK n \in Nat : \A i \in 1 .. v : Valid(es[i]) /\ es[i].k = Kind(n + i) /\ es[i].tRead = ReadAt(n + i)
      <3>1. Clean(es) BY DEF es
      <3>2. 0 .. sent \subseteq Nat BY DEF BufferInv, BufferTypeOK
      <3>3. PICK n \in 0 .. sent : \A i \in 1 .. v : Valid(es[i]) /\ es[i].k = Kind(n + i) /\ es[i].tRead = ReadAt(n + i)
        BY <3>1 DEF Clean, v
      <3> QED BY <3>2, <3>3
    <2>7. \A i, j \in 1 .. v : ErrorOf(es[i]) = ErrorOf(es[j]) BY DEF Clean, SameError, es, v
    <2>8. \A i \in 1 .. v : Num(es[i]) = n + i BY <1>1, <2>6, CleanNumbers
    <2>9. L \in Nat \ {0} /\ kl \in 1 .. L /\ cl \in Nat /\ co \in Nat /\ es[o].k \in 1 .. L
      BY <1>1, <2>5, MadeTimes, Receiver
    <2>10. n + l = cl * L + kl /\ n + o = co * L + es[o].k BY <1>1, <2>5, <2>8, MadeTimes
    <2>11. co < cl
      <3>1. co <= cl BY <1>1, <2>5, InOrder
      <3>2. ASSUME co = cl PROVE FALSE
        <4>1. Made(es[o]) /\ eligible(es[o]) /\ Made(es[l]) /\ eligible(es[l]) BY <1>3, <2>3, <2>4
        <4>2. Due(es[o]) = Due(es[l]) BY <1>1, <3>2, <4>1, EligibleTime DEF co, cl
        <4>3. Nominal(es[o].k, es[o].tRead) = Nominal(es[l].k, es[l].tRead) BY <4>2 DEF Due
        <4>4. es[o].dev = es[l].dev BY <2>3, <2>4, <4>3 DEF EpochsAgree, best, es
        <4>5. ErrorOf(es[o]) = ErrorOf(es[l]) /\ (es[o].tai = NoTime <=> es[l].tai = NoTime)
          BY <1>3, <2>3, <2>4, <2>5, <2>7
        <4>6. StatedTime(es[o]) = StatedTime(es[l]) BY <1>1, <3>2, <4>1, <4>4, <4>5, StatedIs DEF co, cl
        <4> QED BY <2>4, <4>6
      <3> QED BY <2>9, <3>1, <3>2
    <2>12. ASSUME kb < kl PROVE FALSE
      <3> DEFINE i == l - (kl - kb)
                 p == cl * L
                 q == co * L
                 ko == es[o].k
      <3>1. p \in Nat /\ q \in Nat /\ q + L <= p
        <4>1. L \in Nat /\ cl \in Nat /\ co \in Nat /\ cl \in Int /\ co \in Int BY <2>9
        <4> HIDE DEF cl, co, L
        <4>2. p \in Nat /\ q \in Nat BY ONLY <4>1
        <4> QED BY ONLY <2>11, <4>1, <4>2, ProductStrict
      <3>2. n + l = p + kl /\ n + o = q + ko BY <2>10
      <3>3. kl \in 1 .. L /\ ko \in 1 .. L /\ L \in Nat BY <2>9
      <3> HIDE DEF p, q, ko, kl, kb, cl, co, L
      <3>4. i \in 1 .. v /\ i < l /\ n + i = p + kb
        <4>1. n \in Nat /\ v \in Nat /\ kb < kl BY <1>1, <2>12
        <4> QED BY ONLY <1>6, <2>5, <3>1, <3>2, <3>3, <4>1
      <3> HIDE DEF i
      <3>5. Made(es[i]) /\ Num(es[i]) = cl * L + kb BY <1>1, <2>8, <3>4 DEF p
      <3>6. Cycle(es[i].tRead) = cl /\ es[i].k = kb
        <4>1. cl \in Nat /\ kb \in 1 .. Len(Types) BY <1>6, <2>9 DEF L
        <4> QED BY <1>1, <3>5, <4>1, ByNumber DEF L
      <3>7. eligible(es[i])
        <4>1. Type(es[i]) = Type(es[b]) BY <3>6 DEF Type, kb
        <4> QED BY <1>6, <2>6, <3>4, <4>1 DEF eligible
      <3>8. i \in best BY <1>3, <1>6, <3>4, <3>6, <3>7 DEF kb
      <3>9. StatedTime(es[i]) # StatedTime(es[o])
        <4>1. Made(es[o]) /\ eligible(es[o]) /\ ErrorOf(es[i]) = ErrorOf(es[o])
              /\ (es[i].tai = NoTime <=> es[o].tai = NoTime)
          BY <1>3, <2>3, <2>5, <2>7, <3>4, <3>8
        <4>2. Cycle(es[i].tRead) # Cycle(es[o].tRead) BY <2>9, <2>11, <3>6 DEF co
        <4> QED BY <1>1, <3>5, <3>7, <4>1, <4>2, StatedIs
      <3>10. i \in later BY <1>4, <3>8, <3>9
      <3>11. l <= i BY <2>2, <3>10
      <3> QED BY <2>5, <3>4, <3>11
    <2>13. kl <= kb BY <1>6, <2>9, <2>12
    <2> QED BY <1>2, <1>5, <1>8, <2>13 DEF es
  <1> QED BY <1>7, <1>8

-----------------------------------------------------------------------------
(* Reset mode gets its messages. *)

\* Which multiples of l, moved by k, are among the q * l numbers behind n.
LEMMA Cover ==
  ASSUME NEW n \in Int, NEW k \in Int, NEW l \in Nat \ {0}, NEW q \in Nat
  PROVE  \E c0 \in Int : /\ c0 = ((n - k) \div l) + 1
                         /\ \A c \in Int : /\ n < c * l + k <=> c0 <= c
                                           /\ c * l + k <= n + q * l <=> c < c0 + q
  <1> DEFINE z == (n - k) \div l
             r == (n - k) % l
             w == z * l
             p == q * l
  <1>1. z \in Int /\ r \in 0 .. l - 1 /\ n - k = w + r
    <2>1. n - k \in Int OBVIOUS
    <2> QED BY <2>1, Division
  <1> HIDE DEF z, r
  <1>2. w \in Int /\ p \in Nat BY <1>1
  <1>3. ASSUME NEW c \in Int
        PROVE  /\ n < c * l + k <=> z + 1 <= c
               /\ c * l + k <= n + p <=> c < z + 1 + q
    <2> DEFINE x == c * l
    <2>1. x \in Int BY <1>3
    <2>2. z < c => w + l <= x BY <1>1, <1>3, ProductStrict
    <2>3. c <= z => x <= w BY <1>1, <1>3, Product
    <2>4. (z + q) * l = w + p BY <1>1
    <2>5. z + q \in Int BY <1>1
    <2>6. z + q < c => (w + p) + l <= x
      <3>1. z + q < c => (z + q) * l + l <= c * l BY ONLY <1>3, <2>5, l \in Nat \ {0}, ProductStrict
      <3> QED BY <2>4, <3>1
    <2>7. c <= z + q => x <= w + p
      <3>1. c <= z + q => c * l <= (z + q) * l BY ONLY <1>3, <2>5, l \in Nat \ {0}, Product
      <3> QED BY <2>4, <3>1
    <2> HIDE DEF x, w, p
    <2>8. n < x + k <=> z + 1 <= c
      BY ONLY <1>1, <1>2, <1>3, <2>1, <2>2, <2>3, n \in Int, k \in Int, l \in Nat \ {0}
    <2>9. x + k <= n + p <=> c < z + 1 + q
      BY ONLY <1>1, <1>2, <1>3, <2>1, <2>6, <2>7, n \in Int, k \in Int, l \in Nat \ {0}, q \in Nat
    <2> QED BY <2>8, <2>9 DEF x
  <1>4. z + 1 \in Int BY <1>1
  <1> HIDE DEF p
  <1>5. \A c \in Int : (n < c * l + k <=> z + 1 <= c) /\ (c * l + k <= n + p <=> c < z + 1 + q)
    BY <1>3
  <1> QED BY <1>4, <1>5 DEF z, p

\* Two lists of the last members of a set agree as far as they do behind.
LEMMA ListsAgree ==
  ASSUME NEW S, S \subseteq Nat, NEW f \in [1 .. PulseWindow -> S], NEW g \in [1 .. PulseWindow -> S],
         ListsLast(f, S), ListsLast(g, S),
         NEW j \in 1 .. PulseWindow, \A i \in j + 1 .. PulseWindow : f[i] = g[i]
  PROVE  ~(f[j] < g[j])
  <1>1. PulseWindow \in Nat \ {0} BY BufferAssumption
  <1>2. \A i \in 1 .. PulseWindow : f[i] \in Nat /\ g[i] \in S /\ g[i] \in Nat OBVIOUS
  <1>3. \A i, l \in 1 .. PulseWindow : i < l => f[i] < f[l] /\ g[i] < g[l] BY DEF ListsLast
  <1>4. \A s \in S : s < f[1] \/ \E i \in 1 .. PulseWindow : f[i] = s BY DEF ListsLast
  <1>5. SUFFICES ASSUME f[j] < g[j] PROVE FALSE OBVIOUS
  <1>6. f[1] <= f[j]
    <2>1. 1 \in 1 .. PulseWindow /\ (1 < j \/ j = 1) BY <1>1
    <2> QED BY <1>2, <1>3, <2>1
  <1>7. ~(g[j] < f[1])
    <2>1. 1 \in 1 .. PulseWindow BY <1>1
    <2>2. f[1] \in Nat /\ f[j] \in Nat /\ g[j] \in Nat BY <1>2, <2>1
    <2> QED BY ONLY <1>5, <1>6, <2>2
  <1>8. PICK i \in 1 .. PulseWindow : f[i] = g[j] BY <1>2, <1>4, <1>7
  <1>9. j < i
    <2>1. i < j => f[i] < f[j] BY <1>3
    <2>2. f[i] \in Nat /\ f[j] \in Nat BY <1>2
    <2>3. ~(i < j) /\ i # j BY <1>5, <1>8, <2>1, <2>2
    <2> QED BY <1>1, <2>3
  <1>10. f[i] = g[i] /\ g[j] < g[i]
    <2>1. i \in j + 1 .. PulseWindow BY <1>1, <1>9
    <2> QED BY <1>3, <1>9, <2>1
  <1>11. g[j] \in Nat BY <1>2
  <1> QED BY ONLY <1>8, <1>10, <1>11

LEMMA ListsUnique ==
  ASSUME NEW S, S \subseteq Nat, NEW f \in [1 .. PulseWindow -> S], NEW g \in [1 .. PulseWindow -> S],
         ListsLast(f, S), ListsLast(g, S)
  PROVE  f = g
  <1> DEFINE D == {j \in 1 .. PulseWindow : f[j] # g[j]}
             j == Last(D)
  <1>1. PulseWindow \in Nat \ {0} BY BufferAssumption
  <1>2. CASE D = {}
    <2>1. \A i \in 1 .. PulseWindow : f[i] = g[i] BY <1>2
    <2>2. f = [i \in 1 .. PulseWindow |-> f[i]] /\ g = [i \in 1 .. PulseWindow |-> g[i]] OBVIOUS
    <2> QED BY <2>1, <2>2, Zenon
  <1>3. CASE D # {}
    <2>1. D \subseteq 0 .. PulseWindow BY <1>1
    <2>2. j \in D /\ \A i \in D : i <= j
      <3> HIDE DEF D
      <3> QED BY <1>1, <1>3, <2>1, LastIs
    <2> HIDE DEF j
    <2>3. j \in 1 .. PulseWindow /\ f[j] # g[j] BY <2>2
    <2>4. \A i \in j + 1 .. PulseWindow : f[i] = g[i]
      <3> SUFFICES ASSUME NEW i \in j + 1 .. PulseWindow, f[i] # g[i] PROVE FALSE OBVIOUS
      <3>1. i \in 1 .. PulseWindow /\ ~(i <= j) BY <1>1, <2>3
      <3>2. i \in D BY <3>1
      <3> QED BY <2>2, <3>1, <3>2
    <2>5. ~(f[j] < g[j]) BY <2>3, <2>4, ListsAgree
    <2>6. ~(g[j] < f[j])
      <3>1. \A i \in j + 1 .. PulseWindow : g[i] = f[i] BY <2>4
      <3> QED BY <2>3, <3>1, ListsAgree
    <2>7. f[j] \in Nat /\ g[j] \in Nat BY <2>3
    <2> QED BY <2>3, <2>5, <2>6, <2>7
  <1> QED BY <1>2, <1>3

\* The entries behind o are those sent as the numbers behind m + o, all of them valid.
Whole(m, o) ==
  /\ m \in Int /\ o \in Nat /\ Len(validEntries) = o + (PulseWindow + 1) * PerSecond
  /\ \A i \in o + 1 .. Len(validEntries) :
       Made(validEntries[i]) /\ Valid(validEntries[i]) /\ Num(validEntries[i]) = m + i
  /\ \A i, j \in o + 1 .. Len(validEntries) : ErrorOf(validEntries[i]) = ErrorOf(validEntries[j])

\* As many messages as LabelsReturn asks for, none of them late, were read within the read
\* window, which is longer than PulseWindow seconds.
LEMMA LatestKept ==
  ASSUME BufferInv, NEW n \in Nat,
         LET T == (PulseWindow + 1) * PerSecond
             N == Len(received)
         IN  N >= T /\ Num(received[N - T + 1]) = n + 1 /\ Num(received[N]) = n + T
             /\ Late(received[N]) = 0
  PROVE  (PulseWindow + 1) * PerSecond <= Len(validEntries)
  <1> DEFINE T  == (PulseWindow + 1) * PerSecond
             N  == Len(received)
             r  == receiver.rate
             L  == Len(Types)
             Q  == (PulseWindow + 1) * r
             a  == received[N - T + 1]
             b  == received[N]
             ca == Cycle(a.tRead)
             cb == Cycle(b.tRead)
  <1>1. /\ receiver \in Receivers /\ N \in Nat /\ Len(validEntries) \in Nat
        /\ \A i \in 1 .. N : Made(received[i])
        /\ \A i \in 1 .. N : i <= N - Len(validEntries) <=> received[i].tRead < b.tRead - ReadWindow * Second
    BY ValidIs DEF BufferInv, BufferTypeOK, History
  <1>2. /\ Second \in Nat \ {0} /\ Epoch \in Nat \ {0} /\ L \in Nat \ {0} /\ r \in Nat \ {0}
        /\ r * Epoch = Second
    BY <1>1, Receiver
  <1>3. PulseWindow \in Nat \ {0} /\ ReadWindow \in Nat \ {0} /\ PulseWindow < ReadWindow
    BY BufferAssumption
  <1>4. T = Q * L /\ Q \in Nat \ {0} /\ T \in Nat \ {0} /\ Q * Epoch <= ReadWindow * Second
    <2> DEFINE p == PulseWindow + 1
    <2>1. p \in Nat \ {0} /\ p <= ReadWindow BY <1>3
    <2>2. T = p * (r * L) BY DEF T, PerSecond
    <2>3. Q = p * r OBVIOUS
    <2> HIDE DEF p, T, Q, r, L
    <2>4. T = Q * L BY <1>2, <2>1, <2>2, <2>3
    <2>5. Q \in Nat \ {0} BY <1>2, <2>1, <2>3
    <2>6. Q * L \in Nat \ {0} BY ONLY <1>2, <2>5
    <2>7. Q * Epoch = p * (r * Epoch) BY <1>2, <2>1, <2>3
    <2>8. p * Second <= ReadWindow * Second BY <1>2, <1>3, <2>1, Product
    <2> QED BY <1>2, <2>4, <2>5, <2>6, <2>7, <2>8
  <1>5. N >= T /\ Num(a) = n + 1 /\ Num(b) = n + T /\ Late(b) = 0 OBVIOUS
  <1>6. N - T + 1 \in 1 .. N /\ N \in 1 .. N
    <2>1. N \in Nat /\ T \in Nat \ {0} /\ N >= T BY <1>1, <1>4, <1>5
    <2> HIDE DEF N, T
    <2> QED BY ONLY <2>1
  <1>7. Made(a) /\ Made(b) BY <1>1, <1>6
  <1>8. /\ a.k \in 1 .. L /\ a.tRead \in Nat /\ ca \in Nat /\ ca * Epoch \in Nat
        /\ Num(a) = ca * L + a.k /\ a.tRead = ca * Epoch + Type(a).at + Late(a) /\ Type(a) = Types[a.k]
    BY <1>1, <1>7, MadeTimes
  <1>9. /\ b.k \in 1 .. L /\ b.tRead \in Nat /\ cb \in Nat /\ cb * Epoch \in Nat
        /\ Num(b) = cb * L + b.k /\ b.tRead = cb * Epoch + Type(b).at + Late(b) /\ Type(b) = Types[b.k]
        /\ b.tRead < cb * Epoch + Epoch
    BY <1>1, <1>7, MadeTimes
  <1>10. Late(a) \in {0, 1} BY <1>7 DEF Made
  <1>11. /\ Types[a.k].at \in Nat /\ Types[b.k].at \in Nat
         /\ b.k < a.k => Types[b.k].at < Types[a.k].at
    BY <1>1, <1>8, <1>9, Receiver DEF L
  <1> DEFINE w == Q * Epoch
             x == ca * Epoch
             y == cb * Epoch
  <1>12. w \in Nat
    <2> HIDE DEF Q
    <2> QED BY <1>2, <1>4
  <1>13. b.tRead <= a.tRead + w
    <2>1. cb * L + b.k <= (ca + Q) * L + a.k
      <3> DEFINE s == ca * L
                 t == cb * L
                 u == Q * L
      <3> HIDE DEF a, b, ca, cb, L, Q, T
      <3>1. (ca + Q) * L = s + u BY <1>2, <1>4, <1>8
      <3>2. s \in Nat /\ t \in Nat /\ u \in Nat BY <1>2, <1>4, <1>8, <1>9
      <3>3. s + a.k = n + 1 /\ t + b.k = n + u BY <1>4, <1>5, <1>8, <1>9
      <3>4. a.k \in Nat /\ b.k \in Nat
        <4>1. L \in Nat /\ a.k \in 1 .. L /\ b.k \in 1 .. L BY <1>2, <1>8, <1>9
        <4> QED BY ONLY <4>1
      <3> HIDE DEF s, t, u
      <3>5. t + b.k <= (s + u) + a.k BY ONLY <3>2, <3>3, <3>4, n \in Nat
      <3> QED BY <3>1, <3>5 DEF t
    <2> HIDE DEF a, b, ca, cb, L, Q
    <2>2. ca + Q \in Nat BY <1>4, <1>8
    <2>3. cb <= ca + Q /\ (cb = ca + Q => b.k <= a.k)
      <3>1. a.k \in 1 .. L /\ b.k \in 1 .. L /\ L \in Nat /\ cb \in Nat BY <1>2, <1>8, <1>9
      <3> QED BY ONLY <2>1, <2>2, <3>1, Positions
    <2>4. (ca + Q) * Epoch = x + w
      <3>1. ca \in Int /\ Q \in Int /\ Epoch \in Int BY <1>2, <1>4, <1>8
      <3> QED BY ONLY <3>1
    <2>5. CASE cb < ca + Q
      <3>1. cb * Epoch + Epoch <= (ca + Q) * Epoch
        <4>1. cb \in Int /\ ca + Q \in Int /\ Epoch \in Nat BY <1>2, <1>9, <2>2
        <4> QED BY ONLY <2>5, <4>1, ProductStrict
      <3>2. y + Epoch <= x + w BY <2>4, <3>1
      <3>3. b.tRead \in Nat /\ y \in Nat /\ b.tRead < y + Epoch BY <1>9
      <3>4. a.tRead \in Nat /\ x \in Nat /\ x <= a.tRead BY <1>8, <1>10, <1>11
      <3> HIDE DEF x, y, w
      <3> QED BY ONLY <1>2, <1>12, <3>2, <3>3, <3>4
    <2>6. CASE cb = ca + Q
      <3>1. Types[b.k].at <= Types[a.k].at
        <4>1. b.k < a.k \/ b.k = a.k
          <5>1. L \in Nat /\ a.k \in 1 .. L /\ b.k \in 1 .. L /\ b.k <= a.k BY <1>2, <1>8, <1>9, <2>3, <2>6
          <5> QED BY ONLY <5>1
        <4> QED BY <1>11, <4>1
      <3>2. y = x + w BY <2>4, <2>6
      <3>3. a.tRead = x + Types[a.k].at + Late(a) /\ x \in Nat BY <1>8
      <3>4. b.tRead = y + Types[b.k].at + 0 /\ y \in Nat BY <1>5, <1>9
      <3> HIDE DEF x, y, w
      <3> QED BY ONLY <1>10, <1>11, <1>12, <3>1, <3>2, <3>3, <3>4
    <2> QED BY <1>4, <1>8, <1>9, <2>3, <2>5, <2>6
  <1>14. ~(a.tRead < b.tRead - ReadWindow * Second)
    <2> DEFINE z == ReadWindow * Second
    <2>1. z \in Nat /\ w <= z BY <1>2, <1>3, <1>4
    <2>2. a.tRead \in Nat /\ b.tRead \in Nat BY <1>8, <1>9
    <2> HIDE DEF z, w, a, b
    <2> QED BY ONLY <1>12, <1>13, <2>1, <2>2 DEF z
  <1>15. ~(N - T + 1 <= N - Len(validEntries)) BY <1>1, <1>6, <1>14
  <1>16. N \in Nat /\ T \in Nat /\ Len(validEntries) \in Nat BY <1>1, <1>4
  <1> HIDE DEF N, T
  <1>17. T <= Len(validEntries) BY ONLY <1>15, <1>16
  <1> QED BY <1>17 DEF T

\* The messages of LabelsReturn are the last ones in the buffer.
LEMMA LatestWhole ==
  ASSUME BufferInv,
         LET N == Len(received)
             T == (PulseWindow + 1) * PerSecond
         IN  N >= T /\ Clean(SubSeq(received, N - T + 1, N))
  PROVE  \E m \in Int, o \in Nat : Whole(m, o)
  <1> DEFINE T == (PulseWindow + 1) * PerSecond
             N == Len(received)
             v == Len(validEntries)
             latest == SubSeq(received, N - T + 1, N)
  <1>1. /\ receiver \in Receivers /\ N \in Nat /\ v \in Nat /\ v <= N /\ received \in Seq(Entry)
        /\ sent \in Nat
        /\ \A i \in 1 .. N : Made(received[i])
        /\ \A i \in 1 .. v : validEntries[i] = received[N - v + i]
    BY ValidIs DEF BufferInv, BufferTypeOK, History
  <1>2. T \in Nat \ {0}
    <2>1. receiver.rate \in Nat \ {0} /\ Len(Types) \in Nat \ {0} BY <1>1, Receiver
    <2>2. PerSecond \in Nat \ {0} BY <2>1 DEF PerSecond
    <2>3. PulseWindow + 1 \in Nat \ {0} BY BufferAssumption
    <2> QED BY <2>2, <2>3
  <1>3. N >= T /\ Clean(latest) OBVIOUS
  <1> HIDE DEF T
  <1>4. N - T \in 0 .. N BY <1>1, <1>2, <1>3
  <1>5. Len(latest) = T /\ \A i \in 1 .. T : latest[i] = received[N - T + i]
    <2>1. N - (N - T) = T BY <1>1, <1>2
    <2>2. Len(latest) = N - (N - T) /\ \A i \in 1 .. N - (N - T) : latest[i] = received[(N - T) + i]
      BY <1>1, <1>4, EndOf
    <2> QED BY <2>1, <2>2
  <1>6. PICK n \in 0 .. sent : \A i \in 1 .. T :
          Valid(latest[i]) /\ latest[i].k = Kind(n + i) /\ latest[i].tRead = ReadAt(n + i)
    BY <1>3, <1>5 DEF Clean
  <1>7. \A i, j \in 1 .. T : ErrorOf(latest[i]) = ErrorOf(latest[j])
    BY <1>3, <1>5 DEF Clean, SameError
  <1> HIDE DEF latest, N
  <1>8. n \in Nat BY <1>1
  <1>9. ASSUME NEW i \in 1 .. T PROVE Made(latest[i]) /\ Num(latest[i]) = n + i
    <2>1. N - T + i \in 1 .. N /\ i \in Nat \ {0} BY <1>1, <1>2, <1>4
    <2>2. Made(latest[i]) BY <1>1, <1>5, <2>1
    <2> QED BY <1>1, <1>6, <1>8, <2>1, <2>2, CleanNumbers
  <1>10. T <= v
    <2>1. 1 \in 1 .. T /\ T \in 1 .. T /\ N - T + T = N BY <1>1, <1>2
    <2>2. latest[1] = received[N - T + 1] /\ latest[T] = received[N] BY <1>5, <2>1
    <2>3. Num(received[N - T + 1]) = n + 1 /\ Num(received[N]) = n + T BY <1>9, <2>1, <2>2
    <2>4. Late(received[N]) = 0
      <3> DEFINE e == latest[T]
      <3>1. e.k = Kind(n + T) /\ e.tRead = ReadAt(n + T) /\ n + T \in Nat \ {0} BY <1>2, <1>6, <1>8, <2>1
      <3>2. e.tRead = Cycle(e.tRead) * Epoch + Types[e.k].at BY <1>1, <3>1, Sending
      <3>3. e.tRead = Cycle(e.tRead) * Epoch + Types[e.k].at + Late(e) /\ Cycle(e.tRead) * Epoch \in Nat
            /\ e.k \in 1 .. Len(Types)
        BY <1>1, <1>9, <2>1, MadeTimes
      <3>4. Types[e.k].at \in Nat BY <1>1, <3>3, Receiver
      <3>5. Late(e) \in {0, 1} BY <1>9, <2>1 DEF Made
      <3> DEFINE x == Cycle(e.tRead) * Epoch
      <3> HIDE DEF x
      <3>6. e.tRead = x + Types[e.k].at /\ e.tRead = x + Types[e.k].at + Late(e) /\ x \in Nat
        BY <3>2, <3>3 DEF x
      <3> HIDE DEF e
      <3>7. Late(e) = 0 BY ONLY <3>4, <3>5, <3>6
      <3> QED BY <2>2, <3>7 DEF e
    <2> QED BY <1>3, <1>8, <2>3, <2>4, LatestKept DEF N, T
  <1> DEFINE o == v - T
             m == n - o
  <1>11. o \in Nat /\ m \in Int /\ v = o + T BY <1>1, <1>2, <1>8, <1>10
  <1>12. ASSUME NEW i \in o + 1 .. v
         PROVE  validEntries[i] = latest[i - o] /\ i - o \in 1 .. T /\ n + (i - o) = m + i
    <2>1. N \in Nat /\ T \in Nat /\ v \in Nat /\ o \in Nat /\ v = o + T /\ n \in Nat /\ m = n - o
      BY <1>1, <1>2, <1>8, <1>11
    <2> HIDE DEF o, m, v
    <2>2. i - o \in 1 .. T /\ i \in 1 .. v /\ N - T + (i - o) = N - v + i /\ n + (i - o) = m + i
      BY ONLY <1>12, <2>1
    <2> QED BY <1>1, <1>5, <2>2 DEF v
  <1> HIDE DEF o, m, v
  <1>13. \A i \in o + 1 .. v : Made(validEntries[i]) /\ Valid(validEntries[i]) /\ Num(validEntries[i]) = m + i
    BY <1>6, <1>9, <1>12
  <1>14. \A i, j \in o + 1 .. v : ErrorOf(validEntries[i]) = ErrorOf(validEntries[j])
    BY <1>7, <1>12
  <1>15. Whole(m, o) BY <1>11, <1>13, <1>14 DEF Whole, v, T
  <1> QED BY <1>11, <1>15

\* Where in the whole part of the buffer the message of type k of an epoch is.
Place(m, k, c) == c * Len(Types) + k - m

\* The epochs of which the whole part has the message of type k are those of PulseWindow + 1
\* seconds from c0.
Runs(m, o, k, c0) ==
  /\ \A c \in Nat : Place(m, k, c) \in o + 1 .. Len(validEntries)
       <=> c0 <= c /\ c < c0 + (PulseWindow + 1) * receiver.rate
  /\ \A c \in Nat : c0 <= c /\ c < c0 + (PulseWindow + 1) * receiver.rate
       => LET e == validEntries[Place(m, k, c)]
          IN  Made(e) /\ Valid(e) /\ Cycle(e.tRead) = c /\ e.k = k

LEMMA WholeHas ==
  ASSUME BufferInv, NEW m, NEW o, Whole(m, o), NEW k \in 1 .. Len(Types)
  PROVE  \E c0 \in Nat : Runs(m, o, k, c0)
  <1> DEFINE v == Len(validEntries)
             L == Len(Types)
             r == receiver.rate
             Q == (PulseWindow + 1) * r
             n == m + o
             z == (n - k) \div L
  <1>1. receiver \in Receivers BY DEF BufferInv, BufferTypeOK
  <1>2. L \in Nat \ {0} /\ r \in Nat \ {0} BY <1>1, Receiver
  <1>3. PulseWindow \in Nat \ {0} BY BufferAssumption
  <1>4. Q \in Nat \ {0} /\ Q * L \in Nat \ {0} /\ (PulseWindow + 1) * PerSecond = Q * L
    <2> DEFINE p == PulseWindow + 1
    <2>1. p \in Nat \ {0} BY <1>3
    <2>2. (PulseWindow + 1) * PerSecond = p * (r * L) BY DEF PerSecond
    <2> HIDE DEF p, r, L
    <2>3. p * (r * L) = (p * r) * L /\ p * r \in Nat \ {0} BY <1>2, <2>1
    <2>4. (p * r) * L \in Nat \ {0} BY <1>2, <2>3
    <2> QED BY <2>2, <2>3, <2>4 DEF p
  <1>5. /\ m \in Int /\ o \in Nat /\ v = o + Q * L
        /\ \A i \in o + 1 .. v : Made(validEntries[i]) /\ Valid(validEntries[i]) /\ Num(validEntries[i]) = m + i
    BY <1>4 DEF Whole
  <1> HIDE DEF v, L, r, Q
  <1>6. n \in Nat
    <2>1. o + 1 \in o + 1 .. v BY <1>4, <1>5
    <2>2. Num(validEntries[o + 1]) \in Nat /\ 0 < Num(validEntries[o + 1]) BY <1>1, <1>5, <2>1, MadeTimes
    <2>3. Num(validEntries[o + 1]) = m + (o + 1) BY <1>5, <2>1
    <2> QED BY <1>5, <2>2, <2>3
  <1>7. k \in Int /\ 1 <= k /\ k <= L
    <2>1. k \in 1 .. L BY DEF L
    <2> QED BY <1>2, <2>1
  <1> HIDE DEF n
  <1>8. PICK c0 \in Int : /\ c0 = ((n - k) \div L) + 1
                          /\ \A c \in Int : /\ n < c * L + k <=> c0 <= c
                                            /\ c * L + k <= n + Q * L <=> c < c0 + Q
    <2>1. n \in Int /\ Q \in Nat BY <1>4, <1>6
    <2> QED BY <1>2, <1>7, <2>1, Cover
  <1>9. c0 \in Nat
    <2>1. n - k \in Int BY <1>6, <1>7
    <2>2. z \in Int /\ (n - k) % L \in 0 .. L - 1 /\ n - k = z * L + ((n - k) % L)
      BY <1>2, <2>1, Division
    <2> HIDE DEF z
    <2>3. z + 1 < 0 => (z + 1) * L + L <= 0 * L BY <1>2, <2>2, ProductStrict
    <2>4. (z + 1) * L = z * L + L /\ z * L \in Int /\ 0 * L = 0 BY <1>2, <2>2
    <2> DEFINE x == z * L
               y == (n - k) % L
    <2>5. y \in Int /\ y < L /\ n - k = x + y /\ x \in Int /\ L \in Nat BY <1>2, <2>2, <2>4
    <2>6. z + 1 < 0 => (x + L) + L <= 0 BY <2>3, <2>4
    <2> HIDE DEF x, y
    <2>7. 0 <= z + 1 BY ONLY <1>6, <1>7, <2>2, <2>5, <2>6
    <2>8. c0 = z + 1 BY <1>8 DEF z
    <2> QED BY <2>2, <2>7, <2>8
  <1>10. ASSUME NEW c \in Nat
         PROVE  Place(m, k, c) \in o + 1 .. v <=> c0 <= c /\ c < c0 + Q
    <2> DEFINE x == c * L
               w == Q * L
    <2>1. Place(m, k, c) = x + k - m BY DEF Place, L
    <2>2. x \in Nat /\ w \in Nat BY <1>2, <1>4, <1>10
    <2>3. n < x + k <=> c0 <= c BY <1>8, <1>10
    <2>4. x + k <= n + w <=> c < c0 + Q BY <1>8, <1>10
    <2>5. v = o + w /\ m \in Int /\ o \in Nat BY <1>5
    <2>6. n = m + o BY DEF n
    <2> HIDE DEF x, w
    <2>7. x + k - m \in o + 1 .. v <=> n < x + k /\ x + k <= n + w
      BY ONLY <1>7, <2>2, <2>5, <2>6
    <2> QED BY <2>1, <2>3, <2>4, <2>7
  <1>11. ASSUME NEW c \in Nat, c0 <= c /\ c < c0 + Q
         PROVE  LET e == validEntries[Place(m, k, c)]
                IN  Made(e) /\ Valid(e) /\ Cycle(e.tRead) = c /\ e.k = k
    <2> DEFINE i == Place(m, k, c)
               e == validEntries[i]
    <2>1. i \in o + 1 .. v BY <1>10, <1>11
    <2>2. m + i = c * Len(Types) + k
      <3> DEFINE x == c * Len(Types)
      <3>1. x \in Nat BY <1>2, <1>11 DEF L
      <3>2. i = x + k - m BY DEF Place
      <3> HIDE DEF x, i
      <3>3. m + i = x + k BY ONLY <1>5, <1>7, <3>1, <3>2
      <3> QED BY <3>3 DEF x
    <2> HIDE DEF i
    <2>3. Made(e) /\ Valid(e) /\ Num(e) = c * Len(Types) + k BY <1>5, <2>1, <2>2
    <2> HIDE DEF e
    <2>4. Cycle(e.tRead) = c /\ e.k = k BY <1>1, <1>11, <2>3, ByNumber
    <2> QED BY <2>3, <2>4 DEF e, i
  <1>12. Runs(m, o, k, c0) BY <1>10, <1>11 DEF Runs, v, r, Q
  <1> QED BY <1>9, <1>12

\* There is a type that begins an epoch, and all its messages in the whole part count.
LEMMA TypeFound ==
  ASSUME BufferInv, NEW m, NEW o, Whole(m, o),
         NEW h \in o + 1 .. Len(validEntries), eligible(validEntries[h])
  PROVE  LET k == epochStartMsg(bestEntries)
         IN  /\ k \in 1 .. Len(Types)
             /\ \A i \in o + 1 .. Len(validEntries) :
                  validEntries[i].k = k => i \in bestEntries /\ eligible(validEntries[i])
  <1> DEFINE es    == validEntries
             v     == Len(es)
             el    == {i \in 1 .. v : eligible(es[i])}
             best  == bestEntries
             later == laterEntries(best)
             l     == Earliest(later)
             first == Earliest(best)
  <1>1. /\ receiver \in Receivers /\ lsError \in {0, 1} /\ v \in Nat
        /\ \A i \in 1 .. v : Made(es[i])
    BY ValidOrder, ValidIs DEF BufferInv, BufferTypeOK
  <1>2. /\ o \in Nat
        /\ \A i \in o + 1 .. v : Made(es[i]) /\ Valid(es[i])
        /\ \A i, j \in o + 1 .. v : ErrorOf(es[i]) = ErrorOf(es[j])
    BY DEF Whole
  <1>3. /\ best \subseteq 1 .. v
        /\ \A i \in best : Made(es[i]) /\ eligible(es[i])
        /\ \A i \in best : \A j \in 1 .. v : eligible(es[j]) /\ es[j].k = es[i].k => j \in best
        /\ \A i, j \in best : es[i].tai = NoTime <=> es[j].tai = NoTime
    BY BestAre
  <1>4. best = {i \in el : \A j \in el : Rank(es[i]) <= Rank(es[j])} BY DEF bestEntries
  <1>5. later = {i \in best : StatedTime(es[i]) # StatedTime(es[first])} BY DEF laterEntries
  <1>6. epochStartMsg(best) = IF later = {} THEN 0 ELSE es[l].k BY DEF epochStartMsg
  <1>7. h \in el /\ h \in o + 1 .. v
    <2>1. h \in o + 1 .. v /\ eligible(es[h]) OBVIOUS
    <2> HIDE DEF v, es
    <2>2. h \in 1 .. v BY <1>1, <1>2, <2>1
    <2> QED BY <2>1, <2>2
  <1> HIDE DEF es, v, best
  <1>8. ASSUME NEW i \in best, NEW j \in o + 1 .. v, es[j].k = es[i].k
        PROVE  j \in best /\ eligible(es[j])
    <2>1. j \in 1 .. v BY <1>1, <1>2, <1>8
    <2>2. Type(es[j]) = Type(es[i]) BY <1>8 DEF Type
    <2>3. eligible(es[j]) BY <1>2, <1>3, <1>8, <2>2 DEF eligible
    <2> QED BY <1>3, <1>8, <2>1, <2>3
  <1>9. PICK b \in best : TRUE
    <2> DEFINE R == {Rank(es[i]) : i \in el}
               q == Earliest(R)
    <2>1. R \subseteq Nat /\ R # {}
      <3>1. \A i \in el : Rank(es[i]) \in Nat BY <1>1, RankIs
      <3> HIDE DEF el
      <3> QED BY <1>7, <3>1
    <2>2. q \in R /\ \A j \in R : q <= j
      <3> HIDE DEF R
      <3> QED BY <2>1, EarliestIs
    <2> HIDE DEF q, el
    <2>3. PICK i \in el : q = Rank(es[i]) BY <2>2
    <2>4. \A j \in el : Rank(es[i]) <= Rank(es[j]) BY <2>2, <2>3
    <2> QED BY <1>4, <2>3, <2>4
  <1>10. later # {}
    <2> DEFINE k == es[b].k
               r == (PulseWindow + 1) * receiver.rate
    <2>1. k \in 1 .. Len(Types) BY <1>1, <1>3, MadeTimes
    <2>2. r \in Nat /\ 1 < r
      <3> DEFINE p == PulseWindow + 1
                 s == receiver.rate
      <3>1. p \in Nat /\ 1 < p BY BufferAssumption
      <3>2. s \in Nat \ {0} BY <1>1, Receiver
      <3> HIDE DEF p, s
      <3>3. p * s \in Nat /\ 1 < p * s BY ONLY <3>1, <3>2
      <3> QED BY <3>3 DEF p, s
    <2> HIDE DEF k
    <2>3. PICK c0 \in Nat : Runs(m, o, k, c0) BY <2>1, WholeHas
    <2>4. /\ \A c \in Nat : Place(m, k, c) \in o + 1 .. Len(validEntries) <=> c0 <= c /\ c < c0 + r
          /\ \A c \in Nat : c0 <= c /\ c < c0 + r
               => LET e == validEntries[Place(m, k, c)]
                  IN  Made(e) /\ Valid(e) /\ Cycle(e.tRead) = c /\ e.k = k
      BY <2>3 DEF Runs
    <2> HIDE DEF r
    <2>5. ASSUME NEW c \in Nat, c0 <= c, c < c0 + r
          PROVE  LET i == Place(m, k, c)
                 IN  i \in o + 1 .. v /\ Cycle(es[i].tRead) = c /\ i \in best
      <3> DEFINE i == Place(m, k, c)
      <3>1. i \in o + 1 .. v /\ Cycle(es[i].tRead) = c /\ es[i].k = k
        <4>1. i \in o + 1 .. Len(validEntries) BY <2>5, <2>4
        <4>2. Cycle(validEntries[i].tRead) = c /\ validEntries[i].k = k BY <2>5, <2>4
        <4> QED BY <4>1, <4>2 DEF es, v
      <3> HIDE DEF i
      <3>2. i \in best BY <1>8, <3>1 DEF k
      <3> QED BY <3>1, <3>2 DEF i
    <2> DEFINE i == Place(m, k, c0)
               j == Place(m, k, c0 + 1)
    <2>6. c0 + 1 \in Nat /\ c0 <= c0 + 1 /\ c0 + 1 < c0 + r /\ c0 <= c0 /\ c0 < c0 + r BY <2>2
    <2>7. i \in o + 1 .. v /\ Cycle(es[i].tRead) = c0 /\ i \in best BY <2>5, <2>6
    <2>8. j \in o + 1 .. v /\ Cycle(es[j].tRead) = c0 + 1 /\ j \in best BY <2>5, <2>6
    <2> HIDE DEF i, j
    <2>9. StatedTime(es[i]) # StatedTime(es[j])
      <3>1. /\ Made(es[i]) /\ eligible(es[i]) /\ Made(es[j]) /\ eligible(es[j])
            /\ (es[i].tai = NoTime <=> es[j].tai = NoTime) /\ ErrorOf(es[i]) = ErrorOf(es[j])
        BY <1>2, <1>3, <2>7, <2>8
      <3>2. Cycle(es[i].tRead) # Cycle(es[j].tRead) BY <2>7, <2>8
      <3> QED BY <1>1, <3>1, <3>2, StatedIs
    <2>10. i \in later \/ j \in later BY <1>5, <2>7, <2>8, <2>9
    <2> QED BY <2>10
  <1>11. l \in best
    <2>1. later \subseteq best BY <1>5
    <2>2. later \subseteq Nat
      <3>1. 1 .. v \subseteq Nat BY <1>1
      <3> HIDE DEF later
      <3> QED BY <1>3, <2>1, <3>1
    <2>3. l \in later
      <3> HIDE DEF later
      <3> QED BY <1>10, <2>2, EarliestIs
    <2> HIDE DEF l
    <2> QED BY <2>1, <2>3
  <1> HIDE DEF later, l
  <1>12. epochStartMsg(best) = es[l].k BY <1>6, <1>10
  <1>13. es[l].k \in 1 .. Len(Types) BY <1>1, <1>3, <1>11, MadeTimes
  <1>14. \A i \in o + 1 .. v : es[i].k = es[l].k => i \in best /\ eligible(es[i]) BY <1>8, <1>11
  <1> QED BY <1>12, <1>13, <1>14 DEF es, v, best

\* The seconds whose first epoch is among them.
LEMMA SecondsHave ==
  ASSUME NEW c0 \in Nat, NEW r \in Nat \ {0}
  PROVE  \E s0 \in Nat : \A s \in Int :
           s * r \in c0 .. c0 + (PulseWindow + 1) * r - 1 <=> s0 <= s /\ s < s0 + PulseWindow + 1
  <1> DEFINE p == PulseWindow + 1
             n == c0 - 1
             w == p * r
  <1>1. p \in Nat \ {0} /\ n \in Int /\ 0 \in Int BY BufferAssumption
  <1>2. PICK s0 \in Int : /\ s0 = ((n - 0) \div r) + 1
                          /\ \A s \in Int : /\ n < s * r + 0 <=> s0 <= s
                                            /\ s * r + 0 <= n + p * r <=> s < s0 + p
    <2> HIDE DEF p, n
    <2> QED BY <1>1, Cover
  <1>3. w \in Nat BY <1>1
  <1>4. s0 \in Nat
    <2>1. (-1) * r + 0 <= n BY <1>1
    <2>2. ~(n < (-1) * r + 0) BY <1>1, <2>1
    <2>3. ~(s0 <= -1) BY <1>2, <2>2
    <2> QED BY <1>2, <2>3
  <1>5. ASSUME NEW s \in Int PROVE s * r \in c0 .. c0 + w - 1 <=> s0 <= s /\ s < s0 + PulseWindow + 1
    <2> DEFINE x == s * r
    <2>1. x \in Int BY <1>5
    <2>2. n < x + 0 <=> s0 <= s BY <1>2, <1>5
    <2>3. x + 0 <= n + w <=> s < s0 + p BY <1>2, <1>5
    <2> HIDE DEF x, w
    <2>4. PulseWindow \in Nat BY BufferAssumption
    <2>5. s < s0 + p <=> s < s0 + PulseWindow + 1 BY ONLY <1>2, <1>5, <2>4 DEF p
    <2>6. x \in c0 .. c0 + w - 1 <=> n < x + 0 /\ x + 0 <= n + w BY ONLY <1>3, <2>1, c0 \in Nat DEF n
    <2> QED BY <2>2, <2>3, <2>5, <2>6 DEF x
  <1> QED BY <1>4, <1>5 DEF w, p

\* An epoch that begins a second is the first of its second.
LEMMA FirstEpoch ==
  ASSUME receiver \in Receivers, NEW c \in Nat
  PROVE  (c * Epoch) % Second = 0 <=> \E s \in Nat : c = s * receiver.rate
  <1> DEFINE r == receiver.rate
             x == c * Epoch
             z == x \div Second
  <1>1. Second \in Nat \ {0} /\ Epoch \in Nat \ {0} /\ r \in Nat \ {0} /\ r * Epoch = Second
    BY Receiver
  <1> HIDE DEF r
  <1>2. x \in Nat BY <1>1
  <1>3. ASSUME x % Second = 0 PROVE \E s \in Nat : c = s * r
    <2>1. z \in Nat /\ x = z * Second + (x % Second)
      <3>1. x \in Int BY <1>2
      <3> HIDE DEF x
      <3> QED BY <1>1, <1>2, <3>1, Division, DivisionNat
    <2>2. x = z * Second
      <3> HIDE DEF x, z
      <3> QED BY <1>1, <1>3, <2>1
    <2> HIDE DEF z
    <2>3. z * Second = (z * r) * Epoch /\ z * r \in Nat BY <1>1, <2>1
    <2>4. c * Epoch = (z * r) * Epoch BY <2>2, <2>3
    <2> DEFINE d == z * r
    <2>5. d \in Nat /\ c * Epoch = d * Epoch BY <2>3, <2>4
    <2> HIDE DEF d
    <2>6. c < d => c * Epoch + Epoch <= d * Epoch BY <1>1, <2>5, ProductStrict
    <2>7. d < c => d * Epoch + Epoch <= c * Epoch BY <1>1, <2>5, ProductStrict
    <2>8. c = d
      <3> DEFINE y == d * Epoch
      <3>1. y \in Nat /\ x = y BY <1>2, <2>5
      <3>2. (c < d => x + Epoch <= y) /\ (d < c => y + Epoch <= x) BY <2>6, <2>7
      <3> HIDE DEF x, y
      <3> QED BY ONLY <1>1, <2>5, <3>1, <3>2, c \in Nat
    <2> QED BY <2>1, <2>8 DEF d
  <1>4. ASSUME NEW s \in Nat, c = s * r PROVE x % Second = 0
    <2>1. x = s * Second + 0 BY <1>1, <1>4
    <2>2. (s * Second + 0) % Second = 0 BY <1>1, Quotient
    <2> QED BY <2>1, <2>2
  <1> QED BY <1>3, <1>4 DEF r

LEMMA LabelsDoReturn == BufferInv => LabelsReturn
  <1> DEFINE N      == Len(received)
             latest == SubSeq(received, N - (PulseWindow + 1) * PerSecond + 1, N)
  <1> SUFFICES ASSUME BufferInv, N >= (PulseWindow + 1) * PerSecond, Clean(latest),
                      NEW h0 \in 1 .. Len(latest), eligible(latest[h0])
               PROVE  GetPostTimeMessages # <<>>
    BY DEF LabelsReturn
  <1> DEFINE es == validEntries
             v  == Len(es)
             L  == Len(Types)
             r  == receiver.rate
             k  == epochStartMsg(bestEntries)
             P  == PulseWindow
  <1>1. PICK m \in Int, o \in Nat : Whole(m, o) BY LatestWhole
  <1>2. /\ receiver \in Receivers /\ lsError \in {0, 1} /\ v \in Nat
        /\ \A i \in 1 .. v : Made(es[i])
    BY ValidOrder, ValidIs DEF BufferInv, BufferTypeOK
  <1>3. /\ Second \in Nat \ {0} /\ Epoch \in Nat \ {0} /\ L \in Nat \ {0} /\ r \in Nat \ {0}
        /\ r * Epoch = Second
    BY <1>2, Receiver
  <1>4. P \in Nat \ {0} BY BufferAssumption
  <1>5. /\ \A i \in o + 1 .. v : Made(es[i]) /\ Valid(es[i]) /\ Num(es[i]) = m + i
        /\ \A i, j \in o + 1 .. v : ErrorOf(es[i]) = ErrorOf(es[j])
    BY <1>1 DEF Whole
  <1>6. PICK h \in o + 1 .. v : eligible(es[h])
    <2> DEFINE T == (PulseWindow + 1) * PerSecond
    <2>1. T \in Nat
      <3>1. receiver.rate \in Nat /\ Len(Types) \in Nat BY <1>3
      <3>2. PerSecond \in Nat BY ONLY <3>1 DEF PerSecond
      <3>3. PulseWindow + 1 \in Nat BY <1>4
      <3> QED BY ONLY <3>2, <3>3
    <2>2. received \in Seq(Entry) /\ N \in Nat /\ v <= N /\ \A i \in 1 .. v : es[i] = received[N - v + i]
      BY ValidIs
    <2>3. v = o + T /\ N >= T BY <1>1 DEF Whole
    <2> HIDE DEF T, v
    <2>4. N - T \in 0 .. N /\ N - (N - T) = T BY <2>1, <2>2, <2>3
    <2>5. latest = SubSeq(received, (N - T) + 1, N) BY DEF T
    <2>6. Len(latest) = T /\ \A i \in 1 .. T : latest[i] = received[(N - T) + i]
      <3>1. /\ Len(SubSeq(received, (N - T) + 1, N)) = N - (N - T)
            /\ \A i \in 1 .. N - (N - T) : SubSeq(received, (N - T) + 1, N)[i] = received[(N - T) + i]
        BY <2>2, <2>4, EndOf
      <3> QED BY <2>4, <2>5, <3>1
    <2>7. h0 \in 1 .. T /\ eligible(latest[h0]) BY <2>6
    <2> HIDE DEF latest, N
    <2>8. o + h0 \in o + 1 .. v /\ o + h0 \in 1 .. v /\ N - v + (o + h0) = (N - T) + h0
      BY <2>1, <2>2, <2>3, <2>7
    <2>9. es[o + h0] = latest[h0] BY <2>2, <2>6, <2>7, <2>8
    <2> QED BY <2>7, <2>8, <2>9
  <1>7. /\ k \in 1 .. L
        /\ \A i \in o + 1 .. v : es[i].k = k => i \in bestEntries /\ eligible(es[i])
    BY <1>1, <1>6, TypeFound
  <1> HIDE DEF k
  <1>8. PICK c0 \in Nat : Runs(m, o, k, c0)
    <2>1. k \in 1 .. Len(Types) BY <1>7
    <2> QED BY <1>1, <2>1, WholeHas
  <1>9. /\ \A c \in Nat : Place(m, k, c) \in o + 1 .. v <=> c0 <= c /\ c < c0 + (P + 1) * r
        /\ \A c \in Nat : c0 <= c /\ c < c0 + (P + 1) * r
             => LET e == es[Place(m, k, c)]
                IN  Made(e) /\ Valid(e) /\ Cycle(e.tRead) = c /\ e.k = k
    BY <1>8 DEF Runs
  <1>10. PICK s0 \in Nat : \A s \in Int : s * r \in c0 .. c0 + (P + 1) * r - 1 <=> s0 <= s /\ s < s0 + P + 1
    BY <1>3, SecondsHave
  <1> HIDE DEF es, v, L, r, P
  \* The epoch, and the entry, of the last seconds.
  <1> DEFINE cy(j) == (s0 + j) * r
             g     == [j \in 1 .. P |-> Place(m, k, cy(j))]
             A     == alignedEntries
  <1>11. ASSUME NEW s \in Nat
         PROVE  s * r \in Nat /\ (Place(m, k, s * r) \in o + 1 .. v <=> s0 <= s /\ s < s0 + P + 1)
    <2> DEFINE x == s * r
               w == (P + 1) * r
    <2>1. x \in Nat /\ w \in Nat BY <1>3, <1>4, <1>11
    <2>2. x \in c0 .. c0 + w - 1 <=> s0 <= s /\ s < s0 + P + 1 BY <1>10
    <2>3. Place(m, k, x) \in o + 1 .. v <=> c0 <= x /\ x < c0 + w BY <1>9, <2>1
    <2> HIDE DEF x, w
    <2>4. x \in c0 .. c0 + w - 1 <=> c0 <= x /\ x < c0 + w BY <2>1
    <2> QED BY <2>1, <2>2, <2>3, <2>4 DEF x
  <1>12. ASSUME NEW j \in 1 .. P
         PROVE  LET e == es[g[j]]
                IN  /\ g[j] \in o + 1 .. v /\ g[j] \in bestEntries
                    /\ Made(e) /\ eligible(e) /\ e.k = k
                    /\ cy(j) \in Nat /\ Cycle(e.tRead) = cy(j)
    <2> DEFINE s == s0 + j
               i == Place(m, k, cy(j))
    <2>1. s \in Nat /\ s0 <= s /\ s < s0 + P + 1 BY <1>4
    <2>2. cy(j) \in Nat /\ i \in o + 1 .. v BY <1>11, <2>1
    <2>3. g[j] = i OBVIOUS
    <2> HIDE DEF g
    <2>4. Made(es[i]) /\ Cycle(es[i].tRead) = cy(j) /\ es[i].k = k BY <1>9, <2>2
    <2> HIDE DEF i
    <2>5. i \in bestEntries /\ eligible(es[i]) BY <1>7, <2>2, <2>4
    <2> QED BY <2>2, <2>3, <2>4, <2>5
  <1>13. ASSUME NEW j \in 1 .. P PROVE g[j] \in A
    <2> DEFINE e == es[g[j]]
    <2>1. /\ g[j] \in bestEntries /\ Made(e) /\ eligible(e) /\ e.k = k
          /\ cy(j) \in Nat /\ Cycle(e.tRead) = cy(j)
      BY <1>12
    <2> HIDE DEF g
    <2>2. /\ Due(e) = Cycle(e.tRead) * Epoch /\ Due(e) \in Nat
          /\ toTAI(e) = Due(e) + (IF e.tai # NoTime THEN 0 ELSE ErrorOf(e) - lsError) * Second
      BY <1>2, <2>1, EligibleTime, MadeTimes
    <2>3. Due(e) = (s0 + j) * Second + 0
      <3>1. Due(e) = ((s0 + j) * r) * Epoch BY <2>1, <2>2
      <3>2. s0 + j \in Nat BY <1>4
      <3>3. ((s0 + j) * r) * Epoch = (s0 + j) * (r * Epoch) BY ONLY <1>3, <3>2
      <3>4. (s0 + j) * Second \in Int BY ONLY <1>3, <3>2
      <3> QED BY ONLY <1>3, <3>1, <3>3, <3>4
    <2> DEFINE d == IF e.tai # NoTime THEN 0 ELSE ErrorOf(e) - lsError
               q == s0 + j + d
    <2>4. d \in Int
      <3>1. ErrorOf(e) \in {0, 1} BY <1>2, <2>1, MadeUTC
      <3> QED BY ONLY <1>2, <3>1
    <2>5. toTAI(e) = Due(e) + d * Second BY <2>2
    <2> HIDE DEF d, e
    <2>6. q \in Int /\ toTAI(e) = q * Second + 0 BY <1>3, <1>4, <2>3, <2>4, <2>5
    <2> HIDE DEF q
    <2>7. (q * Second + 0) % Second = 0
      <3>1. Second \in Nat \ {0} /\ 0 < Second /\ q \in Int BY <1>3, <2>6
      <3>2. (q * Second + 0) \div Second = q /\ (q * Second + 0) % Second = 0
        BY ONLY <3>1, 0 \in Int, 0 <= 0, Quotient
      <3> QED BY <3>2
    <2>8. toTAI(e) % Second = 0 BY <2>6, <2>7
    <2> QED BY <2>1, <2>8 DEF alignedEntries, k, es, e
  <1>14. ASSUME NEW i \in 1 .. P, NEW j \in 1 .. P, i < j PROVE g[i] < g[j]
    <2> DEFINE a == s0 + i
               b == s0 + j
    <2>1. a \in Nat /\ b \in Nat /\ a < b BY <1>4, <1>14
    <2>2. g[i] = a * r * L + k - m /\ g[j] = b * r * L + k - m BY DEF Place, L
    <2> HIDE DEF a, b, g
    <2>3. a * r + r <= b * r BY <1>3, <2>1, ProductStrict
    <2> DEFINE x == a * r
               y == b * r
    <2>4. x \in Nat /\ y \in Nat BY <1>3, <2>1
    <2>5. x < y
      <3>1. x + r <= y BY <2>3
      <3> HIDE DEF x, y
      <3> QED BY ONLY <1>3, <2>4, <3>1
    <2>6. g[i] = x * L + k - m /\ g[j] = y * L + k - m BY <2>2
    <2> HIDE DEF x, y
    <2>7. x * L + L <= y * L BY <1>3, <2>4, <2>5, ProductStrict
    <2>8. x * L \in Nat /\ y * L \in Nat BY <1>3, <2>4
    <2>9. k \in Int BY <1>3, <1>7
    <2> DEFINE X == x * L
               Y == y * L
    <2>10. X + L <= Y /\ X \in Nat /\ Y \in Nat /\ g[i] = X + k - m /\ g[j] = Y + k - m
      BY <2>6, <2>7, <2>8
    <2> HIDE DEF X, Y
    <2> QED BY ONLY <1>3, <2>9, <2>10, m \in Int
  <1>15. ASSUME NEW a \in A PROVE a < g[1] \/ \E j \in 1 .. P : g[j] = a
    <2> DEFINE e == es[a]
               c == Cycle(e.tRead)
               d == cy(1)
    <2>1. /\ a \in 1 .. v /\ Made(e) /\ eligible(e) /\ e.k = k /\ toTAI(e) % Second = 0
      BY AlignedAre DEF es, v, k
    <2>2. 1 \in 1 .. P BY <1>4
    <2>3. g[1] \in o + 1 .. v /\ d \in Nat /\ g[1] = d * Len(Types) + k - m
      <3>1. g[1] = Place(m, k, d) BY <2>2
      <3>2. g[1] \in o + 1 .. v /\ d \in Nat BY <1>12, <2>2
      <3> HIDE DEF g, d
      <3> QED BY <3>1, <3>2 DEF Place
    <2>4. SUFFICES ASSUME g[1] <= a PROVE \E j \in 1 .. P : g[j] = a
      <3>1. v \in Nat /\ o \in Nat /\ a \in 1 .. v /\ g[1] \in o + 1 .. v BY <1>2, <2>1, <2>3
      <3> HIDE DEF g
      <3>2. a \in Nat /\ g[1] \in Nat BY ONLY <3>1
      <3>3. g[1] <= a \/ a < g[1] BY <3>2
      <3> QED BY <2>4, <3>3
    <2> HIDE DEF g, e
    <2>5. a \in o + 1 .. v BY <1>2, <2>1, <2>3, <2>4
    <2>6. Num(e) = m + a BY <1>5, <2>5 DEF e
    <2>7. c \in Nat /\ Num(e) = c * Len(Types) + k /\ Due(e) = c * Epoch
      BY <1>2, <2>1, MadeTimes, EligibleTime
    <2>8. PICK q \in Nat : c = q * r
      <3>1. (c * Epoch) % Second = 0 BY <1>2, <2>1, <2>7, AlignedStart
      <3> QED BY <1>2, <2>7, <3>1, FirstEpoch DEF r
    <2>9. Place(m, k, c) = a
      <3> DEFINE x == c * Len(Types)
      <3>1. c \in Nat /\ Len(Types) \in Nat BY <1>3, <2>7 DEF L
      <3>2. x \in Nat BY ONLY <3>1
      <3>3. x \in Nat /\ x + k = m + a /\ Place(m, k, c) = x + k - m BY <2>6, <2>7, <3>2 DEF Place
      <3>4. k \in Int /\ a \in Int BY <1>3, <1>7, <2>1, <1>2
      <3> HIDE DEF x
      <3> QED BY ONLY <3>3, <3>4, m \in Int
    <2> HIDE DEF c
    <2>10. s0 <= q /\ q < s0 + P + 1 BY <1>11, <2>5, <2>8, <2>9
    <2>11. s0 # q
      <3> SUFFICES ASSUME s0 = q PROVE FALSE OBVIOUS
      <3>1. d = (q + 1) * r OBVIOUS
      <3>2. q * r + r <= (q + 1) * r BY <1>3
      <3>3. c + r <= d BY <2>8, <3>1, <3>2
      <3> HIDE DEF d
      <3>4. c < d BY ONLY <1>3, <2>3, <2>7, <3>3
      <3>5. c * L + L <= d * L BY <1>3, <2>3, <2>7, <3>4, ProductStrict
      <3> DEFINE x == c * L
                 y == d * L
      <3>6. x \in Nat /\ y \in Nat BY <1>3, <2>3, <2>7
      <3>7. a = x + k - m /\ g[1] = y + k - m BY <2>3, <2>9 DEF Place, L
      <3>8. k \in Int BY <1>3, <1>7
      <3>9. x + L <= y BY <3>5
      <3> HIDE DEF x, y
      <3> QED BY ONLY <1>3, <2>4, <3>6, <3>7, <3>8, <3>9, m \in Int
    <2> DEFINE j == q - s0
    <2>12. j \in 1 .. P /\ s0 + j = q BY <1>4, <2>10, <2>11
    <2>13. g[j] = a
      <3>1. g[j] = Place(m, k, (s0 + j) * r) BY <2>12 DEF g
      <3> HIDE DEF j
      <3> QED BY <2>8, <2>9, <2>12, <3>1
    <2> QED BY <2>12, <2>13
  <1> DEFINE lists == {f \in [1 .. PulseWindow -> A] : ListsLast(f, A)}
             f     == CHOOSE x \in lists : TRUE
             last  == [i \in 1 .. PulseWindow |-> validEntries[f[i]]]
  <1>16. g \in lists
    <2>1. P = PulseWindow BY DEF P
    <2>2. g \in [1 .. P -> A] BY <1>13
    <2>3. \A i, j \in 1 .. P : i < j => g[i] < g[j] BY <1>14
    <2>4. \A a \in A : a < g[1] \/ \E j \in 1 .. P : g[j] = a BY <1>15
    <2> HIDE DEF g, A
    <2> QED BY <2>1, <2>2, <2>3, <2>4 DEF ListsLast
  <1>17. f = g
    <2> HIDE DEF g
    <2>1. f \in lists
      <3> HIDE DEF lists
      <3> QED BY <1>16
    <2>2. A \subseteq Nat
      <3>1. \A a \in A : a \in 1 .. v BY AlignedAre DEF v, es
      <3> HIDE DEF A
      <3> QED BY <1>2, <3>1
    <2> HIDE DEF f, A
    <2> QED BY <1>16, <2>1, <2>2, ListsUnique
  <1>18. Len(last) = P /\ \A i \in 1 .. P : last[i] = es[g[i]]
    <2> HIDE DEF f, g
    <2> QED BY <1>4, <1>17 DEF P, es
  <1>19. Consecutive(last)
    <2> SUFFICES ASSUME NEW i \in 2 .. P PROVE toTAI(last[i]) - toTAI(last[i - 1]) = Second
      BY <1>18 DEF Consecutive
    <2> DEFINE a  == es[g[i - 1]]
               b  == es[g[i]]
               da == IF a.tai # NoTime THEN 0 ELSE ErrorOf(a) - lsError
               db == IF b.tai # NoTime THEN 0 ELSE ErrorOf(b) - lsError
               s  == s0 + i
    <2>1. i - 1 \in 1 .. P /\ i \in 1 .. P /\ s \in Nat /\ s0 + (i - 1) = s - 1 BY <1>4
    <2>2. /\ Made(a) /\ eligible(a) /\ a.k = k /\ Cycle(a.tRead) = (s - 1) * r /\ g[i - 1] \in o + 1 .. v
          /\ Made(b) /\ eligible(b) /\ b.k = k /\ Cycle(b.tRead) = s * r /\ g[i] \in o + 1 .. v
      BY <1>12, <2>1
    <2>3. last[i] = b /\ last[i - 1] = a BY <1>18, <2>1
    <2>4. ErrorOf(a) = ErrorOf(b) BY <1>5, <2>2
    <2> HIDE DEF a, b, last
    <2>5. /\ Due(a) = Cycle(a.tRead) * Epoch /\ toTAI(a) = Due(a) + da * Second
          /\ (a.tai = NoTime <=> Type(a).scale = "utc")
      BY <1>2, <2>2, EligibleTime
    <2>6. /\ Due(b) = Cycle(b.tRead) * Epoch /\ toTAI(b) = Due(b) + db * Second
          /\ (b.tai = NoTime <=> Type(b).scale = "utc")
      BY <1>2, <2>2, EligibleTime
    <2>7. Type(a) = Type(b) BY <2>2 DEF Type
    <2>8. da = db BY <2>4, <2>5, <2>6, <2>7
    <2>9. da \in Int
      <3>1. ErrorOf(a) \in {0, 1} BY <1>2, <2>2, MadeUTC
      <3> QED BY <1>2, <3>1
    <2> HIDE DEF da, db, s
    <2>10. ((s - 1) * r) * Epoch + Second = (s * r) * Epoch
      <3>1. \A t \in Int : (t * r) * Epoch = t * Second
        <4>1. \A t \in Int : (t * r) * Epoch = t * (r * Epoch) BY <1>3
        <4> QED BY <1>3, <4>1
      <3>2. (s - 1) * Second + Second = s * Second BY <1>3, <2>1
      <3>3. s - 1 \in Int /\ s \in Int BY <2>1
      <3> QED BY <3>1, <3>2, <3>3
    <2> DEFINE x == ((s - 1) * r) * Epoch
               y == (s * r) * Epoch
               z == da * Second
    <2>11. x \in Int /\ y \in Int /\ z \in Int
      <3>1. (s - 1) * r \in Int /\ s * r \in Int BY <1>3, <2>1
      <3> QED BY <1>3, <2>9, <3>1
    <2>12. toTAI(a) = x + z /\ toTAI(b) = y + z /\ x + Second = y BY <2>2, <2>5, <2>6, <2>8, <2>10
    <2> HIDE DEF x, y, z
    <2>13. toTAI(b) - toTAI(a) = Second BY ONLY <1>3, <2>11, <2>12
    <2> QED BY <2>3, <2>13
  <1>20. GetPostTimeMessages = IF lists # {} /\ Consecutive(last) THEN last ELSE <<>>
    BY DEF GetPostTimeMessages
  <1> HIDE DEF lists, last
  <1>21. GetPostTimeMessages = last BY <1>16, <1>19, <1>20
  <1>22. Len(<<>>) = 0 OBVIOUS
  <1> QED BY <1>4, <1>18, <1>21, <1>22

\* The seconds that reset mode is told are those in which the messages were read and are
\* consecutive, however the times in the messages deviate; come from the message type that
\* is the first of an epoch where the messages of an epoch state the same time; and come
\* again a second after the last fault (GetPostTimeMessages, epochStartMsg,
\* entriesSameType).
THEOREM LabelsAreRight == BufferSpec => []LabelsRight
  <1>1. BufferInv => LabelsRight BY LabelsAreTrue, EarliestTypes, LabelsDoReturn DEF LabelsRight
  <1> QED BY <1>1, BufferInvariance, PTL
=============================================================================
