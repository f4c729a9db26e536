------------------------------- MODULE PhcEra -------------------------------
(***************************************************************************)
(* Eras of PTP hardware clock readings: the timestamp worker of            *)
(* time/internal/ts, and the part of the event dispatcher that it talks to.*)
(*                                                                         *)
(* The dispatcher goroutine steps the clock; the readWorker goroutine      *)
(* reads timestamps that the hardware captured earlier and queued.  The    *)
(* counter they share atomically, odd while the clock is not being         *)
(* stepped, is all the worker has to tell which of its readings were taken *)
(* before a step and which after it.                                       *)
(***************************************************************************)
EXTENDS Integers, Sequences

CONSTANTS MaxPulses,    \* bound on the edges captured by the hardware
          MaxSteps,     \* bound on the calls of AdjTime
          MaxLosses     \* bound on the losses of carrier

ASSUME BoundsAssumption == MaxPulses \in Nat /\ MaxSteps \in Nat /\ MaxLosses \in Nat

VARIABLES
  epoch,      \* the clock itself: how many steps are in effect
  fifo,       \* the kernel's queue of captured timestamps, see Captured
  extts,      \* whether external timestamping is enabled: "on", "off"
  counter,    \* Clock.eraCounter
  era,        \* the local variable era of readWorker
  wpc,        \* where the worker is, see WorkerPC
  ts,         \* the timestamp it is dealing with
  label,      \* the era it has given to ts
  pre,        \* eraPre of monoSample or wallSample
  sample,     \* the reading of the clock that goes with ts, see Sample
  session,    \* counts the times that timestamping was enabled
  carrier,    \* the interface: "up", "down", or "error" when netlink failed
  watch,      \* whether wCh is not nil: "on", "off"
  ctx,        \* "live", "cancelled"
  tsCh,       \* the channel of events, of capacity 1
  dpc,        \* what the dispatcher is in the middle of
  staleEra,   \* the local variable of Dispatcher.Run
  resumed,    \* the session whose start the dispatcher has seen last
  given,      \* the last timestamp event that the controller was given
  pulses, steps, losses

workerVars == <<era, wpc, ts, label, pre, sample, session>>
phcVars    == <<epoch, fifo, extts, pulses>>
dispVars   == <<dpc, staleEra, resumed, given, steps>>
linkVars   == <<carrier, losses>>
vars == <<phcVars, workerVars, dispVars, linkVars, counter, watch, ctx, tsCh>>

MaxEra == 1 + 2 * (MaxSteps + MaxLosses)
Eras == 0 .. MaxEra
StaleEra == 0
Uncertain(e) == e % 2 = 0

WorkerPC == {"top", "polled", "got", "pre", "read", "post", "send",
             "pause", "noCarrier", "resume", "exited"}

\* Sessions are counted from 1; 0 is for what an earlier process left behind.  A
\* captured timestamp: the clock it was taken from, the session it belongs to,
\* and whether it was captured between a poll that found nothing and the load
\* of the era that follows the poll.
Sessions == 0 .. MaxLosses + 1
Captured == [epoch : 0 .. MaxSteps, session : Sessions, window : {"in", "out"}]
Sample   == [era : Eras, epoch : 0 .. MaxSteps]

ZeroTs     == [epoch |-> 0, session |-> 0, window |-> "out"]
ZeroSample == [era |-> 0, epoch |-> 0]

TimestampEvent == [kind : {"timestamp"}, ts : Captured, era : Eras, sample : Sample]
NoEvent     == [kind |-> "none"]
PauseEvent  == [kind |-> "pause"]
ResumeEvent == [kind |-> "resume"]
ClosedMark  == [kind |-> "closed"]

TypeOK ==
  /\ epoch \in 0 .. MaxSteps
  /\ fifo \in Seq(Captured)
  /\ extts \in {"on", "off"}
  /\ counter \in Eras \ {0}
  /\ era \in Eras
  /\ wpc \in WorkerPC
  /\ ts \in Captured
  /\ label \in Eras
  /\ pre \in Eras
  /\ sample \in Sample
  /\ session \in Sessions
  /\ carrier \in {"up", "down", "error"}
  /\ watch \in {"on", "off"}
  /\ ctx \in {"live", "cancelled"}
  /\ tsCh \in {NoEvent, PauseEvent, ResumeEvent, ClosedMark} \cup TimestampEvent
  /\ dpc \in {"idle", "stepping", "stepped", "resuming", "done"}
  /\ staleEra \in Eras
  /\ resumed \in Sessions
  /\ given \in {NoEvent} \cup TimestampEvent
  /\ pulses \in 0 .. MaxPulses
  /\ steps \in 0 .. MaxSteps
  /\ losses \in 0 .. MaxLosses

\* OpenClock leaves the counter at 1, an era that is certain; timestamps left in
\* the queue by an earlier use of the clock may be there when the worker starts.
Init ==
  /\ epoch = 0
  /\ fifo \in {<<>>, <<ZeroTs>>}
  /\ extts = "on"
  /\ counter = 1
  /\ era = StaleEra
  /\ wpc = "top"
  /\ ts = ZeroTs
  /\ label = 0
  /\ pre = 0
  /\ sample = ZeroSample
  /\ session = 1
  /\ carrier = "up"
  /\ watch \in {"on", "off"}
  /\ ctx = "live"
  /\ tsCh = NoEvent
  /\ dpc = "idle"
  /\ staleEra = StaleEra
  /\ resumed = 1
  /\ given = NoEvent
  /\ pulses = 0 /\ steps = 0 /\ losses = 0

-----------------------------------------------------------------------------
(* The hardware, the network interface and the daemon's shutdown.           *)

\* An edge on the pin: the hardware captures the time of the clock.
Capture ==
  /\ pulses < MaxPulses
  /\ extts = "on"
  /\ fifo' = Append(fifo, [epoch |-> epoch, session |-> session,
                           window |-> IF wpc = "polled" THEN "in" ELSE "out"])
  /\ pulses' = pulses + 1
  /\ UNCHANGED <<epoch, extts, workerVars, dispVars, linkVars, counter, watch, ctx, tsCh>>

LoseCarrier ==
  /\ carrier = "up"
  /\ losses < MaxLosses
  /\ carrier' = "down"
  /\ losses' = losses + 1
  /\ UNCHANGED <<phcVars, workerVars, dispVars, counter, watch, ctx, tsCh>>

RestoreCarrier ==
  /\ carrier = "down"
  /\ carrier' = "up"
  /\ UNCHANGED <<losses, phcVars, workerVars, dispVars, counter, watch, ctx, tsCh>>

NetlinkError ==
  /\ carrier # "error"
  /\ losses < MaxLosses
  /\ carrier' = "error"
  /\ losses' = losses + 1
  /\ UNCHANGED <<phcVars, workerVars, dispVars, counter, watch, ctx, tsCh>>

Cancel ==
  /\ ctx = "live"
  /\ ctx' = "cancelled"
  /\ UNCHANGED <<phcVars, workerVars, dispVars, linkVars, counter, watch, tsCh>>

-----------------------------------------------------------------------------
(* readWorker.                                                              *)

Exit ==
  /\ wpc = "top"
  /\ ctx = "cancelled"
  /\ wpc' = "exited"
  /\ extts' = "off"
  /\ UNCHANGED <<epoch, fifo, pulses, era, ts, label, pre, sample, session,
                 dispVars, linkVars, counter, watch, ctx, tsCh>>

\* close(tsCh), deferred: what the channel holds is still received first.
CloseTsCh ==
  /\ wpc = "exited"
  /\ tsCh = NoEvent
  /\ dpc # "done"
  /\ tsCh' = ClosedMark
  /\ UNCHANGED <<phcVars, workerVars, dispVars, linkVars, counter, watch, ctx>>

\* A case of the select at the top of the loop is ready: default is not taken.
Signalled == ctx = "cancelled" \/ (watch = "on" /\ carrier # "up")

CarrierLost ==
  /\ wpc = "top"
  /\ watch = "on" /\ carrier = "down"
  /\ wpc' = "pause"
  /\ UNCHANGED <<phcVars, era, ts, label, pre, sample, session, dispVars, linkVars,
                 counter, watch, ctx, tsCh>>

\* A netlink error: the worker goes on without watching, straight to the poll.
WatchLost ==
  /\ wpc = "top"
  /\ watch = "on" /\ carrier = "error"
  /\ watch' = "off"
  /\ UNCHANGED <<phcVars, workerVars, dispVars, linkVars, counter, ctx, tsCh>>

\* ExttsAvailable has returned false.
PollEmpty ==
  /\ wpc = "top"
  /\ ~Signalled
  /\ fifo = <<>>
  /\ wpc' = "polled"
  /\ UNCHANGED <<phcVars, era, ts, label, pre, sample, session, dispVars, linkVars,
                 counter, watch, ctx, tsCh>>

LoadEra_OnlyOnce ==
  /\ wpc = "polled"
  /\ era' = IF era = StaleEra THEN counter ELSE era
  /\ wpc' = "top"
  /\ UNCHANGED <<phcVars, ts, label, pre, sample, session, dispVars, linkVars,
                 counter, watch, ctx, tsCh>>

LoadEra ==
  /\ wpc = "polled"
  /\ era' = counter
  /\ wpc' = "top"
  /\ UNCHANGED <<phcVars, ts, label, pre, sample, session, dispVars, linkVars,
                 counter, watch, ctx, tsCh>>

\* ExttsAvailable has returned true: ReadExtts.
ReadExtts ==
  /\ wpc = "top"
  /\ ~Signalled
  /\ fifo # <<>>
  /\ ts' = Head(fifo)
  /\ fifo' = Tail(fifo)
  /\ wpc' = "got"
  /\ UNCHANGED <<epoch, extts, pulses, era, label, pre, sample, session, dispVars, linkVars,
                 counter, watch, ctx, tsCh>>

\* The uncertain era is derived from the wrong one of the two.
EraOf_Next(now, polled) ==
  IF now = polled \/ Uncertain(now) THEN now ELSE now + 1

\* The era of a timestamp read when the counter is now, the last empty poll
\* having seen polled.
EraOf(now, polled) ==
  IF now = polled \/ Uncertain(now) THEN now
  ELSE IF Uncertain(polled) THEN polled
  ELSE polled + 1

Label ==
  /\ wpc = "got"
  /\ label' = EraOf(counter, era)
  /\ wpc' = "pre"
  /\ UNCHANGED <<phcVars, era, ts, pre, sample, session, dispVars, linkVars,
                 counter, watch, ctx, tsCh>>

\* computeEra, if it trusted the first of the two loads.
ComputeEra_Pre(eraPre, eraPost) == eraPre

ComputeEra(eraPre, eraPost) ==
  IF eraPre = eraPost \/ Uncertain(eraPre) THEN eraPre
  ELSE IF Uncertain(eraPost) THEN eraPost
  ELSE eraPre + 1

\* monoSample, wallSample: a load, a reading of the clock, a load.
SamplePre ==
  /\ wpc = "pre"
  /\ pre' = counter
  /\ wpc' = "read"
  /\ UNCHANGED <<phcVars, era, ts, label, sample, session, dispVars, linkVars,
                 counter, watch, ctx, tsCh>>

SampleRead ==
  /\ wpc = "read"
  /\ sample' = [era |-> 0, epoch |-> epoch]
  /\ wpc' = "post"
  /\ UNCHANGED <<phcVars, era, ts, label, pre, session, dispVars, linkVars,
                 counter, watch, ctx, tsCh>>

\* The clock cannot be read: the sample keeps its zero era.
SampleError ==
  /\ wpc = "read"
  /\ sample' = ZeroSample
  /\ wpc' = "send"
  /\ UNCHANGED <<phcVars, era, ts, label, pre, session, dispVars, linkVars,
                 counter, watch, ctx, tsCh>>

SamplePost ==
  /\ wpc = "post"
  /\ sample' = [sample EXCEPT !.era = ComputeEra(pre, counter)]
  /\ wpc' = "send"
  /\ UNCHANGED <<phcVars, era, ts, label, pre, session, dispVars, linkVars,
                 counter, watch, ctx, tsCh>>

\* The variables of this iteration of the loop go out of scope.
SendEvent ==
  /\ wpc = "send"
  /\ tsCh = NoEvent
  /\ tsCh' = [kind |-> "timestamp", ts |-> ts, era |-> label, sample |-> sample]
  /\ wpc' = "top"
  /\ ts' = ZeroTs /\ label' = 0 /\ pre' = 0 /\ sample' = ZeroSample
  /\ UNCHANGED <<phcVars, era, session, dispVars, linkVars, counter, watch, ctx>>

\* handleNoCarrier: announce the pause and disable timestamping, which may fail.
SendPause ==
  /\ wpc = "pause"
  /\ tsCh = NoEvent
  /\ tsCh' = PauseEvent
  /\ wpc' = "noCarrier"
  /\ extts' \in {"on", "off"}
  /\ UNCHANGED <<epoch, fifo, pulses, era, ts, label, pre, sample, session, dispVars,
                 linkVars, counter, watch, ctx>>

\* The carrier is back, or netlink has failed, or the daemon shuts down.
CarrierBack ==
  /\ wpc = "noCarrier"
  /\ \/ ctx = "cancelled" /\ wpc' = "exited"
     \/ carrier # "down" /\ wpc' = "resume"
  /\ UNCHANGED <<phcVars, era, ts, label, pre, sample, session, dispVars, linkVars,
                 counter, watch, ctx, tsCh>>

SendResume ==
  /\ wpc = "resume"
  /\ tsCh = NoEvent
  /\ tsCh' = ResumeEvent
  /\ wpc' = "top"
  /\ extts' = "on"
  /\ session' = session + 1
  /\ UNCHANGED <<epoch, fifo, pulses, era, ts, label, pre, sample, dispVars, linkVars,
                 counter, watch, ctx>>

-----------------------------------------------------------------------------
(* The dispatcher, and the controller that steps the clock through it.      *)

\* Controller.Pause: it goes back to reset mode, or stays there with its edges.
HandlePause ==
  /\ dpc = "idle"
  /\ tsCh = PauseEvent
  /\ tsCh' = NoEvent
  /\ UNCHANGED <<dispVars, phcVars, workerVars, linkVars, counter, watch, ctx>>

\* ResumeFunc loads the counter and then moves it on.
ResumeLoad ==
  /\ dpc = "idle"
  /\ tsCh = ResumeEvent
  /\ tsCh' = NoEvent
  /\ staleEra' = counter
  /\ resumed' = resumed + 1
  /\ dpc' = "resuming"
  /\ UNCHANGED <<given, steps, phcVars, workerVars, linkVars, counter, watch, ctx>>

ResumeAdd ==
  /\ dpc = "resuming"
  /\ counter' = counter + 2
  /\ dpc' = "idle"
  /\ UNCHANGED <<staleEra, resumed, given, steps, phcVars, workerVars, linkVars,
                 watch, ctx, tsCh>>

\* A dispatcher that does not look for stale timestamps.
IsStale_Never(e) == FALSE

IsStale(e) == e.era = staleEra

HandleTimestamp ==
  /\ dpc = "idle"
  /\ tsCh.kind = "timestamp"
  /\ tsCh' = NoEvent
  /\ given' = IF IsStale(tsCh) THEN given ELSE tsCh
  /\ UNCHANGED <<dpc, staleEra, resumed, steps, phcVars, workerVars, linkVars,
                 counter, watch, ctx>>

HandleClosed ==
  /\ dpc = "idle"
  /\ tsCh = ClosedMark
  /\ tsCh' = NoEvent
  /\ dpc' = "done"
  /\ UNCHANGED <<staleEra, resumed, given, steps, phcVars, workerVars, linkVars,
                 counter, watch, ctx>>

\* AdjTime: the controller has aligned edges it was given with time messages,
\* which it may do when it is given an edge or when a message comes.
AdjBegin ==
  /\ dpc = "idle"
  /\ given # NoEvent
  /\ steps < MaxSteps
  /\ steps' = steps + 1
  /\ counter' = counter + 1
  /\ dpc' = "stepping"
  /\ UNCHANGED <<staleEra, resumed, given, phcVars, workerVars, linkVars, watch, ctx, tsCh>>

\* The system call steps the clock, or fails.
AdjStep ==
  /\ dpc = "stepping"
  /\ epoch' \in {epoch, epoch + 1}
  /\ dpc' = "stepped"
  /\ UNCHANGED <<fifo, extts, pulses, staleEra, resumed, given, steps, workerVars,
                 linkVars, counter, watch, ctx, tsCh>>

AdjEnd ==
  /\ dpc = "stepped"
  /\ counter' = counter + 1
  /\ dpc' = "idle"
  /\ UNCHANGED <<staleEra, resumed, given, steps, phcVars, workerVars, linkVars,
                 watch, ctx, tsCh>>

Finished ==
  /\ dpc = "done"
  /\ UNCHANGED vars

Environment == Capture \/ LoseCarrier \/ RestoreCarrier \/ NetlinkError \/ Cancel

ReadWorker ==
  \/ Exit \/ CloseTsCh \/ CarrierLost \/ WatchLost \/ PollEmpty \/ LoadEra \/ ReadExtts
  \/ Label \/ SamplePre \/ SampleRead \/ SampleError \/ SamplePost \/ SendEvent
  \/ SendPause \/ CarrierBack \/ SendResume

Handle == HandlePause \/ ResumeLoad \/ ResumeAdd \/ HandleTimestamp \/ HandleClosed

Dispatcher == Handle \/ AdjBegin \/ AdjStep \/ AdjEnd

Next == Environment \/ ReadWorker \/ Dispatcher \/ Finished

\* Both goroutines run; a system call returns; nothing makes the controller step.
Fairness ==
  /\ WF_vars(ReadWorker)
  /\ WF_vars(Handle \/ AdjStep \/ AdjEnd)

Spec == Init /\ [][Next]_vars /\ Fairness

-----------------------------------------------------------------------------
Certain(e) == e.kind = "timestamp" /\ ~Uncertain(e.era)

\* "An Era represents a period of time within which a clock has not been stepped"
\* (time/phctime/phctime.go:22): when the timestamp and the reading of the clock
\* that goes with it have the same certain era, no step came between them.
OneClock(e) ==
  (Certain(e) /\ e.sample.era = e.era) => e.ts.epoch = e.sample.epoch

\* This holds of what the controller is given, whatever steps of AdjTime the
\* reads fall between, for the timestamps captured outside the window between an
\* empty poll and the load of the era (clock.go:304-305).
EraSound ==
  (given.kind = "timestamp" /\ given.ts.window = "out") => OneClock(given)

\* Timestamps that were queued before the worker started or before a loss of
\* carrier do not reach the controller as readings of a certain era: the stale era
\* hides those read before ResumeFunc, an uncertain one marks those read later.
\* The exception is a reading of an older era than the stale one: the controller
\* has then stepped the clock between the pause and the resume.
StaleUnseen ==
  [][(given' # given /\ Certain(given'))
       => given'.ts.session = resumed \/ given'.era < staleEra]_vars

\* After a step or a resume the worker learns the new era, so that the controller
\* is given timestamps of a certain era again, unless there is no carrier.
EraCatchesUp ==
  []<>(wpc \in {"noCarrier", "exited"} \/ (era = counter /\ ~Uncertain(era)))

\* The worker ends after a cancellation, even without carrier, and the dispatcher
\* sees the closed channel: neither waits for the other.
ShutsDown == ctx = "cancelled" ~> dpc = "done"

\* The worker neither misses an era for ever nor waits for ever.
WorkerLives == EraCatchesUp /\ ShutsDown
=============================================================================
