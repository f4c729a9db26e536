------------------------------ MODULE PhcSync ------------------------------
(***************************************************************************)
(* The synchronization modes of time/internal/phcsync: the Controller and  *)
(* its reset, converging and tracking sample generators and processors,    *)
(* driven by the edges of a 1 Hz pulse, by time messages and by a ticker.  *)
(*                                                                         *)
(* Time is counted in units of a fraction of a second.  Ages are relative  *)
(* to the last tick: a pulse that comes between this tick and the next has *)
(* a negative age.  Offsets are reduced to the outcome of the comparisons  *)
(* made with them, frequencies and the PI servo are left out, and one edge *)
(* per pulse is timestamped.                                               *)
(***************************************************************************)
EXTENDS Integers, Sequences, FiniteSets

CONSTANTS
  Second, TickInterval,     \* 1 s and 0.25 s, in units
  SampleIntervalMax,        \* sampleIntervalMax, 1.5 s
  PulseCorrectionTimeout,   \* TrackingConfig.PulseCorrectionTimeout
  Phases,                   \* possible delays from a pulse to the next tick
  PulseWindow,              \* ResetConfig
  MedianWindow, StableWindow, BadSampleLimit,           \* ConvergingConfig
  BadSampleRunLimit, BadSampleWindow, BadSampleRatioLimit,
  MADWindow, MADMinSamples, OutlierRatioLimit,          \* TrackingConfig
  MaxMedian,                \* the medians that are told apart
  MaxFaults,                \* bound on what goes wrong with signal and messages
  MaxBadPhases,             \* bound on alignments with the wrong second
  MaxStepFailures           \* bound on failures of AdjTime

ASSUME TimeAssumption ==
  /\ Second \in Nat \ {0} /\ TickInterval \in 1 .. Second
  /\ Second % TickInterval = 0
  /\ SampleIntervalMax \in Second + TickInterval .. 2 * Second - TickInterval - 1
  /\ PulseCorrectionTimeout \in 1 .. (Second - TickInterval - 1)
  /\ Phases \subseteq 1 .. TickInterval /\ Phases # {}

\* Ratio limits are in per cent.
ASSUME ConfigAssumption ==
  /\ {PulseWindow, MedianWindow, StableWindow, BadSampleLimit, BadSampleRunLimit,
      BadSampleWindow, MADWindow, MADMinSamples} \subseteq Nat \ {0}
  /\ {BadSampleRatioLimit, OutlierRatioLimit} \subseteq 1 .. 100
  /\ {MaxMedian, MaxFaults, MaxBadPhases, MaxStepFailures} \subseteq Nat

VARIABLES
  pulseAge,   \* age of the pulse of this second
  edge,       \* its timestamp: "coming", "late" (not delivered yet) or "none"
  mode,       \* Controller.mode
  st,         \* Controller.sampleGen and sampleProc of that mode
  sampleAge,  \* age of lastSample.Sys; in reset mode, of the last stored edge
  detect,     \* Controller.detectLeap: "on", or "off" for nil
  lag,        \* whether timestamps may still have an era from before a step
  sec,        \* whether the whole second of the PHC is "right" or "wrong"
  faults, badPhases, stepFails,
  goodAge,    \* history: age of the last sample that disciplined the clock
  unheard,    \* history: pulses without a sample, minus missing samples; one that
              \* is made while a pulse waits for its correction is not counted
  okRun,      \* history: consecutive converging samples within OffsetLimit
  memory      \* history: the sample that the last tracking mode persisted

world   == <<lag, sec, badPhases, stepFails>>
history == <<goodAge, unheard, okRun, memory>>
vars == <<pulseAge, edge, mode, st, sampleAge, detect, faults, world, history>>

NoPulse == -Second      \* no pendingPulse: an age that no pulse has
MaxAge  == (BadSampleRunLimit + 2) * Second + SampleIntervalMax

ResetState == [edges : 0 .. PulseWindow, intervals : {"untried", "bad"},
               persist : {"none", "right", "wrong"}]

\* newEra: edges can have a later era than the sample that reset mode ended with.
ConvergingState ==
  [stepCompensate : {"yes", "no"}, newEra : {"yes", "no"},
   offsets : 0 .. MedianWindow, minMedian : 0 .. MaxMedian,
   samplesSinceMinDecreased : 0 .. StableWindow, missingSamples : 0 .. BadSampleLimit]

\* The windows hold 1 for a bad sample, or an outlier, and 0 for another one.
TrackingState ==
  [pending : {NoPulse} \cup (-TickInterval .. Second), persist : {"none", "right", "wrong"},
   consecutiveBad : 0 .. BadSampleRunLimit,
   badSamples : Seq({0, 1}), badCount : 0 .. BadSampleWindow,
   outliers : Seq({0, 1}), outlierCount : 0 .. MADWindow]

TypeOK ==
  /\ pulseAge \in -TickInterval .. Second - 1
  /\ edge \in {"none", "coming", "late"}
  /\ \/ mode = "reset" /\ st \in ResetState
     \/ mode = "converging" /\ st \in ConvergingState
     \/ mode = "tracking" /\ st \in TrackingState
  /\ sampleAge \in -TickInterval .. MaxAge
  /\ detect \in {"on", "off"}
  /\ lag \in {"yes", "no"}
  /\ sec \in {"right", "wrong"}
  /\ faults \in 0 .. MaxFaults
  /\ badPhases \in 0 .. MaxBadPhases
  /\ stepFails \in 0 .. MaxStepFailures
  /\ goodAge \in -TickInterval .. MaxAge
  /\ unheard \in -1 .. MaxFaults
  /\ okRun \in 0 .. StableWindow
  /\ memory \in {"none", "right", "wrong"}

-----------------------------------------------------------------------------
(* The sample generators and processors of the three modes.                 *)

NewReset(p) == [edges |-> 0, intervals |-> "untried", persist |-> p]

NewConverging(era) ==
  [stepCompensate |-> "yes", newEra |-> era, offsets |-> 0, minMedian |-> 0,
   samplesSinceMinDecreased |-> 0, missingSamples |-> 0]

NewTracking ==
  [pending |-> NoPulse, persist |-> "none", consecutiveBad |-> 0,
   badSamples |-> <<>>, badCount |-> 0, outliers |-> <<>>, outlierCount |-> 0]

AtMost(n, max) == IF n < max THEN n ELSE max

\* circbuf's Append: the oldest element goes when the buffer is full.
Push(buf, cap, x) == IF Len(buf) < cap THEN Append(buf, x) ELSE Append(Tail(buf), x)

\* How much a count of the ones in a buffer loses when an element is added.
Evicted_Ignored(buf, cap) == 0

Evicted(buf, cap) == IF Len(buf) = cap THEN Head(buf) ELSE 0

\* storeEdge, if it did not try the intervals again.
StoreEdge_KeepBad(r, gap, otherEra) ==
  [r EXCEPT !.edges = IF r.edges # 0 /\ (gap > SampleIntervalMax \/ otherEra) THEN 1
                      ELSE AtMost(r.edges + 1, PulseWindow)]

\* resetSampleGenerator.storeEdge: the edges before a gap, or of another era, go.
StoreEdge(r, gap, otherEra) ==
  [r EXCEPT !.edges = IF r.edges # 0 /\ (gap > SampleIntervalMax \/ otherEra) THEN 1
                      ELSE AtMost(r.edges + 1, PulseWindow),
            !.intervals = "untried"]

\* genSample can yield a sample: enough edges, their intervals not found bad, and a
\* message for the last one, read at most a second after the pulse.
CanAlign(r, age) ==
  r.edges = PulseWindow /\ r.intervals = "untried" /\ age <= Second

\* The drift check against the sample persisted by tracking mode.
DriftExceeds(r, cand) == r.persist # "none" /\ r.persist # cand

\* converged, if an offset beyond OffsetLimit did not start the count again.
Settle_KeepCount(c, within, median) ==
  LET n == AtMost(c.offsets + 1, MedianWindow) IN
  IF n < MedianWindow \/ ~within THEN [c EXCEPT !.offsets = n]
  ELSE [c EXCEPT !.offsets = n, !.minMedian = median,
                 !.samplesSinceMinDecreased =
                    IF c.samplesSinceMinDecreased = 0 \/ median < c.minMedian THEN 1
                    ELSE c.samplesSinceMinDecreased + 1]

\* offsets.Add and converged; the answer of converged is Converged of the result.
Settle(c, within, median) ==
  LET n     == AtMost(c.offsets + 1, MedianWindow)
      start == c.samplesSinceMinDecreased = 0 \/ median < c.minMedian
  IN  IF n < MedianWindow THEN [c EXCEPT !.offsets = n]
      ELSE IF ~within
      THEN [c EXCEPT !.offsets = n, !.samplesSinceMinDecreased = 0]
      ELSE [c EXCEPT !.offsets = n,
                     !.minMedian = IF start THEN median ELSE c.minMedian,
                     !.samplesSinceMinDecreased =
                        IF start THEN 1 ELSE c.samplesSinceMinDecreased + 1]

Converged(c) == c.samplesSinceMinDecreased >= StableWindow

\* A sample in tracking mode is missing, beyond OutlierThreshold ("extreme"), taken
\* for an outlier by the MAD test ("outlier"), or given to the servo ("good").
Verdicts(t) ==
  {"extreme", "good"}
    \cup IF AtMost(Len(t.outliers) + 1, MADWindow) >= MADMinSamples THEN {"outlier"} ELSE {}

\* sampleAction: madWindow.Add and SetLastOutlier.
MadAdd(t, v) ==
  IF v \in {"missing", "extreme"} THEN t
  ELSE LET x == IF v = "outlier" THEN 1 ELSE 0
       IN  [t EXCEPT !.outliers = Push(t.outliers, MADWindow, x),
                     !.outlierCount = t.outlierCount - Evicted(t.outliers, MADWindow) + x]

\* processSample, if only runs of samples that leave the frequency alone counted:
\* the first bad one sets the average frequency.
Assess_AfterEma(t, v, p) ==
  LET bad == v # "good" /\ t.consecutiveBad > 0
      x   == IF bad THEN 1 ELSE 0
  IN  [MadAdd(t, v) EXCEPT
         !.consecutiveBad = IF bad THEN t.consecutiveBad + 1 ELSE 0,
         !.persist = IF bad THEN t.persist ELSE p,
         !.badSamples = Push(t.badSamples, BadSampleWindow, x),
         !.badCount = t.badCount - Evicted(t.badSamples, BadSampleWindow) + x]

\* processSample up to its limits; p is the persisted sample if this one is good.
Assess(t, v, p) ==
  LET x == IF v = "good" THEN 0 ELSE 1
  IN  [MadAdd(t, v) EXCEPT
         !.consecutiveBad = IF v = "good" THEN 0 ELSE t.consecutiveBad + 1,
         !.persist = IF v = "good" THEN p ELSE t.persist,
         !.badSamples = Push(t.badSamples, BadSampleWindow, x),
         !.badCount = t.badCount - Evicted(t.badSamples, BadSampleWindow) + x]

OverLimit(t) ==
  \/ t.consecutiveBad > BadSampleRunLimit
  \/ /\ Len(t.outliers) >= MADMinSamples
     /\ 100 * t.outlierCount > OutlierRatioLimit * Len(t.outliers)
  \/ /\ Len(t.badSamples) = BadSampleWindow
     /\ 100 * t.badCount > BadSampleRatioLimit * Len(t.badSamples)

-----------------------------------------------------------------------------
(* The Controller.                                                          *)

Init ==
  /\ \E p \in Phases : pulseAge = -p
  /\ edge = "coming"
  /\ mode = "reset"
  /\ st = NewReset("none")
  /\ sampleAge = 0
  /\ detect = "off"
  /\ lag = "no"
  /\ sec \in {"right", "wrong"}
  /\ faults = 0 /\ badPhases = 0 /\ stepFails = 0
  /\ goodAge = 0 /\ unheard = 0 /\ okRun = 0
  /\ memory = "none"

Faulty == faults < MaxFaults /\ faults' = faults + 1

\* changeMode to reset; p is the sample that tracking mode has persisted.
EnterReset(p) ==
  /\ mode' = "reset"
  /\ st' = NewReset(p)
  /\ detect' = "off"
  /\ okRun' = 0 /\ goodAge' = 0
  /\ memory' = IF mode = "tracking" THEN p ELSE memory

\* getPersistSample, which only tracking mode has.
Persisted == IF mode = "tracking" THEN st.persist ELSE "none"

\* clock.AdjTime, aligning the PHC with the second cand.  A failure is logged.
AdjTime(cand) ==
  /\ lag' = "yes"
  /\ \/ sec' = cand /\ UNCHANGED stepFails
     \/ stepFails < MaxStepFailures /\ stepFails' = stepFails + 1 /\ UNCHANGED sec

\* resetSampleProcessor.processSample and doPHCAction for a sample that says that
\* the second is cand, from an edge of the given age; l is the lag at its time.
\* A PHC that is close enough is not stepped.
ResetSample(r, cand, age, l) ==
  /\ \/ cand = "right" /\ UNCHANGED badPhases
     \/ cand = "wrong" /\ badPhases < MaxBadPhases /\ badPhases' = badPhases + 1
  /\ sampleAge' = age
  /\ UNCHANGED <<okRun, memory>>
  /\ \/ /\ DriftExceeds(r, cand)
        /\ st' = r
        /\ lag' = l
        /\ UNCHANGED <<mode, detect, sec, stepFails, goodAge>>
     \/ /\ ~DriftExceeds(r, cand)
        /\ mode' = "converging"
        /\ detect' \in {"on", "off"}
        /\ goodAge' = age
        /\ \/ sec = cand /\ lag' = l /\ st' = NewConverging(l) /\ UNCHANGED <<sec, stepFails>>
           \/ AdjTime(cand) /\ st' = NewConverging("yes")

\* convergingSampleProcessor.processSample: the first sample may compensate the
\* delay of the step that reset mode made, which leaves the whole second alone.
ConvergingSample(age, era) ==
  /\ sampleAge' = age
  /\ goodAge' = age
  /\ UNCHANGED <<detect, memory>>
  /\ LET c     == [st EXCEPT !.stepCompensate = "no"]
         steps == st.stepCompensate = "yes" /\ st.newEra = "yes" /\ era = "new"
     IN  \/ /\ steps
            /\ AdjTime(sec)
            /\ st' = c
            /\ UNCHANGED <<mode, okRun, faults>>
         \/ /\ ~steps
            /\ lag' = IF era = "new" THEN "no" ELSE lag
            /\ UNCHANGED <<sec, stepFails>>
            /\ \E within \in BOOLEAN, median \in 0 .. MaxMedian :
                 LET s == Settle(c, within, median)
                 IN  /\ IF within /\ era = "new" THEN UNCHANGED faults ELSE Faulty
                     /\ IF Converged(s)
                        THEN mode' = "tracking" /\ st' = NewTracking
                        ELSE st' = s /\ UNCHANGED mode
                     /\ okRun' = IF within THEN AtMost(okRun + 1, StableWindow) ELSE 0

\* trackingSampleProcessor.processSample, from the state t; older is the age of the
\* good sample before this one.
TrackingSample(t, v, age, older) ==
  \E p \in {t.persist, sec} :
    LET u == Assess(t, v, p)
    IN  /\ sampleAge' = age
        /\ IF OverLimit(u) THEN EnterReset(u.persist)
           ELSE /\ st' = u
                /\ goodAge' = IF v = "good" THEN age ELSE older
                /\ UNCHANGED <<mode, detect, okRun, memory>>

\* The same for a pulse; its offset is good, or something is wrong with the signal.
TrackingPulse(age, older) ==
  \E v \in Verdicts(st) :
    /\ TrackingSample([st EXCEPT !.pending = NoPulse], v, age, older)
    /\ IF v = "good" THEN UNCHANGED faults ELSE Faulty

-----------------------------------------------------------------------------
(* Pulse edges.                                                             *)

Deliver == edge # "none" /\ edge' = "none" /\ UNCHANGED pulseAge

\* No timestamp comes for the pulse of this second.
LosePulse ==
  /\ Deliver
  /\ Faulty
  /\ unheard' = unheard + 1
  /\ UNCHANGED <<mode, st, sampleAge, detect, world, goodAge, okRun, memory>>

\* After a step or a resume an edge may have an uncertain era: reset and converging
\* mode do not use it.
UncertainEdge ==
  /\ mode # "tracking"
  /\ lag = "yes"
  /\ LosePulse

\* In reset mode: storeEdge, with no message for this edge yet.
ResetEdge(era) ==
  /\ Deliver
  /\ mode = "reset"
  /\ st' = StoreEdge(st, sampleAge - pulseAge, lag = "yes" /\ era = "new")
  /\ sampleAge' = pulseAge
  /\ unheard' = 0
  /\ \/ era = "new" /\ lag' = "no" /\ UNCHANGED faults
     \/ era = "old" /\ lag = "yes" /\ Faulty /\ UNCHANGED lag
  /\ UNCHANGED <<mode, detect, sec, badPhases, stepFails, goodAge, okRun, memory>>

\* In reset mode: the message for this edge is there already.
ResetEdgeAligned(cand) ==
  /\ Deliver
  /\ mode = "reset"
  /\ unheard' = 0
  /\ LET r == StoreEdge(st, sampleAge - pulseAge, lag = "yes")
     IN  CanAlign(r, pulseAge) /\ ResetSample(r, cand, pulseAge, "no")
  /\ UNCHANGED faults

ConvergingEdge(era) ==
  /\ Deliver
  /\ mode = "converging"
  /\ era = "old" => lag = "yes"
  /\ ConvergingSample(pulseAge, era)
  /\ UNCHANGED <<badPhases, unheard>>

\* In tracking mode: a sample, and a pulse that still waits for its correction is
\* forgotten.
TrackingEdge ==
  /\ Deliver
  /\ mode = "tracking"
  /\ TrackingPulse(pulseAge, goodAge)
  /\ UNCHANGED <<world, unheard>>

\* In tracking mode: the sample has to wait for a correction.
TrackingEdgeWaits ==
  /\ Deliver
  /\ mode = "tracking"
  /\ st' = [st EXCEPT !.pending = pulseAge]
  /\ UNCHANGED <<mode, sampleAge, detect, faults, world, history>>

-----------------------------------------------------------------------------
(* Time messages and carrier loss.                                          *)

\* The messages are aligned with the stored edges.
ResetMessage(cand) ==
  /\ mode = "reset"
  /\ CanAlign(st, sampleAge)
  /\ ResetSample(st, cand, sampleAge, lag)
  /\ UNCHANGED <<pulseAge, edge, faults, unheard>>

\* The intervals between the edges are found bad: wait for another edge.
ResetMessageBad ==
  /\ mode = "reset"
  /\ CanAlign(st, sampleAge)
  /\ Faulty
  /\ st' = [st EXCEPT !.intervals = "bad"]
  /\ UNCHANGED <<pulseAge, edge, mode, sampleAge, detect, world, history>>

\* The correction for the pending pulse has come.
TrackingMessage ==
  /\ mode = "tracking"
  /\ st.pending # NoPulse
  /\ TrackingPulse(st.pending, goodAge)
  /\ UNCHANGED <<pulseAge, edge, world, unheard>>

\* The receiver has corrected a stale number of leap seconds.
LeapDetected ==
  /\ detect = "on"
  /\ Faulty
  /\ EnterReset(Persisted)
  /\ UNCHANGED <<pulseAge, edge, sampleAge, world, unheard>>

\* Pause, which changes nothing in reset mode; the carrier is back with a new era.
Pause ==
  /\ Faulty
  /\ lag' = "yes"
  /\ IF mode = "reset" THEN UNCHANGED <<mode, st, detect, goodAge, okRun, memory>>
                       ELSE EnterReset(Persisted)
  /\ UNCHANGED <<pulseAge, edge, sampleAge, sec, badPhases, stepFails, unheard>>

-----------------------------------------------------------------------------
(* The ticker.                                                              *)

\* Time goes on to the next tick; a timestamp is delivered in the tick interval of
\* its pulse or in the one that follows.
Advance ==
  /\ edge # "late"
  /\ IF pulseAge + 2 * TickInterval >= Second
     THEN edge' = "coming" /\ pulseAge' = pulseAge + TickInterval - Second
     ELSE /\ edge' = IF edge = "coming" THEN "late" ELSE "none"
          /\ pulseAge' = pulseAge + TickInterval

Later(age) == AtMost(age + TickInterval, MaxAge)

\* A pulse waits for its correction.
Waits == mode = "tracking" /\ st.pending # NoPulse

\* A deadline counted from the reading of the timestamp.
PendingDue_SinceRead == Waits /\ Later(st.pending) > PulseCorrectionTimeout + TickInterval

PendingDue == Waits /\ Later(st.pending) > PulseCorrectionTimeout

Overdue == mode # "reset" /\ ~PendingDue /\ Later(sampleAge) > SampleIntervalMax

\* The state of the mode with the pending pulse grown older.
Aged == IF Waits THEN [st EXCEPT !.pending = Later(st.pending)] ELSE st

\* A tick that finds nothing to do.
TickIdle ==
  /\ Advance
  /\ ~PendingDue /\ ~Overdue
  /\ sampleAge' = Later(sampleAge)
  /\ goodAge' = IF mode = "reset" THEN 0 ELSE Later(goodAge)
  /\ st' = Aged
  /\ UNCHANGED <<mode, detect, faults, world, unheard, okRun, memory>>

\* tickSample: the correction for the pending pulse did not come in time.
TickPending ==
  /\ Advance
  /\ PendingDue
  /\ TrackingPulse(Later(st.pending), Later(goodAge))
  /\ UNCHANGED <<world, unheard>>

\* The age of a missing sample: a second after the sample before it.
MissingAge == Later(sampleAge) - Second

TickMissing ==
  /\ Advance
  /\ Overdue
  /\ unheard' = IF unheard < 0 \/ (unheard = 0 /\ Waits) THEN unheard ELSE unheard - 1
  /\ \/ /\ mode = "tracking"
        /\ TrackingSample(Aged, "missing", MissingAge, Later(goodAge))
     \/ /\ mode = "converging"
        /\ sampleAge' = MissingAge
        /\ LET c == [st EXCEPT !.stepCompensate = "no",
                               !.missingSamples = st.missingSamples + 1]
           IN  IF c.missingSamples >= BadSampleLimit THEN EnterReset("none")
               ELSE /\ st' = c
                    /\ goodAge' = Later(goodAge)
                    /\ UNCHANGED <<mode, detect, okRun, memory>>
  /\ UNCHANGED <<faults, world>>

Seconds == {"right", "wrong"}

PulseEdge ==
  \/ \E era \in {"new", "old"} : ResetEdge(era) \/ ConvergingEdge(era)
  \/ \E cand \in Seconds : ResetEdgeAligned(cand)
  \/ UncertainEdge \/ TrackingEdge \/ TrackingEdgeWaits

TimeMessage ==
  \/ \E cand \in Seconds : ResetMessage(cand)
  \/ ResetMessageBad \/ TrackingMessage \/ LeapDetected

Tick == TickIdle \/ TickPending \/ TickMissing

Next == PulseEdge \/ LosePulse \/ TimeMessage \/ Pause \/ Tick

\* The ticker runs and timestamps are delivered; when the edges that reset mode has
\* stored can be aligned again and again, messages for them do come.
Fairness ==
  /\ WF_vars(Tick)
  /\ WF_vars(PulseEdge)
  /\ SF_vars(ResetMessage("right"))

Spec == Init /\ [][Next]_vars /\ Fairness

-----------------------------------------------------------------------------
Ones(buf) == Cardinality({i \in 1 .. Len(buf) : buf[i] = 1})

\* The counters that decide on leaving tracking mode are kept up to date by adding
\* and evicting: they agree with the windows, and consecutiveBad with the end of
\* the window of bad samples.
CountsExact ==
  mode = "tracking" =>
    /\ st.badCount = Ones(st.badSamples) /\ Len(st.badSamples) <= BadSampleWindow
    /\ st.outlierCount = Ones(st.outliers) /\ Len(st.outliers) <= MADWindow
    /\ \A i \in 1 .. Len(st.badSamples) :
         i <= st.consecutiveBad => st.badSamples[Len(st.badSamples) + 1 - i] = 1

\* The state is of its type and its counters are right.
Consistent == TypeOK /\ CountsExact

\* "It remains in tracking mode so long as the offsets indicate that the PHC is still
\* synchronized": whatever mixture of lost pulses, outliers and pulses without
\* correction follows the last good sample, the mode is left within the time of
\* BadSampleRunLimit further samples, the wait for a missing one and a tick.
SyncWithdrawn ==
  mode = "tracking" =>
    goodAge <= BadSampleRunLimit * Second + SampleIntervalMax + TickInterval

\* "Missing sample (PPS signal not received)" (sampler.go:16): a missing sample
\* stands for a pulse without a usable timestamp, never for one that was delivered
\* late.  The exception is a pulse that still waits for its correction: with a
\* PulseCorrectionTimeout above half a second the overdue check, which does not
\* look at it, counts that pulse as missing.
MissingIsUnheard == unheard >= 0

\* "this shouldn't ever happen" (tracking.go:215): no pulse edge arrives while an
\* earlier pulse waits for its correction.
NoPulseForgotten ==
  [][(mode = "tracking" /\ edge # "none" /\ edge' = "none" /\ unheard' = unheard)
       => st.pending = NoPulse]_vars

\* Every pulse is accounted for once, as a sample or as a missing one, whichever of the
\* correction, its timeout, the next pulse and the overdue check comes first.
PulsesAccounted == []MissingIsUnheard /\ NoPulseForgotten

\* converging.go:26-30: tracking mode, hence InSync, is entered only after
\* StableWindow consecutive samples within OffsetLimit.
ConvergedStable ==
  [][(mode = "converging" /\ mode' = "tracking") => okRun' >= StableWindow]_vars

\* When nothing goes wrong any more, the controller ends up in tracking mode and
\* stays there.  The exception: after a failed step, or an alignment with the wrong
\* second, tracking mode may have persisted a sample of that second, and reset mode
\* then takes every right one for a drift that is too large.
Relocks ==
  <>[](mode = "tracking") \/ <>[](mode = "reset" /\ st.persist = "wrong" /\ sec = "wrong")
=============================================================================
