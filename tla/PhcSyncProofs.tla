--------------------------- MODULE PhcSyncProofs ---------------------------
(***************************************************************************)
(* For all settings of the controller, its counters agree with their       *)
(* windows, tracking mode is left in time when no good samples come, it is *)
(* entered only on a run of good ones, and a missing sample stands for a   *)
(* pulse without a timestamp.                                              *)
(***************************************************************************)
EXTENDS PhcSync, FiniteSetTheorems, SequenceTheorems, TLAPS

Verdict == {"missing", "extreme", "outlier", "good"}
Persist == {"none", "right", "wrong"}

\* The counter of a window is right.
Window(buf, cap, n) == buf \in Seq({0, 1}) /\ Len(buf) <= cap /\ n = Ones(buf)

Counters(t) ==
  /\ t \in TrackingState
  /\ Window(t.badSamples, BadSampleWindow, t.badCount)
  /\ Window(t.outliers, MADWindow, t.outlierCount)
  /\ \A i \in 1 .. Len(t.badSamples) :
       i <= t.consecutiveBad => t.badSamples[Len(t.badSamples) + 1 - i] = 1

\* The last sample is of the pulse of this second or of the one before, and in the
\* latter case, once the pulse has been delivered, the pulse is one without a sample.
OnGrid == sampleAge \in {pulseAge, pulseAge + Second}
Accounted == edge = "none" /\ sampleAge = pulseAge + Second => unheard >= 1

ResetInv ==
  /\ st \in ResetState
  /\ st.edges # 0 => /\ OnGrid \/ sampleAge >= pulseAge + 2 * Second
                     /\ Accounted

ConvergingInv ==
  /\ st \in ConvergingState
  /\ st.samplesSinceMinDecreased < StableWindow /\ st.samplesSinceMinDecreased <= okRun
  /\ st.offsets < MedianWindow => st.samplesSinceMinDecreased = 0
  /\ st.missingSamples < BadSampleLimit
  /\ OnGrid /\ sampleAge <= SampleIntervalMax /\ Accounted

TrackingInv ==
  /\ Counters(st)
  /\ OnGrid /\ sampleAge <= SampleIntervalMax
  /\ IF st.pending = NoPulse THEN Accounted ELSE st.pending = pulseAge /\ edge = "none"
  /\ goodAge <= sampleAge + st.consecutiveBad * Second

ModeInv ==
  \/ mode = "reset" /\ ResetInv
  \/ mode = "converging" /\ ConvergingInv
  \/ mode = "tracking" /\ TrackingInv

Scalars ==
  /\ pulseAge \in -TickInterval .. Second - TickInterval - 1
  /\ edge \in {"none", "coming", "late"}
  /\ edge = "coming" => pulseAge < 0
  /\ edge = "late" => pulseAge < TickInterval
  /\ sampleAge \in -TickInterval .. MaxAge /\ goodAge \in -TickInterval .. MaxAge
  /\ detect \in {"on", "off"} /\ lag \in {"yes", "no"} /\ sec \in {"right", "wrong"}
  /\ faults \in 0 .. MaxFaults /\ badPhases \in 0 .. MaxBadPhases
  /\ stepFails \in 0 .. MaxStepFailures
  /\ unheard \in 0 .. faults /\ okRun \in 0 .. StableWindow
  /\ memory \in Persist

IInv == Scalars /\ ModeInv

-----------------------------------------------------------------------------
(* The windows. *)

LEMMA OnesType ==
  ASSUME NEW buf \in Seq({0, 1})
  PROVE  IsFiniteSet({i \in 1 .. Len(buf) : buf[i] = 1}) /\ Ones(buf) \in 0 .. Len(buf)
  <1> DEFINE S == {i \in 1 .. Len(buf) : buf[i] = 1}
  <1>1. Len(buf) \in Nat OBVIOUS
  <1>2. IsFiniteSet(1 .. Len(buf)) /\ Cardinality(1 .. Len(buf)) = Len(buf)
    <2>1. 1 \in Int /\ Len(buf) \in Int BY <1>1
    <2>2. /\ IsFiniteSet(1 .. Len(buf))
          /\ Cardinality(1 .. Len(buf)) = IF 1 > Len(buf) THEN 0 ELSE Len(buf) - 1 + 1
      BY ONLY <2>1, FS_Interval
    <2> QED BY <1>1, <2>2
  <1>3. S \in SUBSET (1 .. Len(buf)) OBVIOUS
  <1> HIDE DEF S
  <1>4. IsFiniteSet(S) /\ Cardinality(S) <= Cardinality(1 .. Len(buf))
    BY ONLY <1>2, <1>3, FS_Subset
  <1>5. Cardinality(S) \in Nat BY ONLY <1>4, FS_CardinalityType
  <1>6. Ones(buf) = Cardinality(S) BY DEF Ones, S
  <1> QED BY <1>1, <1>2, <1>4, <1>5, <1>6 DEF S

LEMMA OnesRange ==
  ASSUME NEW buf \in Seq({0, 1})
  PROVE  Ones(buf) \in 0 .. Len(buf) /\ Ones(buf) \in Nat
  <1>1. Ones(buf) \in 0 .. Len(buf) BY OnesType
  <1>2. Len(buf) \in Nat OBVIOUS
  <1> QED BY <1>1, <1>2

LEMMA OnesAppend ==
  ASSUME NEW buf \in Seq({0, 1}), NEW x \in {0, 1}
  PROVE  Ones(Append(buf, x)) = Ones(buf) + x
  <1> DEFINE S == {i \in 1 .. Len(buf) : buf[i] = 1}
             a == Append(buf, x)
             T == {i \in 1 .. Len(a) : a[i] = 1}
  <1>1. /\ Len(buf) \in Nat /\ Len(a) = Len(buf) + 1 /\ a[Len(buf) + 1] = x
        /\ \A i \in 1 .. Len(buf) : a[i] = buf[i]
    BY AppendProperties
  <1>2. IsFiniteSet(S) /\ Cardinality(S) \in Nat BY OnesType, FS_CardinalityType
  <1>3. Ones(buf) = Cardinality(S) /\ Ones(a) = Cardinality(T) BY DEF Ones
  <1> HIDE DEF a
  <1>4. 1 .. Len(a) = 1 .. Len(buf) \cup {Len(buf) + 1} /\ Len(buf) + 1 \notin S BY <1>1
  <1>5. T = IF x = 1 THEN S \cup {Len(buf) + 1} ELSE S BY <1>1, <1>4
  <1> HIDE DEF S, T
  <1>6. Cardinality(S \cup {Len(buf) + 1}) = Cardinality(S) + 1
    BY <1>2, <1>4, FS_AddElement
  <1>7. Cardinality(T) = Cardinality(S) + x BY <1>2, <1>5, <1>6
  <1> QED BY <1>3, <1>7 DEF a

LEMMA OnesTail ==
  ASSUME NEW buf \in Seq({0, 1}), Len(buf) # 0
  PROVE  Ones(Tail(buf)) = Ones(buf) - Head(buf)
  <1> DEFINE S == {i \in 1 .. Len(buf) : buf[i] = 1}
             b == Tail(buf)
             T == {i \in 1 .. Len(b) : b[i] = 1}
             f == [i \in T |-> i + 1]
  <1>1. /\ Len(buf) \in Nat /\ Len(b) = Len(buf) - 1 /\ b \in Seq({0, 1})
        /\ \A i \in 1 .. Len(b) : b[i] = buf[i + 1]
        /\ Head(buf) = buf[1] /\ buf[1] \in {0, 1}
    BY HeadTailProperties, EmptySeq
  <1>2. Ones(buf) = Cardinality(S) /\ Ones(b) = Cardinality(T) BY DEF Ones
  <1>3. IsFiniteSet(T) /\ Cardinality(T) \in Nat
    <2> HIDE DEF b
    <2> QED BY <1>1, OnesType, FS_CardinalityType
  <1> HIDE DEF b
  <1>4. S \ {1} = {i + 1 : i \in T}
    <2>1. \A i \in T : i + 1 \in S \ {1}
      <3> TAKE i \in T
      <3>1. i \in 1 .. Len(b) /\ i + 1 \in 1 .. Len(buf) /\ i + 1 # 1 BY <1>1
      <3> QED BY <1>1, <3>1
    <2>2. \A j \in S \ {1} : j - 1 \in T /\ j = (j - 1) + 1
      <3> TAKE j \in S \ {1}
      <3>1. j \in Nat /\ j - 1 \in 1 .. Len(b) /\ j = (j - 1) + 1 BY <1>1
      <3> QED BY <1>1, <3>1
    <2> HIDE DEF S, T
    <2> QED BY <2>1, <2>2
  <1>5. f \in Bijection(T, S \ {1})
    <2>0. \A i \in T : i \in Nat BY <1>1
    <2>1. f \in [T -> S \ {1}] BY <1>4
    <2>2. \A i, j \in T : f[i] = f[j] => i = j BY <2>0
    <2>3. \A j \in S \ {1} : \E i \in T : f[i] = j BY <1>4
    <2> HIDE DEF f, S, T
    <2> QED BY <2>1, <2>2, <2>3 DEF Bijection, Injection, Surjection, IsInjective
  <1>6. IsFiniteSet(S \ {1}) /\ Cardinality(S \ {1}) = Cardinality(T)
    <2> HIDE DEF f, S, T
    <2> QED BY <1>3, <1>5, FS_Bijection DEF ExistsBijection
  <1>7. 1 \in S <=> Head(buf) = 1
    <2>1. 1 \in 1 .. Len(buf) BY <1>1
    <2> QED BY <1>1, <2>1
  <1> HIDE DEF S, T
  <1>8. CASE 1 \in S
    <2>1. S = (S \ {1}) \cup {1} /\ 1 \notin S \ {1} BY <1>8
    <2>2. Cardinality((S \ {1}) \cup {1}) = Cardinality(S \ {1}) + 1 BY ONLY <1>6, <2>1, FS_AddElement
    <2>3. Cardinality(S) = Cardinality(T) + 1 BY ONLY <1>6, <2>1, <2>2
    <2>4. Head(buf) = 1 BY ONLY <1>7, <1>8
    <2>5. Ones(b) = Ones(buf) - Head(buf) BY ONLY <1>2, <1>3, <2>3, <2>4
    <2> QED BY ONLY <2>5 DEF b
  <1>9. CASE 1 \notin S
    <2>1. S = S \ {1} /\ Head(buf) = 0 BY <1>1, <1>7, <1>9
    <2>2. Cardinality(S) = Cardinality(T) BY ONLY <1>6, <2>1
    <2>3. Ones(b) = Ones(buf) - Head(buf) BY ONLY <1>2, <1>3, <2>1, <2>2
    <2> QED BY ONLY <2>3 DEF b
  <1> QED BY <1>8, <1>9

\* Adding to a window adjusts its counter by what comes in and what goes.
LEMMA PushEffect ==
  ASSUME NEW buf \in Seq({0, 1}), NEW cap \in Nat \ {0}, Len(buf) <= cap, NEW x \in {0, 1},
         NEW new, new = Push(buf, cap, x)
  PROVE  /\ new \in Seq({0, 1}) /\ Len(new) \in 1 .. cap
         /\ Ones(new) = Ones(buf) - Evicted(buf, cap) + x
         /\ new[Len(new)] = x
         /\ \A i \in 1 .. Len(new) - 1 :
              i \in 1 .. Len(buf) /\ new[Len(new) - i] = buf[Len(buf) + 1 - i]
  <1> USE DEF Push, Evicted
  <1>1. Len(buf) \in Nat OBVIOUS
  <1>2. CASE Len(buf) < cap
    <2>1. new = Append(buf, x) /\ Evicted(buf, cap) = 0 BY <1>1, <1>2
    <2>2. /\ new \in Seq({0, 1}) /\ Len(new) = Len(buf) + 1 /\ new[Len(buf) + 1] = x
          /\ \A i \in 1 .. Len(buf) : new[i] = buf[i]
      BY <2>1, AppendProperties
    <2>3. Ones(new) = Ones(buf) + x /\ Ones(buf) \in Nat BY <1>1, <2>1, OnesAppend, OnesRange
    <2>4. \A i \in 1 .. Len(new) - 1 :
            i \in 1 .. Len(buf) /\ new[Len(new) - i] = buf[Len(buf) + 1 - i]
      <3> TAKE i \in 1 .. Len(new) - 1
      <3>1. /\ i \in 1 .. Len(buf) /\ Len(buf) + 1 - i \in 1 .. Len(buf)
            /\ Len(new) - i = Len(buf) + 1 - i
        BY <1>1, <2>2
      <3> QED BY <2>2, <3>1
    <2> QED BY <1>1, <1>2, <2>1, <2>2, <2>3, <2>4
  <1>3. CASE Len(buf) = cap
    <2> DEFINE b == Tail(buf)
    <2>1. new = Append(b, x) /\ Evicted(buf, cap) = Head(buf) BY <1>1, <1>3
    <2>2. /\ b \in Seq({0, 1}) /\ Len(b) = Len(buf) - 1 /\ Head(buf) \in {0, 1}
          /\ \A i \in 1 .. Len(b) : b[i] = buf[i + 1]
      BY <1>1, <1>3, HeadTailProperties, EmptySeq
    <2>3. Ones(b) = Ones(buf) - Head(buf) /\ Ones(buf) \in Nat
      BY <1>1, <1>3, OnesTail, OnesRange
    <2> HIDE DEF b
    <2>4. /\ new \in Seq({0, 1}) /\ Len(new) = Len(b) + 1 /\ new[Len(b) + 1] = x
          /\ \A i \in 1 .. Len(b) : new[i] = b[i]
      BY <2>1, <2>2, AppendProperties
    <2>5. Ones(new) = Ones(b) + x BY <2>1, <2>2, OnesAppend
    <2>6. \A i \in 1 .. Len(new) - 1 :
            i \in 1 .. Len(buf) /\ new[Len(new) - i] = buf[Len(buf) + 1 - i]
      <3> TAKE i \in 1 .. Len(new) - 1
      <3>1. /\ i \in 1 .. Len(buf) /\ Len(new) - i \in 1 .. Len(b)
            /\ (Len(new) - i) + 1 = Len(buf) + 1 - i
        BY <1>1, <2>2, <2>4
      <3> QED BY <2>2, <2>4, <3>1
    <2>7. Len(new) \in 1 .. cap /\ new[Len(new)] = x BY <1>1, <1>3, <2>2, <2>4
    <2>8. Ones(new) = Ones(buf) - Evicted(buf, cap) + x BY <2>1, <2>3, <2>5
    <2> QED BY <2>4, <2>6, <2>7, <2>8
  <1> QED BY <1>1, <1>2, <1>3

-----------------------------------------------------------------------------
(* The constants, and the verdict on a sample. *)

LEMMA Constants ==
  /\ Second \in Nat /\ TickInterval \in Nat /\ TickInterval > 0
  /\ SampleIntervalMax \in Nat /\ PulseCorrectionTimeout \in Nat
  /\ PulseCorrectionTimeout > 0 /\ PulseCorrectionTimeout + TickInterval < Second
  /\ Second + TickInterval <= SampleIntervalMax /\ SampleIntervalMax + TickInterval < 2 * Second
  /\ MaxAge \in Nat /\ SampleIntervalMax + 2 * Second < MaxAge
  /\ PulseWindow \in Nat \ {0} /\ MedianWindow \in Nat \ {0} /\ StableWindow \in Nat \ {0}
  /\ BadSampleLimit \in Nat \ {0} /\ BadSampleRunLimit \in Nat \ {0}
  /\ BadSampleWindow \in Nat \ {0} /\ MADWindow \in Nat \ {0}
  /\ MaxMedian \in Nat /\ MaxFaults \in Nat /\ MaxBadPhases \in Nat /\ MaxStepFailures \in Nat
  /\ NoPulse = -Second
  <1>1. /\ Second \in Nat /\ TickInterval \in Nat /\ TickInterval > 0
        /\ SampleIntervalMax \in Nat /\ PulseCorrectionTimeout \in Nat
        /\ PulseCorrectionTimeout > 0 /\ PulseCorrectionTimeout + TickInterval < Second
        /\ Second + TickInterval <= SampleIntervalMax
        /\ SampleIntervalMax + TickInterval < 2 * Second
    BY TimeAssumption
  <1>2. BadSampleRunLimit \in Nat \ {0} BY ConfigAssumption
  <1>3. (BadSampleRunLimit + 2) * Second = BadSampleRunLimit * Second + 2 * Second
        /\ BadSampleRunLimit * Second \in Nat /\ BadSampleRunLimit * Second > 0
    BY <1>1, <1>2
  <1>4. MaxAge \in Nat /\ SampleIntervalMax + 2 * Second < MaxAge BY <1>1, <1>3 DEF MaxAge
  <1> QED BY <1>1, <1>2, <1>4, ConfigAssumption DEF NoPulse

LEMMA RunTime ==
  ASSUME NEW k \in Nat
  PROVE  /\ k * Second \in Nat /\ (k + 1) * Second = k * Second + Second
         /\ k <= BadSampleRunLimit => k * Second <= BadSampleRunLimit * Second
  <1>1. Second \in Nat /\ BadSampleRunLimit \in Nat BY Constants
  <1>2. k * Second \in Nat /\ (k + 1) * Second = k * Second + Second BY <1>1
  <1>3. ASSUME k <= BadSampleRunLimit PROVE k * Second <= BadSampleRunLimit * Second
    <2>1. PICK d \in Nat : BadSampleRunLimit = k + d BY <1>1, <1>3
    <2>2. (k + d) * Second = k * Second + d * Second /\ d * Second \in Nat BY <1>1
    <2> QED BY <1>2, <2>1, <2>2
  <1> QED BY <1>2, <1>3

LEMMA MadAddEffect ==
  ASSUME NEW t, Counters(t), NEW v \in Verdict, NEW u, u = MadAdd(t, v)
  PROVE  /\ u \in TrackingState /\ u.pending = t.pending
         /\ u.badSamples = t.badSamples /\ u.badCount = t.badCount
         /\ u.consecutiveBad = t.consecutiveBad
         /\ Window(u.outliers, MADWindow, u.outlierCount)
  <1>1. t \in TrackingState /\ Window(t.outliers, MADWindow, t.outlierCount) BY DEF Counters
  <1>2. CASE v \in {"missing", "extreme"} BY <1>1, <1>2 DEF MadAdd
  <1>3. CASE v \notin {"missing", "extreme"}
    <2> DEFINE x == IF v = "outlier" THEN 1 ELSE 0
               o == Push(t.outliers, MADWindow, x)
               n == t.outlierCount - Evicted(t.outliers, MADWindow) + x
    <2>1. u = [t EXCEPT !.outliers = o, !.outlierCount = n] BY <1>3 DEF MadAdd
    <2>2. x \in {0, 1} /\ MADWindow \in Nat \ {0} BY Constants
    <2> HIDE DEF x
    <2>3. o \in Seq({0, 1}) /\ Len(o) \in 1 .. MADWindow /\ n = Ones(o)
      BY <1>1, <2>2, PushEffect DEF Window
    <2> HIDE DEF o, n
    <2>4. n \in 0 .. MADWindow
      <3>1. n \in 0 .. Len(o) BY <2>3, OnesRange
      <3> QED BY <2>2, <2>3, <3>1
    <2>5. Window(o, MADWindow, n) BY <2>2, <2>3 DEF Window
    <2>6. u \in TrackingState BY <1>1, <2>1, <2>3, <2>4 DEF TrackingState
    <2>7. u.outliers = o /\ u.outlierCount = n BY <1>1, <2>1 DEF TrackingState
    <2> QED BY <1>1, <2>1, <2>5, <2>6, <2>7 DEF TrackingState
  <1> QED BY <1>2, <1>3

\* A sample keeps the counters right, and one that is not good makes the run longer.
LEMMA AssessEffect ==
  ASSUME NEW t, Counters(t), NEW v \in Verdict, NEW p \in Persist, NEW u, u = Assess(t, v, p),
         ~OverLimit(u)
  PROVE  /\ Counters(u) /\ u.pending = t.pending
         /\ u.consecutiveBad = IF v = "good" THEN 0 ELSE t.consecutiveBad + 1
  <1> DEFINE x == IF v = "good" THEN 0 ELSE 1
             w == MadAdd(t, v)
             b == Push(t.badSamples, BadSampleWindow, x)
             n == t.badCount - Evicted(t.badSamples, BadSampleWindow) + x
             k == IF v = "good" THEN 0 ELSE t.consecutiveBad + 1
             q == IF v = "good" THEN p ELSE t.persist
  <1>1. /\ w \in TrackingState /\ w.pending = t.pending
        /\ w.badSamples = t.badSamples /\ w.badCount = t.badCount
        /\ w.consecutiveBad = t.consecutiveBad
        /\ Window(w.outliers, MADWindow, w.outlierCount)
    BY MadAddEffect
  <1>2. u = [w EXCEPT !.consecutiveBad = k, !.persist = q, !.badSamples = b, !.badCount = n]
    BY DEF Assess
  <1>3. t \in TrackingState /\ Window(t.badSamples, BadSampleWindow, t.badCount)
        /\ t.consecutiveBad \in Nat /\ t.persist \in Persist
    BY Constants DEF Counters, TrackingState, Persist
  <1>4. x \in {0, 1} /\ BadSampleWindow \in Nat \ {0} /\ BadSampleRunLimit \in Nat BY Constants
  <1>5. k \in Nat /\ q \in Persist BY <1>3
  <1>15. x = 0 => k = 0 OBVIOUS
  <1>16. k <= t.consecutiveBad + 1 BY <1>3
  <1> HIDE DEF w, x, k, q
  <1>6. /\ b \in Seq({0, 1}) /\ Len(b) \in 1 .. BadSampleWindow /\ n = Ones(b)
        /\ b[Len(b)] = x
        /\ \A i \in 1 .. Len(b) - 1 :
             i \in 1 .. Len(t.badSamples) /\ b[Len(b) - i] = t.badSamples[Len(t.badSamples) + 1 - i]
    <2> DEFINE s == t.badSamples
    <2>1. s \in Seq({0, 1}) /\ Len(s) <= BadSampleWindow /\ t.badCount = Ones(s)
      BY <1>3 DEF Window
    <2>2. b = Push(s, BadSampleWindow, x) /\ n = Ones(s) - Evicted(s, BadSampleWindow) + x
      BY <2>1
    <2> HIDE DEF s, b, n
    <2>3. /\ b \in Seq({0, 1}) /\ Len(b) \in 1 .. BadSampleWindow
          /\ Ones(b) = Ones(s) - Evicted(s, BadSampleWindow) + x /\ b[Len(b)] = x
      BY <1>4, <2>1, <2>2, PushEffect
    <2>4. ASSUME NEW i \in 1 .. Len(b) - 1
          PROVE  i \in 1 .. Len(s) /\ b[Len(b) - i] = s[Len(s) + 1 - i]
      BY <1>4, <2>1, <2>2, PushEffect
    <2> QED BY <2>2, <2>3, <2>4 DEF s
  <1> HIDE DEF b, n
  <1>7. n \in 0 .. BadSampleWindow
    <2>1. n \in 0 .. Len(b) BY <1>6, OnesRange
    <2> QED BY <1>4, <1>6, <2>1
  <1>8. /\ u.consecutiveBad = k /\ u.badSamples = b /\ u.badCount = n /\ u.pending = w.pending
        /\ u.outliers = w.outliers /\ u.outlierCount = w.outlierCount
    BY <1>1, <1>2 DEF TrackingState
  <1>9. k \in 0 .. BadSampleRunLimit BY <1>4, <1>5, <1>8 DEF OverLimit
  <1>10. u \in TrackingState BY <1>1, <1>2, <1>5, <1>6, <1>7, <1>9 DEF TrackingState, Persist
  <1>11. Window(u.badSamples, BadSampleWindow, u.badCount)
         /\ Window(u.outliers, MADWindow, u.outlierCount)
    BY <1>1, <1>4, <1>6, <1>8 DEF Window
  <1>12. ASSUME NEW i \in 1 .. Len(b), i <= k PROVE b[Len(b) + 1 - i] = 1
    <2>1. CASE i = 1
      <3>1. Len(b) + 1 - i = Len(b) /\ k # 0 BY <1>4, <1>6, <1>12, <1>5, <2>1
      <3> QED BY <1>4, <1>6, <1>15, <3>1
    <2>2. CASE i # 1
      <3>1. /\ i - 1 \in 1 .. Len(b) - 1 /\ Len(b) + 1 - i = Len(b) - (i - 1)
            /\ i - 1 <= t.consecutiveBad
        BY <1>3, <1>5, <1>6, <1>12, <1>16, <2>2
      <3>2. i - 1 \in 1 .. Len(t.badSamples)
            /\ b[Len(b) - (i - 1)] = t.badSamples[Len(t.badSamples) + 1 - (i - 1)]
        BY <1>6, <3>1
      <3> QED BY <3>1, <3>2 DEF Counters
    <2> QED BY <2>1, <2>2
  <1>13. Counters(u) BY <1>8, <1>10, <1>11, <1>12 DEF Counters
  <1> QED BY <1>1, <1>8, <1>13 DEF k

-----------------------------------------------------------------------------
(* What the steps have in common. *)

LEMMA LaterEffect ==
  ASSUME NEW a \in -TickInterval .. MaxAge
  PROVE  /\ Later(a) \in -TickInterval .. MaxAge /\ Later(a) >= a /\ Later(a) <= a + TickInterval
         /\ Later(a) < MaxAge => Later(a) = a + TickInterval
  BY Constants DEF Later, AtMost

LEMMA EnterResetEffect ==
  ASSUME Scalars, NEW p \in Persist, EnterReset(p)
  PROVE  /\ ModeInv' /\ detect' = "off" /\ okRun' = 0 /\ goodAge' = 0 /\ memory' \in Persist
  <1>1. mode' = "reset" /\ st' = NewReset(p) BY DEF EnterReset
  <1>2. st' \in ResetState /\ st'.edges = 0
    BY <1>1, Constants DEF NewReset, ResetState, Persist
  <1> QED BY <1>1, <1>2 DEF ModeInv, ResetInv, EnterReset, Scalars

LEMMA PersistedType ==
  ASSUME IInv
  PROVE  Persisted \in Persist
  BY DEF IInv, ModeInv, TrackingInv, Counters, TrackingState, Persisted, Persist

\* What does not depend on the mode.
LEMMA Bounds ==
  ASSUME Scalars
  PROVE  /\ pulseAge \in Int /\ sampleAge \in Int /\ goodAge \in Int
         /\ -TickInterval <= pulseAge /\ pulseAge < Second - TickInterval
         /\ faults \in Nat /\ unheard \in Nat /\ okRun \in Nat
  BY Constants DEF Scalars

LEMMA StoreEdgeType ==
  ASSUME NEW r \in ResetState, NEW gap, NEW other
  PROVE  StoreEdge(r, gap, other) \in ResetState
  <1>1. r.edges \in Nat /\ PulseWindow \in Nat \ {0} BY Constants DEF ResetState
  <1> DEFINE n == IF r.edges # 0 /\ (gap > SampleIntervalMax \/ other) THEN 1
                  ELSE AtMost(r.edges + 1, PulseWindow)
  <1>2. n \in 0 .. PulseWindow BY <1>1 DEF AtMost
  <1>3. StoreEdge(r, gap, other) = [r EXCEPT !.edges = n, !.intervals = "untried"]
    BY DEF StoreEdge
  <1> HIDE DEF n
  <1> QED BY <1>2, <1>3 DEF ResetState

\* A sample of reset mode: the mode is left with the age of a pulse.
LEMMA ResetSampleEffect ==
  ASSUME Scalars, mode = "reset", NEW r \in ResetState, NEW cand \in {"right", "wrong"},
         NEW age \in -TickInterval .. MaxAge, NEW l \in {"yes", "no"}, ResetSample(r, cand, age, l),
         age \in {pulseAge', pulseAge' + Second}, age <= Second,
         edge' = "none" /\ age = pulseAge' + Second => unheard' >= 1
  PROVE  /\ ModeInv' /\ sampleAge' = age /\ goodAge' \in {age, goodAge}
         /\ detect' \in {"on", "off"} /\ lag' \in {"yes", "no"} /\ sec' \in {"right", "wrong"}
         /\ badPhases' \in 0 .. MaxBadPhases /\ stepFails' \in 0 .. MaxStepFailures
         /\ okRun' = okRun /\ memory' = memory
  <1>1. /\ sampleAge' = age /\ okRun' = okRun /\ memory' = memory
        /\ badPhases' \in 0 .. MaxBadPhases
    BY Constants DEF ResetSample, Scalars
  <1>2. OnGrid' /\ Accounted' BY <1>1 DEF OnGrid, Accounted
  <1>3. CASE DriftExceeds(r, cand)
    <2>1. mode' = "reset" /\ st' = r BY <1>3 DEF ResetSample
    <2>2. ModeInv' BY <1>2, <2>1 DEF ModeInv, ResetInv
    <2> QED BY <1>1, <1>3, <2>2 DEF ResetSample, Scalars
  <1>4. CASE ~DriftExceeds(r, cand)
    <2>1. /\ mode' = "converging" /\ \E era \in {"yes", "no"} : st' = NewConverging(era)
          /\ goodAge' = age /\ detect' \in {"on", "off"}
      BY <1>4 DEF ResetSample
    <2>2. /\ st' \in ConvergingState /\ st'.samplesSinceMinDecreased = 0 /\ st'.missingSamples = 0
      BY <2>1, Constants DEF NewConverging, ConvergingState
    <2>3. okRun' \in Nat /\ age <= SampleIntervalMax
      BY <1>1, Bounds, Constants
    <2>4. ModeInv' BY <1>1, <1>2, <2>1, <2>2, <2>3, Constants DEF ModeInv, ConvergingInv
    <2>5. /\ sec' \in {"right", "wrong"} /\ lag' \in {"yes", "no"}
          /\ stepFails' \in 0 .. MaxStepFailures
      BY <1>4, Constants DEF ResetSample, AdjTime, Scalars
    <2> QED BY <1>1, <2>1, <2>4, <2>5
  <1> QED BY <1>3, <1>4

\* A sample, or a missing one, of tracking mode.
LEMMA TrackingSampleEffect ==
  ASSUME Scalars, mode = "tracking", NEW t, Counters(t), NEW v \in Verdict,
         NEW age \in -TickInterval .. MaxAge, NEW older \in -TickInterval .. MaxAge,
         TrackingSample(t, v, age, older),
         age \in {pulseAge', pulseAge' + Second}, age <= SampleIntervalMax,
         older <= age + (t.consecutiveBad + 1) * Second,
         IF t.pending = NoPulse THEN edge' = "none" /\ age = pulseAge' + Second => unheard' >= 1
                                ELSE t.pending = pulseAge' /\ edge' = "none"
  PROVE  /\ ModeInv' /\ sampleAge' = age /\ goodAge' \in -TickInterval .. MaxAge
         /\ detect' \in {"on", "off"} /\ okRun' \in 0 .. StableWindow /\ memory' \in Persist
  <1>1. t.persist \in Persist /\ sec \in Persist /\ t.consecutiveBad \in Nat
    BY Constants DEF Counters, TrackingState, Persist, Scalars
  <1>2. PICK p \in Persist :
          LET u == Assess(t, v, p)
          IN  /\ sampleAge' = age
              /\ IF OverLimit(u) THEN EnterReset(u.persist)
                 ELSE /\ st' = u
                      /\ goodAge' = IF v = "good" THEN age ELSE older
                      /\ UNCHANGED <<mode, detect, okRun, memory>>
    BY <1>1 DEF TrackingSample
  <1> DEFINE u == Assess(t, v, p)
  <1>3. CASE OverLimit(u)
    <2>1. u.persist \in Persist
      <3>1. MadAdd(t, v) \in TrackingState BY MadAddEffect
      <3>2. u.persist = IF v = "good" THEN p ELSE t.persist BY <3>1 DEF Assess, TrackingState
      <3> QED BY <1>1, <3>2
    <2>2. sampleAge' = age /\ EnterReset(u.persist) BY <1>2, <1>3
    <2> HIDE DEF u
    <2> QED BY <2>1, <2>2, EnterResetEffect, Constants
  <1>4. CASE ~OverLimit(u)
    <2>1. /\ st' = u /\ goodAge' = IF v = "good" THEN age ELSE older
          /\ sampleAge' = age /\ UNCHANGED <<mode, detect, okRun, memory>>
      BY <1>2, <1>4
    <2>2. /\ Counters(u) /\ u.pending = t.pending
          /\ u.consecutiveBad = IF v = "good" THEN 0 ELSE t.consecutiveBad + 1
      BY <1>4, AssessEffect
    <2> HIDE DEF u
    <2>3. OnGrid' BY <2>1 DEF OnGrid
    <2>4. IF u.pending = NoPulse THEN Accounted' ELSE u.pending = pulseAge' /\ edge' = "none"
      BY <2>1, <2>2 DEF Accounted
    <2>5. goodAge' <= age + u.consecutiveBad * Second
      <3>1. CASE v = "good"
        <4>1. 0 * Second = 0 BY Constants
        <4>2. u.consecutiveBad * Second = 0 /\ goodAge' = age BY <2>1, <2>2, <3>1, <4>1
        <4> QED BY <4>2
      <3>2. CASE v # "good" BY <2>1, <2>2, <3>2
      <3> QED BY <3>1, <3>2
    <2>6. ModeInv' BY <2>1, <2>2, <2>3, <2>4, <2>5 DEF ModeInv, TrackingInv
    <2> QED BY <2>1, <2>6 DEF Scalars
  <1> QED BY <1>3, <1>4

\* The same for a pulse, which the mode no longer waits for.
LEMMA TrackingPulseEffect ==
  ASSUME Scalars, mode = "tracking", Counters(st),
         NEW age \in -TickInterval .. MaxAge, NEW older \in -TickInterval .. MaxAge,
         TrackingPulse(age, older),
         age \in {pulseAge', pulseAge' + Second}, age <= SampleIntervalMax,
         older <= age + (st.consecutiveBad + 1) * Second,
         edge' = "none" /\ age = pulseAge' + Second => unheard' >= 1
  PROVE  /\ ModeInv' /\ sampleAge' = age /\ goodAge' \in -TickInterval .. MaxAge
         /\ detect' \in {"on", "off"} /\ okRun' \in 0 .. StableWindow /\ memory' \in Persist
         /\ faults' \in 0 .. MaxFaults /\ faults' >= faults
  <1> DEFINE t == [st EXCEPT !.pending = NoPulse]
  <1>1. PICK v \in Verdict : TrackingSample(t, v, age, older)
                             /\ (UNCHANGED faults \/ Faulty)
    BY DEF TrackingPulse, Verdicts, Verdict
  <1>2. /\ t \in TrackingState /\ t.pending = NoPulse /\ t.consecutiveBad = st.consecutiveBad
        /\ t.badSamples = st.badSamples /\ t.badCount = st.badCount
        /\ t.outliers = st.outliers /\ t.outlierCount = st.outlierCount
    BY DEF Counters, TrackingState
  <1> HIDE DEF t
  <1>3. Counters(t) BY <1>2 DEF Counters
  <1>4. faults' \in 0 .. MaxFaults /\ faults' >= faults
    BY <1>1, Constants DEF Faulty, Scalars
  <1> QED BY <1>1, <1>2, <1>3, <1>4, TrackingSampleEffect

-----------------------------------------------------------------------------
(* Pulse edges. *)

LEMMA StepLose ==
  ASSUME IInv, LosePulse
  PROVE  IInv'
  <1>1. /\ edge # "none" /\ edge' = "none" /\ faults' = faults + 1 /\ unheard' = unheard + 1
        /\ faults' \in 0 .. MaxFaults
        /\ UNCHANGED <<pulseAge, mode, st, sampleAge, detect, lag, sec, badPhases, stepFails,
                       goodAge, okRun, memory>>
    BY Bounds, Constants DEF LosePulse, Deliver, Faulty, world, IInv
  <1>2. Scalars' BY <1>1, Bounds, Constants DEF IInv, Scalars
  <1>3. unheard' >= 1 BY <1>1, Bounds DEF IInv
  <1>4. ModeInv'
    <2>1. CASE mode = "reset"
      BY <1>1, <1>3, <2>1 DEF IInv, ModeInv, ResetInv, OnGrid, Accounted
    <2>2. CASE mode = "converging"
      BY <1>1, <1>3, <2>2 DEF IInv, ModeInv, ConvergingInv, OnGrid, Accounted
    <2>3. CASE mode = "tracking"
      BY <1>1, <1>3, <2>3 DEF IInv, ModeInv, TrackingInv, OnGrid, Accounted
    <2> QED BY <2>1, <2>2, <2>3 DEF IInv, ModeInv
  <1> QED BY <1>2, <1>4 DEF IInv

LEMMA StepResetEdge ==
  ASSUME IInv, NEW era \in {"new", "old"}, ResetEdge(era)
  PROVE  IInv'
  <1>1. /\ edge' = "none" /\ pulseAge' = pulseAge /\ mode' = "reset" /\ st \in ResetState
        /\ st' = StoreEdge(st, sampleAge - pulseAge, lag = "yes" /\ era = "new")
        /\ sampleAge' = pulseAge /\ unheard' = 0
        /\ lag' \in {"yes", "no"} /\ faults' \in 0 .. MaxFaults /\ faults' >= faults
        /\ UNCHANGED <<detect, sec, badPhases, stepFails, goodAge, okRun, memory>>
    BY Bounds, Constants DEF ResetEdge, Deliver, Faulty, IInv, ModeInv, ResetInv, Scalars
  <1>2. st' \in ResetState BY <1>1, StoreEdgeType
  <1>3. sampleAge' = pulseAge' /\ sampleAge' # pulseAge' + Second
    BY <1>1, Bounds, Constants DEF IInv
  <1>4. ModeInv' BY <1>1, <1>2, <1>3 DEF ModeInv, ResetInv, OnGrid, Accounted
  <1>5. Scalars' BY <1>1, Bounds, Constants DEF IInv, Scalars
  <1> QED BY <1>4, <1>5 DEF IInv

LEMMA StepResetAligned ==
  ASSUME IInv, NEW cand \in {"right", "wrong"}, ResetEdgeAligned(cand)
  PROVE  IInv'
  <1> DEFINE r == StoreEdge(st, sampleAge - pulseAge, lag = "yes")
  <1>1. /\ edge' = "none" /\ pulseAge' = pulseAge /\ mode = "reset" /\ st \in ResetState
        /\ unheard' = 0 /\ UNCHANGED faults /\ ResetSample(r, cand, pulseAge, "no")
    BY DEF ResetEdgeAligned, Deliver, IInv, ModeInv, ResetInv
  <1>2. r \in ResetState BY <1>1, StoreEdgeType
  <1> HIDE DEF r
  <1>3. /\ pulseAge \in {pulseAge', pulseAge' + Second} /\ pulseAge <= Second
        /\ pulseAge # pulseAge' + Second /\ pulseAge \in -TickInterval .. MaxAge
    BY <1>1, Bounds, Constants DEF IInv
  <1>4. Scalars BY DEF IInv
  <1>5. /\ ModeInv' /\ sampleAge' = pulseAge /\ goodAge' \in {pulseAge, goodAge}
        /\ detect' \in {"on", "off"} /\ lag' \in {"yes", "no"} /\ sec' \in {"right", "wrong"}
        /\ badPhases' \in 0 .. MaxBadPhases /\ stepFails' \in 0 .. MaxStepFailures
        /\ okRun' = okRun /\ memory' = memory
    BY <1>1, <1>2, <1>3, <1>4, ResetSampleEffect
  <1>6. Scalars' BY <1>1, <1>3, <1>4, <1>5, Bounds, Constants DEF Scalars
  <1> QED BY <1>5, <1>6 DEF IInv

\* The count of samples within OffsetLimit is never ahead of what has happened.
LEMMA SettleEffect ==
  ASSUME NEW c \in ConvergingState, NEW k \in 0 .. StableWindow,
         c.samplesSinceMinDecreased < StableWindow, c.samplesSinceMinDecreased <= k,
         c.offsets < MedianWindow => c.samplesSinceMinDecreased = 0,
         NEW within \in BOOLEAN, NEW median \in 0 .. MaxMedian,
         NEW s, s = Settle(c, within, median),
         NEW n, n = IF within THEN AtMost(k + 1, StableWindow) ELSE 0
  PROVE  /\ s \in ConvergingState /\ s.missingSamples = c.missingSamples
         /\ n \in 0 .. StableWindow /\ s.samplesSinceMinDecreased <= n
         /\ s.offsets < MedianWindow => s.samplesSinceMinDecreased = 0
         /\ Converged(s) <=> s.samplesSinceMinDecreased >= StableWindow
  <1> DEFINE o == AtMost(c.offsets + 1, MedianWindow)
             start == c.samplesSinceMinDecreased = 0 \/ median < c.minMedian
             j == IF start THEN 1 ELSE c.samplesSinceMinDecreased + 1
             min == IF start THEN median ELSE c.minMedian
  <1>1. /\ c.offsets \in 0 .. MedianWindow /\ c.samplesSinceMinDecreased \in Nat
        /\ c.minMedian \in 0 .. MaxMedian
        /\ MedianWindow \in Nat \ {0} /\ StableWindow \in Nat \ {0}
    BY Constants DEF ConvergingState
  <1>2. o \in 0 .. MedianWindow /\ (o < MedianWindow => c.offsets < MedianWindow)
    BY <1>1 DEF AtMost
  <1>3. n \in 0 .. StableWindow BY <1>1 DEF AtMost
  <1>4. j \in 0 .. StableWindow /\ min \in 0 .. MaxMedian /\ (within => j <= n)
    BY <1>1 DEF AtMost
  <1>5. s = IF o < MedianWindow THEN [c EXCEPT !.offsets = o]
            ELSE IF ~within THEN [c EXCEPT !.offsets = o, !.samplesSinceMinDecreased = 0]
            ELSE [c EXCEPT !.offsets = o, !.minMedian = min, !.samplesSinceMinDecreased = j]
    BY DEF Settle
  <1> HIDE DEF o, start, j, min
  <1>6. CASE o < MedianWindow
    <2>1. s = [c EXCEPT !.offsets = o] BY <1>5, <1>6
    <2>2. s \in ConvergingState BY <1>2, <2>1 DEF ConvergingState
    <2>3. /\ s.missingSamples = c.missingSamples
          /\ s.samplesSinceMinDecreased = c.samplesSinceMinDecreased /\ s.offsets = o
      BY <2>1 DEF ConvergingState
    <2> QED BY <1>2, <1>3, <1>6, <2>2, <2>3 DEF Converged
  <1>7. CASE ~(o < MedianWindow) /\ ~within
    <2>1. s = [c EXCEPT !.offsets = o, !.samplesSinceMinDecreased = 0] BY <1>5, <1>7
    <2>4. 0 \in 0 .. StableWindow BY <1>1
    <2>2. s \in ConvergingState BY ONLY c \in ConvergingState, <1>2, <2>1, <2>4 DEF ConvergingState
    <2>3. /\ s.missingSamples = c.missingSamples
          /\ s.samplesSinceMinDecreased = 0 /\ s.offsets = o
      BY <2>1 DEF ConvergingState
    <2> QED BY <1>2, <1>3, <1>7, <2>2, <2>3 DEF Converged
  <1>8. CASE ~(o < MedianWindow) /\ within
    <2>1. s = [c EXCEPT !.offsets = o, !.minMedian = min, !.samplesSinceMinDecreased = j]
      BY <1>5, <1>8
    <2>2. s \in ConvergingState BY <1>2, <1>4, <2>1 DEF ConvergingState
    <2>3. /\ s.missingSamples = c.missingSamples
          /\ s.samplesSinceMinDecreased = j /\ s.offsets = o
      BY <2>1 DEF ConvergingState
    <2> QED BY <1>2, <1>3, <1>4, <1>8, <2>2, <2>3 DEF Converged
  <1> QED BY <1>6, <1>7, <1>8

LEMMA NewTrackingType ==
  Counters(NewTracking) /\ NewTracking.pending = NoPulse /\ NewTracking.consecutiveBad = 0
  <1>1. <<>> \in Seq({0, 1}) /\ Len(<<>>) = 0 /\ 1 .. 0 = {} OBVIOUS
  <1>2. Ones(<<>>) = 0
    <2>1. Ones(<<>>) \in 0 .. Len(<<>>) BY <1>1, OnesRange
    <2> QED BY <1>1, <2>1
  <1>3. NewTracking \in TrackingState
    BY <1>1, Constants DEF NewTracking, TrackingState
  <1> QED BY <1>1, <1>2, <1>3, Constants DEF NewTracking, Counters, Window

LEMMA ConvergingSampleEffect ==
  ASSUME Scalars, mode = "converging", ConvergingInv, NEW era \in {"new", "old"},
         ConvergingSample(pulseAge, era), UNCHANGED <<pulseAge, unheard>>
  PROVE  /\ ModeInv' /\ sampleAge' = pulseAge /\ goodAge' = pulseAge
         /\ detect' = detect /\ lag' \in {"yes", "no"} /\ sec' \in {"right", "wrong"}
         /\ stepFails' \in 0 .. MaxStepFailures /\ faults' \in 0 .. MaxFaults /\ faults' >= faults
         /\ okRun' \in 0 .. StableWindow /\ memory' = memory
         /\ mode' = "tracking" => okRun' >= StableWindow
  <1> DEFINE c == [st EXCEPT !.stepCompensate = "no"]
             steps == st.stepCompensate = "yes" /\ st.newEra = "yes" /\ era = "new"
  <1>1. st \in ConvergingState BY DEF ConvergingInv
  <1>2. /\ c \in ConvergingState /\ c.samplesSinceMinDecreased = st.samplesSinceMinDecreased
        /\ c.offsets = st.offsets /\ c.missingSamples = st.missingSamples
    BY <1>1 DEF ConvergingState
  <1>3. sampleAge' = pulseAge /\ goodAge' = pulseAge /\ UNCHANGED <<detect, memory>>
    BY DEF ConvergingSample
  <1>4. \/ /\ steps
           /\ AdjTime(sec)
           /\ st' = c
           /\ UNCHANGED <<mode, okRun, faults>>
        \/ /\ ~steps
           /\ lag' = IF era = "new" THEN "no" ELSE lag
           /\ UNCHANGED <<sec, stepFails>>
           /\ \E within \in BOOLEAN, median \in 0 .. MaxMedian :
                LET s == Settle(c, within, median)
                IN  /\ IF within /\ era = "new" THEN UNCHANGED faults ELSE Faulty
                    /\ IF Converged(s)
                       THEN mode' = "tracking" /\ st' = NewTracking
                       ELSE st' = s /\ UNCHANGED mode
                    /\ okRun' = IF within THEN AtMost(okRun + 1, StableWindow) ELSE 0
    BY DEF ConvergingSample
  <1> HIDE DEF c, steps
  <1>5. /\ OnGrid' /\ Accounted' /\ sampleAge' <= SampleIntervalMax
    <2>1. pulseAge # pulseAge + Second /\ pulseAge <= SampleIntervalMax BY Bounds, Constants
    <2> QED BY <1>3, <2>1 DEF OnGrid, Accounted
  <1>6. CASE AdjTime(sec) /\ st' = c /\ UNCHANGED <<mode, okRun, faults>>
    <2>1. ConvergingInv' BY <1>2, <1>5, <1>6 DEF ConvergingInv
    <2>2. ModeInv' BY <1>6, <2>1 DEF ModeInv
    <2>3. /\ lag' \in {"yes", "no"} /\ sec' \in {"right", "wrong"}
          /\ stepFails' \in 0 .. MaxStepFailures
      BY <1>6, Constants DEF AdjTime, Scalars
    <2>4. faults' >= faults BY <1>6, Bounds
    <2> QED BY <1>3, <1>6, <2>2, <2>3, <2>4 DEF Scalars
  <1>7. ASSUME lag' = IF era = "new" THEN "no" ELSE lag, UNCHANGED <<sec, stepFails>>,
               NEW within \in BOOLEAN, NEW median \in 0 .. MaxMedian,
               NEW s, s = Settle(c, within, median),
               IF within /\ era = "new" THEN UNCHANGED faults ELSE Faulty,
               IF Converged(s) THEN mode' = "tracking" /\ st' = NewTracking
                               ELSE st' = s /\ UNCHANGED mode,
               okRun' = IF within THEN AtMost(okRun + 1, StableWindow) ELSE 0
        PROVE  /\ ModeInv' /\ okRun' \in 0 .. StableWindow
               /\ faults' \in 0 .. MaxFaults /\ faults' >= faults
               /\ mode' = "tracking" => okRun' >= StableWindow
    <2>1. okRun \in 0 .. StableWindow BY DEF Scalars
    <2>2. /\ s \in ConvergingState /\ s.missingSamples = c.missingSamples
          /\ okRun' \in 0 .. StableWindow /\ s.samplesSinceMinDecreased <= okRun'
          /\ (s.offsets < MedianWindow => s.samplesSinceMinDecreased = 0)
          /\ (Converged(s) <=> s.samplesSinceMinDecreased >= StableWindow)
      BY <1>2, <1>7, <2>1, SettleEffect DEF ConvergingInv
    <2>3. faults' \in 0 .. MaxFaults /\ faults' >= faults
      BY <1>7, Constants DEF Faulty, Scalars
    <2>4. CASE Converged(s)
      <3>1. mode' = "tracking" /\ st' = NewTracking BY <1>7, <2>4
      <3>2. goodAge' <= sampleAge' + st'.consecutiveBad * Second
        <4>1. 0 * Second = 0 BY Constants
        <4>2. st'.consecutiveBad * Second = 0 BY <3>1, <4>1, NewTrackingType
        <4> QED BY <1>3, <4>2, Bounds
      <3>3. TrackingInv' BY <1>5, <3>1, <3>2, NewTrackingType DEF TrackingInv
      <3>4. okRun' >= StableWindow BY <2>2, <2>4, Constants DEF ConvergingState
      <3> QED BY <2>2, <2>3, <3>1, <3>3, <3>4 DEF ModeInv
    <2>5. CASE ~Converged(s)
      <3>1. mode' = "converging" /\ st' = s BY <1>7, <2>5
      <3>2. s.samplesSinceMinDecreased < StableWindow
        BY <2>2, <2>5, Constants DEF ConvergingState
      <3>3. ConvergingInv' BY <1>2, <1>5, <2>2, <3>1, <3>2 DEF ConvergingInv
      <3> QED BY <2>2, <2>3, <3>1, <3>3 DEF ModeInv
    <2> QED BY <2>4, <2>5
  <1>8. CASE ~(AdjTime(sec) /\ st' = c /\ UNCHANGED <<mode, okRun, faults>>)
    <2>1. /\ lag' = IF era = "new" THEN "no" ELSE lag
          /\ UNCHANGED <<sec, stepFails>>
      BY <1>4, <1>8
    <2>2. /\ ModeInv' /\ okRun' \in 0 .. StableWindow
          /\ faults' \in 0 .. MaxFaults /\ faults' >= faults
          /\ mode' = "tracking" => okRun' >= StableWindow
      BY <1>4, <1>7, <1>8, <2>1
    <2> QED BY <1>3, <2>1, <2>2 DEF Scalars
  <1> QED BY <1>6, <1>8

LEMMA StepConvergingEdge ==
  ASSUME IInv, NEW era \in {"new", "old"}, ConvergingEdge(era)
  PROVE  IInv'
  <1>1. /\ edge' = "none" /\ pulseAge' = pulseAge /\ mode = "converging"
        /\ ConvergingSample(pulseAge, era) /\ UNCHANGED <<badPhases, unheard>>
    BY DEF ConvergingEdge, Deliver
  <1>2. Scalars /\ ConvergingInv BY <1>1 DEF IInv, ModeInv
  <1>3. /\ ModeInv' /\ sampleAge' = pulseAge /\ goodAge' = pulseAge
        /\ detect' = detect /\ lag' \in {"yes", "no"} /\ sec' \in {"right", "wrong"}
        /\ stepFails' \in 0 .. MaxStepFailures /\ faults' \in 0 .. MaxFaults /\ faults' >= faults
        /\ okRun' \in 0 .. StableWindow /\ memory' = memory
    BY <1>1, <1>2, ConvergingSampleEffect
  <1>4. pulseAge \in -TickInterval .. MaxAge BY <1>2, Bounds, Constants
  <1>5. Scalars' BY <1>1, <1>2, <1>3, <1>4, Bounds, Constants DEF Scalars
  <1> QED BY <1>3, <1>5 DEF IInv

LEMMA RunOfBad ==
  ASSUME TrackingInv
  PROVE  /\ Counters(st) /\ st.consecutiveBad \in Nat /\ st.consecutiveBad <= BadSampleRunLimit
         /\ st.consecutiveBad * Second \in Nat
         /\ (st.consecutiveBad + 1) * Second = st.consecutiveBad * Second + Second
  <1>1. /\ Counters(st) /\ st.consecutiveBad \in Nat /\ st.consecutiveBad <= BadSampleRunLimit
    BY Constants DEF TrackingInv, Counters, TrackingState
  <1> QED BY <1>1, RunTime

LEMMA StepTrackingEdge ==
  ASSUME IInv, TrackingEdge
  PROVE  IInv'
  <1>1. /\ edge' = "none" /\ pulseAge' = pulseAge /\ mode = "tracking"
        /\ TrackingPulse(pulseAge, goodAge)
        /\ UNCHANGED <<lag, sec, badPhases, stepFails, unheard>>
    BY DEF TrackingEdge, Deliver, world
  <1>2. Scalars /\ TrackingInv BY <1>1 DEF IInv, ModeInv
  <1>3. /\ pulseAge \in -TickInterval .. MaxAge /\ goodAge \in -TickInterval .. MaxAge
        /\ pulseAge <= SampleIntervalMax /\ pulseAge # pulseAge + Second
    BY <1>2, Bounds, Constants DEF Scalars
  <1>4. goodAge <= pulseAge + (st.consecutiveBad + 1) * Second
    <2>1. goodAge <= sampleAge + st.consecutiveBad * Second /\ sampleAge <= pulseAge + Second
      BY <1>2, Bounds, Constants DEF TrackingInv, OnGrid
    <2> QED BY <1>2, <2>1, RunOfBad, Bounds, Constants
  <1>5. /\ ModeInv' /\ sampleAge' = pulseAge /\ goodAge' \in -TickInterval .. MaxAge
        /\ detect' \in {"on", "off"} /\ okRun' \in 0 .. StableWindow /\ memory' \in Persist
        /\ faults' \in 0 .. MaxFaults /\ faults' >= faults
    BY <1>1, <1>2, <1>3, <1>4, RunOfBad, TrackingPulseEffect
  <1>6. Scalars' BY <1>1, <1>2, <1>3, <1>5, Bounds, Constants DEF Scalars
  <1> QED BY <1>5, <1>6 DEF IInv

LEMMA StepTrackingEdgeWaits ==
  ASSUME IInv, TrackingEdgeWaits
  PROVE  IInv'
  <1>1. /\ edge' = "none" /\ mode = "tracking" /\ st' = [st EXCEPT !.pending = pulseAge]
        /\ UNCHANGED <<pulseAge, mode, sampleAge, detect, faults, lag, sec, badPhases, stepFails,
                       goodAge, unheard, okRun, memory>>
    BY DEF TrackingEdgeWaits, Deliver, world, history
  <1>2. Scalars /\ TrackingInv BY <1>1 DEF IInv, ModeInv
  <1>3. pulseAge \in -TickInterval .. Second /\ pulseAge # NoPulse
    BY <1>2, Bounds, Constants
  <1>4. /\ st' \in TrackingState /\ st'.pending = pulseAge /\ st'.consecutiveBad = st.consecutiveBad
        /\ st'.badSamples = st.badSamples /\ st'.badCount = st.badCount
        /\ st'.outliers = st.outliers /\ st'.outlierCount = st.outlierCount
    BY <1>1, <1>2, <1>3 DEF TrackingInv, Counters, TrackingState
  <1>5. Counters(st)' BY <1>2, <1>4 DEF TrackingInv, Counters, Window, Ones
  <1>6. ModeInv' BY <1>1, <1>2, <1>3, <1>4, <1>5 DEF ModeInv, TrackingInv, OnGrid
  <1>7. Scalars' BY <1>1, <1>2 DEF Scalars
  <1> QED BY <1>6, <1>7 DEF IInv

-----------------------------------------------------------------------------
(* Time messages, carrier loss, and the leap second. *)

LEMMA StepResetMessage ==
  ASSUME IInv, NEW cand \in {"right", "wrong"}, ResetMessage(cand)
  PROVE  IInv'
  <1>1. /\ mode = "reset" /\ CanAlign(st, sampleAge) /\ ResetSample(st, cand, sampleAge, lag)
        /\ UNCHANGED <<pulseAge, edge, faults, unheard>>
    BY DEF ResetMessage
  <1>2. Scalars /\ ResetInv BY <1>1 DEF IInv, ModeInv
  <1>3. st \in ResetState /\ st.edges # 0 /\ sampleAge <= Second
    BY <1>1, <1>2, Constants DEF ResetInv, CanAlign
  <1>4. OnGrid /\ Accounted BY <1>2, <1>3, Bounds, Constants DEF ResetInv
  <1>5. /\ sampleAge \in {pulseAge', pulseAge' + Second}
        /\ (edge' = "none" /\ sampleAge = pulseAge' + Second => unheard' >= 1)
        /\ sampleAge \in -TickInterval .. MaxAge /\ lag \in {"yes", "no"}
    BY <1>1, <1>2, <1>4 DEF OnGrid, Accounted, Scalars
  <1>6. /\ ModeInv' /\ sampleAge' = sampleAge /\ goodAge' \in {sampleAge, goodAge}
        /\ detect' \in {"on", "off"} /\ lag' \in {"yes", "no"} /\ sec' \in {"right", "wrong"}
        /\ badPhases' \in 0 .. MaxBadPhases /\ stepFails' \in 0 .. MaxStepFailures
        /\ okRun' = okRun /\ memory' = memory
    BY <1>1, <1>2, <1>3, <1>5, ResetSampleEffect
  <1>7. Scalars' BY <1>1, <1>2, <1>6 DEF Scalars
  <1> QED BY <1>6, <1>7 DEF IInv

LEMMA StepResetMessageBad ==
  ASSUME IInv, ResetMessageBad
  PROVE  IInv'
  <1>1. /\ mode = "reset" /\ st' = [st EXCEPT !.intervals = "bad"]
        /\ faults' = faults + 1 /\ faults' \in 0 .. MaxFaults
        /\ UNCHANGED <<pulseAge, edge, mode, sampleAge, detect, lag, sec, badPhases, stepFails,
                       goodAge, unheard, okRun, memory>>
    BY Bounds, Constants DEF ResetMessageBad, Faulty, world, history, IInv
  <1>2. Scalars /\ ResetInv BY <1>1 DEF IInv, ModeInv
  <1>3. st' \in ResetState /\ st'.edges = st.edges BY <1>1, <1>2 DEF ResetInv, ResetState
  <1>4. ModeInv' BY <1>1, <1>2, <1>3 DEF ModeInv, ResetInv, OnGrid, Accounted
  <1>5. Scalars' BY <1>1, <1>2, Bounds, Constants DEF Scalars
  <1> QED BY <1>4, <1>5 DEF IInv

LEMMA StepTrackingMessage ==
  ASSUME IInv, TrackingMessage
  PROVE  IInv'
  <1>1. /\ mode = "tracking" /\ st.pending # NoPulse /\ TrackingPulse(st.pending, goodAge)
        /\ UNCHANGED <<pulseAge, edge, lag, sec, badPhases, stepFails, unheard>>
    BY DEF TrackingMessage, world
  <1>2. Scalars /\ TrackingInv BY <1>1 DEF IInv, ModeInv
  <1>3. st.pending = pulseAge BY <1>1, <1>2 DEF TrackingInv
  <1>4. /\ pulseAge \in -TickInterval .. MaxAge /\ goodAge \in -TickInterval .. MaxAge
        /\ pulseAge <= SampleIntervalMax /\ pulseAge # pulseAge + Second
    BY <1>2, Bounds, Constants DEF Scalars
  <1>5. goodAge <= pulseAge + (st.consecutiveBad + 1) * Second
    <2>1. goodAge <= sampleAge + st.consecutiveBad * Second /\ sampleAge <= pulseAge + Second
      BY <1>2, Bounds, Constants DEF TrackingInv, OnGrid
    <2> QED BY <1>2, <2>1, RunOfBad, Bounds, Constants
  <1>6. /\ ModeInv' /\ sampleAge' = pulseAge /\ goodAge' \in -TickInterval .. MaxAge
        /\ detect' \in {"on", "off"} /\ okRun' \in 0 .. StableWindow /\ memory' \in Persist
        /\ faults' \in 0 .. MaxFaults /\ faults' >= faults
    BY <1>1, <1>2, <1>3, <1>4, <1>5, RunOfBad, TrackingPulseEffect
  <1>7. Scalars' BY <1>1, <1>2, <1>4, <1>6, Bounds, Constants DEF Scalars
  <1> QED BY <1>6, <1>7 DEF IInv

LEMMA StepLeave ==
  ASSUME IInv, LeapDetected \/ Pause
  PROVE  IInv'
  <1>0. Scalars BY DEF IInv
  <1>1. /\ faults' = faults + 1 /\ faults' \in 0 .. MaxFaults /\ lag' \in {"yes", "no"}
        /\ UNCHANGED <<pulseAge, edge, sampleAge, sec, badPhases, stepFails, unheard>>
    BY <1>0, Bounds, Constants DEF LeapDetected, Pause, Faulty, world, Scalars
  <1>2. CASE EnterReset(Persisted)
    <2>1. ModeInv' /\ detect' = "off" /\ okRun' = 0 /\ goodAge' = 0 /\ memory' \in Persist
      BY <1>0, <1>2, PersistedType, EnterResetEffect
    <2>2. Scalars' BY <1>0, <1>1, <2>1, Bounds, Constants DEF Scalars
    <2> QED BY <2>1, <2>2 DEF IInv
  <1>3. CASE mode = "reset" /\ UNCHANGED <<mode, st, detect, goodAge, okRun, memory>>
    <2>1. ModeInv' BY <1>1, <1>3 DEF IInv, ModeInv, ResetInv, OnGrid, Accounted
    <2>2. Scalars' BY <1>0, <1>1, <1>3, Bounds, Constants DEF Scalars
    <2> QED BY <2>1, <2>2 DEF IInv
  <1> QED BY <1>2, <1>3 DEF LeapDetected, Pause

-----------------------------------------------------------------------------
(* The ticker. *)

LEMMA AdvanceEffect ==
  ASSUME Scalars, Advance
  PROVE  /\ edge # "late" /\ edge' \in {"none", "coming", "late"}
         /\ pulseAge' \in -TickInterval .. Second - TickInterval - 1
         /\ (edge' = "coming" => pulseAge' < 0) /\ (edge' = "late" => pulseAge' < TickInterval)
         /\ \/ /\ pulseAge' = pulseAge + TickInterval - Second /\ edge' = "coming"
               /\ pulseAge + 2 * TickInterval >= Second
            \/ /\ pulseAge' = pulseAge + TickInterval /\ pulseAge + 2 * TickInterval < Second
               /\ edge' = "none" <=> edge = "none"
  <1>1. /\ edge # "late" /\ edge \in {"none", "coming", "late"}
        /\ edge = "coming" => pulseAge < 0
    BY DEF Advance, Scalars
  <1>2. CASE pulseAge + 2 * TickInterval >= Second
    <2>1. edge' = "coming" /\ pulseAge' = pulseAge + TickInterval - Second
      BY <1>2 DEF Advance
    <2> QED BY <1>1, <1>2, <2>1, Bounds, Constants
  <1>3. CASE ~(pulseAge + 2 * TickInterval >= Second)
    <2>1. /\ edge' = IF edge = "coming" THEN "late" ELSE "none"
          /\ pulseAge' = pulseAge + TickInterval
      BY <1>3 DEF Advance
    <2> QED BY <1>1, <1>3, <2>1, Bounds, Constants
  <1> QED BY <1>2, <1>3

\* The pending pulse is that of this second, and times out before the next one.
LEMMA AgedEffect ==
  ASSUME Scalars, TrackingInv, mode = "tracking", ~PendingDue, Advance
  PROVE  /\ Counters(Aged) /\ Aged.consecutiveBad = st.consecutiveBad
         /\ IF Aged.pending = NoPulse THEN st.pending = NoPulse
                                      ELSE Aged.pending = pulseAge' /\ edge' = "none"
  <1>0. Counters(st) /\ st \in TrackingState BY DEF TrackingInv, Counters
  <1>1. CASE st.pending = NoPulse
    <2>1. Aged = st BY <1>1 DEF Aged, Waits
    <2> QED BY <1>0, <1>1, <2>1
  <1>2. CASE st.pending # NoPulse
    <2>1. Aged = [st EXCEPT !.pending = Later(st.pending)] BY <1>2 DEF Aged, Waits
    <2>2. st.pending = pulseAge /\ edge = "none" /\ Later(pulseAge) <= PulseCorrectionTimeout
      <3>1. st.pending = pulseAge /\ edge = "none" BY <1>2 DEF TrackingInv
      <3>2. ~(Later(st.pending) > PulseCorrectionTimeout) BY <1>2 DEF PendingDue, Waits
      <3>3. Later(pulseAge) \in Int BY LaterEffect, Bounds, Constants
      <3> QED BY <3>1, <3>2, <3>3, Constants
    <2>3. Later(pulseAge) = pulseAge + TickInterval
      BY <2>2, LaterEffect, Bounds, Constants
    <2>4. pulseAge' = pulseAge + TickInterval /\ edge' = "none"
      BY <2>2, <2>3, AdvanceEffect, Bounds, Constants
    <2>5. Later(st.pending) \in -TickInterval .. Second /\ Later(st.pending) # NoPulse
      BY <2>2, <2>3, Bounds, Constants
    <2> DEFINE a == Aged
    <2>6. /\ a \in TrackingState /\ a.pending = Later(st.pending)
          /\ a.consecutiveBad = st.consecutiveBad
          /\ a.badSamples = st.badSamples /\ a.badCount = st.badCount
          /\ a.outliers = st.outliers /\ a.outlierCount = st.outlierCount
      BY <1>0, <2>1, <2>5 DEF TrackingState
    <2> HIDE DEF a
    <2>7. Counters(a) BY <1>0, <2>6 DEF Counters
    <2> QED BY <2>2, <2>3, <2>4, <2>5, <2>6, <2>7 DEF a
  <1> QED BY <1>1, <1>2

\* The ages of a tick that finds nothing to do.
LEMMA IdleAges ==
  ASSUME Scalars, Advance
  PROVE  /\ OnGrid /\ (Later(sampleAge) <= SampleIntervalMax \/ mode = "reset") =>
              \/ Later(sampleAge) \in {pulseAge', pulseAge' + Second}
              \/ Later(sampleAge) >= pulseAge' + 2 * Second /\ mode = "reset"
         /\ sampleAge >= pulseAge + 2 * Second => Later(sampleAge) >= pulseAge' + 2 * Second
         /\ (OnGrid \/ sampleAge >= pulseAge + 2 * Second) /\ Accounted
              /\ edge' = "none" /\ Later(sampleAge) = pulseAge' + Second
                => unheard >= 1
  <1>1. /\ Later(sampleAge) \in Int /\ Later(sampleAge) <= sampleAge + TickInterval
        /\ (Later(sampleAge) < MaxAge => Later(sampleAge) = sampleAge + TickInterval)
        /\ Later(sampleAge) <= MaxAge
    BY LaterEffect, Bounds, Constants DEF Scalars
  <1>2. /\ pulseAge' \in Int /\ pulseAge' < Second - TickInterval
        /\ \/ /\ pulseAge' = pulseAge + TickInterval - Second /\ edge' = "coming"
              /\ pulseAge + 2 * TickInterval >= Second
           \/ /\ pulseAge' = pulseAge + TickInterval /\ pulseAge + 2 * TickInterval < Second
              /\ edge' = "none" <=> edge = "none"
    BY AdvanceEffect, Bounds, Constants
  <1>3. ASSUME OnGrid PROVE Later(sampleAge) = sampleAge + TickInterval
    BY <1>1, <1>3, Bounds, Constants DEF OnGrid
  <1>4. sampleAge >= pulseAge + 2 * Second => Later(sampleAge) >= pulseAge' + 2 * Second
    BY <1>1, <1>2, Bounds, Constants
  <1>5. ASSUME OnGrid, Later(sampleAge) <= SampleIntervalMax \/ mode = "reset"
        PROVE  \/ Later(sampleAge) \in {pulseAge', pulseAge' + Second}
               \/ Later(sampleAge) >= pulseAge' + 2 * Second /\ mode = "reset"
    BY <1>2, <1>3, <1>5, Bounds, Constants DEF OnGrid
  <1>6. ASSUME OnGrid \/ sampleAge >= pulseAge + 2 * Second, Accounted, edge' = "none",
               Later(sampleAge) = pulseAge' + Second
        PROVE  unheard >= 1
    <2>1. edge = "none" /\ pulseAge' = pulseAge + TickInterval BY <1>2, <1>6
    <2>2. OnGrid BY <1>2, <1>4, <1>6, Constants
    <2>3. sampleAge = pulseAge + Second BY <1>3, <1>6, <2>1, <2>2, Bounds, Constants
    <2> QED BY <1>6, <2>1, <2>3 DEF Accounted
  <1> QED BY <1>4, <1>5, <1>6

LEMMA StepTickIdle ==
  ASSUME IInv, TickIdle
  PROVE  IInv'
  <1>1. /\ Advance /\ ~PendingDue /\ ~Overdue /\ sampleAge' = Later(sampleAge)
        /\ goodAge' = IF mode = "reset" THEN 0 ELSE Later(goodAge)
        /\ st' = Aged
        /\ UNCHANGED <<mode, detect, faults, lag, sec, badPhases, stepFails, unheard, okRun, memory>>
    BY DEF TickIdle, world
  <1>2. Scalars BY DEF IInv
  <1>3. /\ Later(sampleAge) \in -TickInterval .. MaxAge /\ Later(goodAge) \in -TickInterval .. MaxAge
        /\ Later(goodAge) <= goodAge + TickInterval
    BY <1>2, LaterEffect DEF Scalars
  <1>4. Scalars' BY <1>1, <1>2, <1>3, AdvanceEffect, Constants DEF Scalars
  <1>5. mode # "reset" => Later(sampleAge) <= SampleIntervalMax
    BY <1>1, <1>3, Constants DEF Overdue
  <1>6. CASE mode = "reset"
    <2>1. st' = st BY <1>1, <1>6 DEF Aged, Waits
    <2>2. st.edges # 0 => OnGrid' \/ sampleAge' >= pulseAge' + 2 * Second
      BY <1>1, <1>2, <1>6, IdleAges DEF IInv, ModeInv, ResetInv, OnGrid
    <2>3. st.edges # 0 => Accounted'
      BY <1>1, <1>2, <1>6, IdleAges DEF IInv, ModeInv, ResetInv, Accounted
    <2> QED BY <1>1, <1>4, <1>6, <2>1, <2>2, <2>3 DEF IInv, ModeInv, ResetInv
  <1>7. CASE mode = "converging"
    <2>1. st' = st /\ ConvergingInv BY <1>1, <1>7 DEF Aged, Waits, IInv, ModeInv
    <2>2. OnGrid' BY <1>1, <1>2, <1>5, <1>7, <2>1, IdleAges DEF ConvergingInv, OnGrid
    <2>3. Accounted' BY <1>1, <1>2, <2>1, IdleAges DEF ConvergingInv, Accounted
    <2>4. ConvergingInv' BY <1>1, <1>5, <1>7, <2>1, <2>2, <2>3 DEF ConvergingInv
    <2> QED BY <1>1, <1>4, <1>7, <2>4 DEF IInv, ModeInv
  <1>8. CASE mode = "tracking"
    <2>1. TrackingInv BY <1>8 DEF IInv, ModeInv
    <2>2. /\ Counters(Aged) /\ Aged.consecutiveBad = st.consecutiveBad
          /\ IF Aged.pending = NoPulse THEN st.pending = NoPulse
                                       ELSE Aged.pending = pulseAge' /\ edge' = "none"
      BY <1>1, <1>2, <1>8, <2>1, AgedEffect
    <2>3. OnGrid' BY <1>1, <1>2, <1>5, <1>8, <2>1, IdleAges DEF TrackingInv, OnGrid
    <2>4. st.pending = NoPulse => Accounted'
      BY <1>1, <1>2, <2>1, IdleAges DEF TrackingInv, Accounted
    <2>5. goodAge' <= sampleAge' + st'.consecutiveBad * Second
      <3>1. goodAge <= sampleAge + st.consecutiveBad * Second BY <2>1 DEF TrackingInv
      <3>2. Later(sampleAge) = sampleAge + TickInterval
        BY <1>2, <1>5, <1>8, LaterEffect, Constants DEF Scalars
      <3>3. Later(goodAge) <= Later(sampleAge) + st.consecutiveBad * Second
        BY <1>2, <1>3, <2>1, <3>1, <3>2, RunOfBad, Bounds, Constants
      <3> QED BY <1>1, <1>8, <2>2, <3>3
    <2> DEFINE a == Aged
    <2>6. st' = a BY <1>1
    <2> HIDE DEF a
    <2>7. Counters(st') BY <2>2, <2>6 DEF a
    <2>8. IF st'.pending = NoPulse THEN Accounted' ELSE st'.pending = pulseAge' /\ edge' = "none"
      BY <2>2, <2>4, <2>6 DEF a
    <2>9. sampleAge' <= SampleIntervalMax BY <1>1, <1>5, <1>8
    <2>10. TrackingInv' BY <2>3, <2>5, <2>7, <2>8, <2>9 DEF TrackingInv
    <2> QED BY <1>1, <1>4, <1>8, <2>10 DEF IInv, ModeInv
  <1> QED BY <1>6, <1>7, <1>8 DEF IInv, ModeInv

LEMMA StepTickPending ==
  ASSUME IInv, TickPending
  PROVE  IInv'
  <1>1. /\ Advance /\ PendingDue /\ TrackingPulse(Later(st.pending), Later(goodAge))
        /\ UNCHANGED <<lag, sec, badPhases, stepFails, unheard>>
    BY DEF TickPending, world
  <1>2. mode = "tracking" /\ st.pending # NoPulse BY <1>1 DEF PendingDue, Waits
  <1>3. Scalars /\ TrackingInv BY <1>2 DEF IInv, ModeInv
  <1>4. st.pending = pulseAge BY <1>2, <1>3 DEF TrackingInv
  <1>5. /\ Later(pulseAge) = pulseAge + TickInterval
        /\ pulseAge + TickInterval \in -TickInterval .. MaxAge
        /\ pulseAge + TickInterval <= SampleIntervalMax
    BY <1>3, LaterEffect, Bounds, Constants
  <1>6. Later(goodAge) \in -TickInterval .. MaxAge /\ Later(goodAge) <= goodAge + TickInterval
    BY <1>3, LaterEffect DEF Scalars
  <1>7. Later(goodAge) <= (pulseAge + TickInterval) + (st.consecutiveBad + 1) * Second
    <2>1. goodAge <= sampleAge + st.consecutiveBad * Second /\ sampleAge <= pulseAge + Second
      BY <1>3, Bounds, Constants DEF TrackingInv, OnGrid
    <2>2. goodAge \in Int /\ Later(goodAge) \in Int BY <1>3, <1>6, Bounds, Constants
    <2> QED BY <1>3, <1>6, <2>1, <2>2, RunOfBad, Bounds, Constants
  <1> DEFINE age == pulseAge + TickInterval
  <1>8. /\ age \in {pulseAge', pulseAge' + Second}
        /\ edge' = "none" /\ age = pulseAge' + Second => unheard' >= 1
    <2>1. \/ pulseAge' = pulseAge + TickInterval - Second /\ edge' = "coming"
          \/ pulseAge' = pulseAge + TickInterval
      BY <1>1, <1>3, AdvanceEffect
    <2> QED BY <1>3, <2>1, Bounds, Constants
  <1>9. TrackingPulse(age, Later(goodAge)) BY <1>1, <1>4, <1>5
  <1> HIDE DEF age
  <1>10. /\ ModeInv' /\ sampleAge' = age /\ goodAge' \in -TickInterval .. MaxAge
         /\ detect' \in {"on", "off"} /\ okRun' \in 0 .. StableWindow /\ memory' \in Persist
         /\ faults' \in 0 .. MaxFaults /\ faults' >= faults
    <2>1. age \in -TickInterval .. MaxAge /\ age <= SampleIntervalMax
          /\ Later(goodAge) <= age + (st.consecutiveBad + 1) * Second
      BY <1>5, <1>7 DEF age
    <2> QED BY <1>2, <1>3, <1>6, <1>8, <1>9, <2>1, RunOfBad, TrackingPulseEffect
  <1>11. age \in -TickInterval .. MaxAge BY <1>5 DEF age
  <1>12. Scalars' BY <1>1, <1>3, <1>10, <1>11, AdvanceEffect, Bounds, Constants DEF Scalars
  <1> QED BY <1>10, <1>12 DEF IInv

\* A missing sample stands for the pulse of this second, which is overdue by then.
LEMMA OverdueEffect ==
  ASSUME Scalars, Advance, mode # "reset", OnGrid, sampleAge <= SampleIntervalMax,
         Later(sampleAge) > SampleIntervalMax
  PROVE  /\ MissingAge = pulseAge + TickInterval /\ Later(sampleAge) = sampleAge + TickInterval
         /\ sampleAge = pulseAge + Second
         /\ edge = "none" /\ MissingAge \in {pulseAge', pulseAge' + Second}
         /\ ~(edge' = "none" /\ MissingAge = pulseAge' + Second)
         /\ MissingAge \in -TickInterval .. MaxAge /\ MissingAge <= SampleIntervalMax
  <1>1. Later(sampleAge) = sampleAge + TickInterval /\ sampleAge + TickInterval > SampleIntervalMax
    BY LaterEffect, Bounds, Constants DEF Scalars
  <1>2. sampleAge = pulseAge + Second /\ pulseAge >= 0
    BY <1>1, Bounds, Constants DEF OnGrid
  <1>3. MissingAge = pulseAge + TickInterval BY <1>1, <1>2, Bounds, Constants DEF MissingAge
  <1>4. edge = "none" BY <1>2, AdvanceEffect, Bounds DEF Scalars
  <1>5. \/ pulseAge' = pulseAge + TickInterval - Second /\ edge' = "coming"
        \/ pulseAge' = pulseAge + TickInterval
    BY AdvanceEffect
  <1>6. /\ pulseAge + TickInterval \in {pulseAge', pulseAge' + Second}
        /\ ~(edge' = "none" /\ pulseAge + TickInterval = pulseAge' + Second)
        /\ pulseAge + TickInterval \in -TickInterval .. MaxAge
        /\ pulseAge + TickInterval <= SampleIntervalMax
    BY <1>5, Bounds, Constants
  <1> QED BY <1>1, <1>2, <1>3, <1>4, <1>6

LEMMA StepTickMissing ==
  ASSUME IInv, TickMissing
  PROVE  IInv'
  <1>1. /\ Advance /\ mode # "reset" /\ ~PendingDue /\ Later(sampleAge) > SampleIntervalMax
        /\ unheard' = IF unheard < 0 \/ (unheard = 0 /\ Waits) THEN unheard ELSE unheard - 1
        /\ UNCHANGED <<faults, lag, sec, badPhases, stepFails>>
    BY DEF TickMissing, Overdue, world
  <1>2. /\ Scalars /\ OnGrid /\ sampleAge <= SampleIntervalMax
        /\ ~Waits => Accounted
    BY <1>1 DEF IInv, ModeInv, ConvergingInv, TrackingInv, Waits
  <1>3. /\ MissingAge = pulseAge + TickInterval /\ Later(sampleAge) = sampleAge + TickInterval
        /\ sampleAge = pulseAge + Second
        /\ edge = "none" /\ MissingAge \in {pulseAge', pulseAge' + Second}
        /\ ~(edge' = "none" /\ MissingAge = pulseAge' + Second)
        /\ MissingAge \in -TickInterval .. MaxAge /\ MissingAge <= SampleIntervalMax
    BY <1>1, <1>2, OverdueEffect
  <1>4. unheard' \in 0 .. faults
    <2>1. ~Waits => unheard >= 1 BY <1>2, <1>3 DEF Accounted
    <2>2. unheard \in 0 .. faults /\ faults \in Nat BY <1>2, Bounds DEF Scalars
    <2> QED BY <1>1, <2>1, <2>2
  <1>5. Later(goodAge) \in -TickInterval .. MaxAge /\ Later(goodAge) <= goodAge + TickInterval
    BY <1>2, LaterEffect DEF Scalars
  <1>6. /\ ModeInv' /\ sampleAge' = MissingAge /\ goodAge' \in -TickInterval .. MaxAge
        /\ detect' \in {"on", "off"} /\ okRun' \in 0 .. StableWindow /\ memory' \in Persist
    <2>1. CASE mode = "tracking"
      <3>1. TrackingInv /\ TrackingSample(Aged, "missing", MissingAge, Later(goodAge))
        BY <2>1 DEF IInv, ModeInv, TickMissing
      <3>2. /\ Counters(Aged) /\ Aged.consecutiveBad = st.consecutiveBad
            /\ IF Aged.pending = NoPulse THEN st.pending = NoPulse
                                         ELSE Aged.pending = pulseAge' /\ edge' = "none"
        BY <1>1, <1>2, <2>1, <3>1, AgedEffect
      <3>3. Later(goodAge) <= MissingAge + (st.consecutiveBad + 1) * Second
        <4>1. goodAge <= sampleAge + st.consecutiveBad * Second BY <3>1 DEF TrackingInv
        <4>2. goodAge \in Int /\ Later(goodAge) \in Int BY <1>2, <1>5, Bounds, Constants
        <4> QED BY <1>2, <1>3, <1>5, <3>1, <4>1, <4>2, RunOfBad, Bounds, Constants
      <3> DEFINE t == Aged
      <3>4. /\ Counters(t) /\ TrackingSample(t, "missing", MissingAge, Later(goodAge))
            /\ Later(goodAge) <= MissingAge + (t.consecutiveBad + 1) * Second
            /\ t.pending # NoPulse => t.pending = pulseAge' /\ edge' = "none"
        BY <3>1, <3>2, <3>3
      <3>5. "missing" \in Verdict BY DEF Verdict
      <3> HIDE DEF t
      <3> QED BY <1>2, <1>3, <1>5, <2>1, <3>4, <3>5, TrackingSampleEffect
    <2>2. CASE mode = "converging"
      <3> DEFINE c == [st EXCEPT !.stepCompensate = "no", !.missingSamples = st.missingSamples + 1]
      <3>1. /\ ConvergingInv /\ sampleAge' = MissingAge
            /\ IF c.missingSamples >= BadSampleLimit THEN EnterReset("none")
               ELSE /\ st' = c
                    /\ goodAge' = Later(goodAge)
                    /\ UNCHANGED <<mode, detect, okRun, memory>>
        BY <2>2 DEF IInv, ModeInv, TickMissing
      <3>2. /\ c \in ConvergingState /\ c.missingSamples = st.missingSamples + 1
            /\ c.samplesSinceMinDecreased = st.samplesSinceMinDecreased /\ c.offsets = st.offsets
        <4>1. st \in ConvergingState /\ st.missingSamples < BadSampleLimit
          BY <3>1 DEF ConvergingInv
        <4>2. st.missingSamples + 1 \in 0 .. BadSampleLimit
          BY <4>1, Constants DEF ConvergingState
        <4> QED BY ONLY <4>1, <4>2 DEF ConvergingState, c
      <3> HIDE DEF c
      <3>3. CASE c.missingSamples >= BadSampleLimit
        <4>1. "none" \in Persist BY DEF Persist
        <4>2. ModeInv' /\ detect' = "off" /\ okRun' = 0 /\ goodAge' = 0 /\ memory' \in Persist
          BY <1>2, <3>1, <3>3, <4>1, EnterResetEffect
        <4> QED BY <3>1, <4>2, Constants
      <3>4. CASE ~(c.missingSamples >= BadSampleLimit)
        <4>1. OnGrid' /\ Accounted' BY <1>3, <3>1 DEF OnGrid, Accounted
        <4>2. c.missingSamples < BadSampleLimit BY <3>2, <3>4, Constants DEF ConvergingState
        <4>3. ConvergingInv'
          BY <1>3, <3>1, <3>2, <3>4, <4>1, <4>2 DEF ConvergingInv
        <4> QED BY <1>2, <1>5, <2>2, <3>1, <3>4, <4>3 DEF ModeInv, Scalars
      <3> QED BY <3>3, <3>4
    <2> QED BY <1>1, <2>1, <2>2 DEF IInv, ModeInv
  <1>7. Scalars' BY <1>1, <1>2, <1>3, <1>4, <1>6, AdvanceEffect, Bounds, Constants DEF Scalars
  <1> QED BY <1>6, <1>7 DEF IInv

-----------------------------------------------------------------------------
(* The theorems. *)

LEMMA InitIInv ==
  ASSUME Init
  PROVE  IInv
  <1>1. PICK p \in Phases : pulseAge = -p BY DEF Init
  <1>2. p \in 1 .. TickInterval BY TimeAssumption
  <1>3. pulseAge \in -TickInterval .. Second - TickInterval - 1 /\ pulseAge < 0
    BY <1>1, <1>2, Constants
  <1>4. Scalars BY <1>3, Constants DEF Init, Scalars, Persist
  <1>5. st \in ResetState /\ st.edges = 0 BY Constants DEF Init, NewReset, ResetState
  <1>6. mode = "reset" BY DEF Init
  <1> QED BY <1>4, <1>5, <1>6 DEF IInv, ModeInv, ResetInv

LEMMA NextIInv ==
  ASSUME IInv, [Next]_vars
  PROVE  IInv'
  <1>1. CASE PulseEdge
    <2>1. ASSUME NEW era \in {"new", "old"}, ResetEdge(era) PROVE IInv'
      BY <2>1, StepResetEdge
    <2>2. ASSUME NEW era \in {"new", "old"}, ConvergingEdge(era) PROVE IInv'
      BY <2>2, StepConvergingEdge
    <2>3. ASSUME NEW cand \in Seconds, ResetEdgeAligned(cand) PROVE IInv'
      BY <2>3, StepResetAligned DEF Seconds
    <2>4. CASE UncertainEdge BY <2>4, StepLose DEF UncertainEdge
    <2>5. CASE TrackingEdge BY <2>5, StepTrackingEdge
    <2>6. CASE TrackingEdgeWaits BY <2>6, StepTrackingEdgeWaits
    <2> QED BY <1>1, <2>1, <2>2, <2>3, <2>4, <2>5, <2>6 DEF PulseEdge
  <1>2. CASE LosePulse BY <1>2, StepLose
  <1>3. CASE TimeMessage
    <2>1. ASSUME NEW cand \in Seconds, ResetMessage(cand) PROVE IInv'
      BY <2>1, StepResetMessage DEF Seconds
    <2>2. CASE ResetMessageBad BY <2>2, StepResetMessageBad
    <2>3. CASE TrackingMessage BY <2>3, StepTrackingMessage
    <2>4. CASE LeapDetected BY <2>4, StepLeave
    <2> QED BY <1>3, <2>1, <2>2, <2>3, <2>4 DEF TimeMessage
  <1>4. CASE Pause BY <1>4, StepLeave
  <1>5. CASE Tick
    <2>1. CASE TickIdle BY <2>1, StepTickIdle
    <2>2. CASE TickPending BY <2>2, StepTickPending
    <2>3. CASE TickMissing BY <2>3, StepTickMissing
    <2> QED BY <1>5, <2>1, <2>2, <2>3 DEF Tick
  <1>6. CASE UNCHANGED vars
    <2>1. UNCHANGED <<pulseAge, edge, mode, st, sampleAge, detect, lag, sec, faults, badPhases,
                      stepFails, goodAge, unheard, okRun, memory>>
      BY <1>6 DEF vars, world, history
    <2> QED
      BY <2>1 DEF IInv, Scalars, ModeInv, ResetInv, ConvergingInv, TrackingInv, OnGrid,
                  Accounted, Counters, Window, Ones
  <1> QED BY <1>1, <1>2, <1>3, <1>4, <1>5, <1>6 DEF Next

\* The ages, the windows and the modes stay together: what the other theorems rest on.
THEOREM Invariance == Spec => []IInv
  BY InitIInv, NextIInv, PTL DEF Spec

LEMMA IInvConsistent ==
  ASSUME IInv
  PROVE  Consistent
  <1>1. Scalars BY DEF IInv
  <1>2. /\ pulseAge \in -TickInterval .. Second - 1 /\ unheard \in -1 .. MaxFaults
    BY <1>1, Bounds, Constants DEF Scalars
  <1>3. /\ edge \in {"none", "coming", "late"} /\ detect \in {"on", "off"}
        /\ lag \in {"yes", "no"} /\ sec \in {"right", "wrong"}
        /\ sampleAge \in -TickInterval .. MaxAge /\ goodAge \in -TickInterval .. MaxAge
        /\ faults \in 0 .. MaxFaults /\ badPhases \in 0 .. MaxBadPhases
        /\ stepFails \in 0 .. MaxStepFailures /\ okRun \in 0 .. StableWindow
        /\ memory \in {"none", "right", "wrong"}
    BY <1>1 DEF Scalars, Persist
  <1>4. \/ mode = "reset" /\ st \in ResetState
        \/ mode = "converging" /\ st \in ConvergingState
        \/ mode = "tracking" /\ st \in TrackingState
    BY DEF IInv, ModeInv, ResetInv, ConvergingInv, TrackingInv, Counters
  <1>5. TypeOK BY <1>2, <1>3, <1>4 DEF TypeOK
  <1>6. CountsExact
    BY DEF IInv, ModeInv, TrackingInv, Counters, Window, CountsExact
  <1> QED BY <1>5, <1>6 DEF Consistent

\* The state has its type, and the counters that decide on leaving tracking mode, which
\* the code keeps up to date by adding and evicting, agree with the windows that they
\* count in (trackingSampleProcessor.processSample and circbuf's Append).
THEOREM CountersAreConsistent == Spec => []Consistent
  <1>1. IInv => Consistent BY IInvConsistent
  <1> QED BY <1>1, Invariance, PTL

\* Whatever mixture of lost pulses, outliers and pulses without correction follows the
\* last good sample, tracking mode is left in a bounded time: a sample is never older
\* than the overdue check allows, and each bad one makes the good one a second older.
THEOREM SyncIsWithdrawn == Spec => []SyncWithdrawn
  <1>1. ASSUME IInv, mode = "tracking"
        PROVE  goodAge <= BadSampleRunLimit * Second + SampleIntervalMax + TickInterval
    <2>1. Scalars /\ TrackingInv BY <1>1 DEF IInv, ModeInv
    <2>2. st.consecutiveBad \in Nat /\ st.consecutiveBad <= BadSampleRunLimit
      BY <2>1, Constants DEF TrackingInv, Counters, TrackingState
    <2>3. /\ st.consecutiveBad * Second \in Nat /\ BadSampleRunLimit * Second \in Nat
          /\ st.consecutiveBad * Second <= BadSampleRunLimit * Second
      BY <2>2, RunTime, Constants
    <2>4. goodAge <= sampleAge + st.consecutiveBad * Second /\ sampleAge <= SampleIntervalMax
      BY <2>1 DEF TrackingInv
    <2> QED BY <2>1, <2>3, <2>4, Bounds, Constants
  <1>2. IInv => SyncWithdrawn BY <1>1 DEF SyncWithdrawn
  <1> QED BY <1>2, Invariance, PTL

\* A missing sample stands for a pulse without a usable timestamp, and no pulse edge
\* arrives while an earlier pulse waits for its correction: what tracking.go:215 says
\* should never happen does not happen, for every phase of the ticker and every
\* PulseCorrectionTimeout below a second less a tick.
THEOREM PulsesAreAccounted == Spec => PulsesAccounted
  <1>1. IInv => MissingIsUnheard
    BY Bounds, Constants DEF IInv, MissingIsUnheard
  <1>2. ASSUME IInv, mode = "tracking", edge # "none" PROVE st.pending = NoPulse
    BY <1>2 DEF IInv, ModeInv, TrackingInv
  <1>3. IInv => [(mode = "tracking" /\ edge # "none" /\ edge' = "none" /\ unheard' = unheard)
                    => st.pending = NoPulse]_vars
    BY <1>2
  <1>4. Spec => NoPulseForgotten BY <1>3, Invariance, PTL DEF NoPulseForgotten
  <1>5. Spec => []MissingIsUnheard BY <1>1, Invariance, PTL
  <1> QED BY <1>4, <1>5 DEF PulsesAccounted

\* Only a sample of converging mode can enter tracking mode.
LEMMA ConvergedRun ==
  ASSUME IInv, [Next]_vars, mode = "converging", mode' = "tracking"
  PROVE  okRun' >= StableWindow
  <1>1. Scalars /\ ConvergingInv BY DEF IInv, ModeInv
  <1>2. CASE PulseEdge
    <2>1. ASSUME NEW era \in {"new", "old"}, ConvergingEdge(era) PROVE okRun' >= StableWindow
      BY <1>1, <2>1, ConvergingSampleEffect DEF ConvergingEdge, Deliver
    <2> QED
      BY <1>2, <2>1 DEF PulseEdge, ResetEdge, ResetEdgeAligned, UncertainEdge, LosePulse,
                        TrackingEdge, TrackingEdgeWaits
  <1>3. ~LosePulse BY DEF LosePulse
  <1>4. ~TimeMessage
    BY DEF TimeMessage, ResetMessage, ResetMessageBad, TrackingMessage, LeapDetected, EnterReset
  <1>5. ~Pause BY DEF Pause, EnterReset
  <1>6. ~Tick
    BY DEF Tick, TickIdle, TickPending, TickMissing, PendingDue, Waits, EnterReset
  <1>7. ~UNCHANGED vars BY DEF vars
  <1> QED BY <1>2, <1>3, <1>4, <1>5, <1>6, <1>7 DEF Next

\* Tracking mode is entered from converging mode only after StableWindow consecutive
\* samples within the offset limit (convergingSampleProcessor.converged).
THEOREM ConvergedIsStable == Spec => ConvergedStable
  <1>1. ASSUME IInv, [Next]_vars
        PROVE  [(mode = "converging" /\ mode' = "tracking") => okRun' >= StableWindow]_vars
    BY <1>1, ConvergedRun
  <1> QED BY <1>1, Invariance, PTL DEF Spec, ConvergedStable
=============================================================================
