------------------------------ MODULE TimeMsg ------------------------------
(***************************************************************************)
(* The time message buffer (time/internal/timemsg), which tells reset mode *)
(* the seconds of the latest pulses, tracking mode the correction of a     *)
(* pulse, and a sink without a PHC the UTC time of each navigation epoch.  *)
(*                                                                         *)
(* A receiver sends the same messages in the same order in every epoch.    *)
(* Messages are lost, come without a valid time, with a correction that is *)
(* out of bounds, or twice.  Out of date firmware may be a leap second     *)
(* ahead in UTC and correct that later, and so may the leap second data of *)
(* the buffer.  ReadDelay is taken to be zero.                             *)
(*                                                                         *)
(* A native message states the time of its navigation solution, which      *)
(* deviates from the nominal time of the epoch by far less than the        *)
(* millisecond to which the code rounds when it wants the nominal time.    *)
(* The time that a message e states is therefore a pair: the nominal time  *)
(* e.tai or e.utc, in units of 1/Second of a second, and the deviation     *)
(* e.dev, in a unit of nanoseconds.  What the code rounds is the first     *)
(* alone; what it compares unrounded is the pair.                          *)
(***************************************************************************)
EXTENDS Integers, Sequences

CONSTANTS
  Second,        \* units of time in a second
  Receivers,     \* what receivers send: the epochs of a second and their messages
  ReadWindow,    \* Buffer.readWindow, in seconds
  PulseWindow,   \* the number of messages that reset mode asks for
  MinDelta,      \* MinInvalidRepeatInterval
  MaxSeconds, MaxFaults

(* A message has a time of reading within its epoch (at), a TimeRef, a     *)
(* time scale ("tai", "utc" or "both"), a protocol, a GNSS, carries a      *)
(* PulseOffset or not, and states times with deviations from the set dev.  *)
MsgType == [at : Nat, ref : {"nav", "pre", "post"}, scale : {"tai", "utc", "both"},
            tag : {"NMEA", "native"}, gnss : {"timeGNSS", "other"}, corr : {"yes", "no"},
            dev : SUBSET Int]

ASSUME BufferAssumption ==
  /\ {Second, ReadWindow, PulseWindow, MinDelta} \subseteq Nat \ {0}
  /\ PulseWindow < ReadWindow
  /\ {MaxSeconds, MaxFaults} \subseteq Nat

\* The messages of an epoch are read one after the other and before the next epoch, even if
\* one is read again, which takes less than MinDelta.  What is about a pulse is sent once a
\* second, by one type of message ahead of it and one after it at most.  "we assume that a
\* message with a PulseOffset has a TAI time that is equal to the pulse ref time"
\* (timemsg.go:437).
ASSUME ReceiversAssumption ==
  /\ 1 < MinDelta /\ MinDelta < Second
  /\ \A r \in Receivers :
       /\ r.rate \in 1 .. Second /\ Second % r.rate = 0
       /\ r.msgs \in Seq(MsgType) /\ r.msgs # <<>>
       /\ \A i \in 1 .. Len(r.msgs) :
            /\ r.msgs[i].at + 1 < Second \div r.rate
            /\ r.msgs[i].ref = "nav" => r.msgs[i].corr = "no"
            /\ r.msgs[i].ref # "nav" => r.rate = 1
            /\ r.msgs[i].dev # {}
            /\ r.msgs[i].corr = "yes" => r.msgs[i].dev = {0}
            /\ \A j \in i + 1 .. Len(r.msgs) :
                 /\ r.msgs[i].at < r.msgs[j].at
                 /\ r.msgs[i].ref # "nav" => r.msgs[j].ref # r.msgs[i].ref

VARIABLES
  receiver,      \* what this receiver sends
  sent,          \* the number of messages that it has sent
  utcError,      \* by how many seconds its UTC is ahead
  lsError,       \* by how many seconds Buffer.ls is behind
  entries, startIndex, capEntries,   \* Buffer.entries with the capacity of the slice
  lastPreCorrMsg, lastPostCorrMsg,
  lastMsgUTC,    \* the UTC time last passed on to the sink
  faults,
  received       \* history: everything that was received

bufVars == <<entries, startIndex, capEntries, lastPreCorrMsg, lastPostCorrMsg, lastMsgUTC>>
msgVars == <<receiver, sent, utcError, lsError, bufVars, faults, received>>

NoTime == -Second
NoMsg  == [k |-> 0]

Types == receiver.msgs
Epoch == Second \div receiver.rate
PerSecond == receiver.rate * Len(Types)
MaxSent == MaxSeconds * PerSecond

\* The n-th message sent: which one it is and when it is read.
Kind(n)   == 1 + ((n - 1) % Len(Types))
ReadAt(n) == ((n - 1) \div Len(Types)) * Epoch + Types[Kind(n)].at

Type(e) == Types[e.k]
StartOf(unit, t) == unit * (t \div unit)

\* The epoch that a message read at time t is about.
Nominal(k, t) == IF Types[k].ref = "pre" THEN StartOf(Second, t) + Second
                                         ELSE StartOf(Epoch, t)

Entry == [k : 1 .. Len(Types), tRead : Nat, tai : Nat \cup {NoTime},
          utc : Nat \cup {NoTime}, dev : Int, offset : {"none", "ok", "big"}]

BufferTypeOK ==
  /\ receiver \in Receivers
  /\ sent \in 0 .. MaxSent
  /\ utcError \in {0, 1} /\ lsError \in {0, 1}
  /\ entries \in Seq(Entry) /\ received \in Seq(Entry)
  /\ startIndex \in 0 .. Len(entries)
  /\ capEntries \in Nat /\ Len(entries) <= capEntries
  /\ {lastPreCorrMsg, lastPostCorrMsg} \subseteq Entry \cup {NoMsg}
  /\ lastMsgUTC \in Nat \cup {NoTime}
  /\ faults \in 0 .. MaxFaults

-----------------------------------------------------------------------------
(* Storing a message.                                                      *)

validEntries == SubSeq(entries, startIndex + 1, Len(entries))

\* Variant: a message at the very edge of the window is dropped.
Expired_Edge(t) ==
  LET old(i) == entries[i].tRead <= t - ReadWindow * Second
  IN  CHOOSE n \in startIndex .. Len(entries) :
        /\ \A i \in startIndex + 1 .. n : old(i)
        /\ n = Len(entries) \/ ~old(n + 1)

\* How many entries at the front are older than the read window at time t.
Expired(t) ==
  LET old(i) == entries[i].tRead < t - ReadWindow * Second
  IN  CHOOSE n \in startIndex .. Len(entries) :
        /\ \A i \in startIndex + 1 .. n : old(i)
        /\ n = Len(entries) \/ ~old(n + 1)

\* The entries can be moved, so that append need not grow the slice.
CanMove(start) == start > 0 /\ Len(entries) < capEntries

\* The capacity after append has found the slice full: Go doubles a small slice, and lets
\* a large one grow by less.
Grown(cap) == IF cap = 0 THEN 1 ELSE 2 * cap

store(e) ==
  LET start == Expired(e.tRead)
      moved == IF CanMove(start) THEN SubSeq(entries, start + 1, Len(entries)) ELSE entries
  IN  /\ entries' = Append(moved, e)
      /\ startIndex' = IF CanMove(start) THEN 0 ELSE start
      /\ capEntries' = IF Len(moved) < capEntries THEN capEntries ELSE Grown(capEntries)

\* Variant: messages ahead of their pulse are passed on too.
PassedOn_PrePulse(e) == e.utc # NoTime /\ e.utc > lastMsgUTC

\* msgUTCTime passes the time of the message on, rounded to the nominal time.
PassedOn(e) == e.utc # NoTime /\ Type(e).ref # "pre" /\ e.utc > lastMsgUTC

\* Buffer.Time.
Time(e) ==
  /\ lastPreCorrMsg'  = IF e.offset # "none" /\ Type(e).ref = "pre"  THEN e ELSE lastPreCorrMsg
  /\ lastPostCorrMsg' = IF e.offset # "none" /\ Type(e).ref = "post" THEN e ELSE lastPostCorrMsg
  /\ store(e)
  /\ lastMsgUTC' = IF PassedOn(e) THEN e.utc ELSE lastMsgUTC
  /\ received' = Append(received, e)

-----------------------------------------------------------------------------
(* What the controller asks.                                               *)

Valid(e) == e.tai # NoTime \/ e.utc # NoTime

\* Variant: messages ahead of their pulse count too.
eligible_PrePulse(e) == Valid(e)

eligible(e) == Valid(e) /\ Type(e).ref # "pre"

\* compareTimeMsg: TAI before UTC, then after a pulse before with a solution, then native
\* before NMEA, then the GNSS that is used for time.
Rank(e) == (IF e.tai # NoTime THEN 0 ELSE 8) + (IF Type(e).ref = "post" THEN 0 ELSE 4)
         + (IF Type(e).tag = "native" THEN 0 ELSE 2) + (IF Type(e).gnss = "timeGNSS" THEN 0 ELSE 1)

Earliest(S) == CHOOSE i \in S : \A j \in S : i <= j
Last(S) == CHOOSE i \in S : \A j \in S : j <= i

\* Where the eligible entries are than which none is better.
bestEntries ==
  LET es == validEntries
      el == {i \in 1 .. Len(es) : eligible(es[i])}
  IN  {i \in el : \A j \in el : Rank(es[i]) <= Rank(es[j])}

\* The time that is stated, unrounded.  The best entries all have a TAI time, or none has.
StatedTime(e) == <<IF e.tai # NoTime THEN e.tai ELSE e.utc, e.dev>>

\* Where the best entries are that state another time than the first of them.
laterEntries(best) ==
  LET es == validEntries
  IN  {i \in best : StatedTime(es[i]) # StatedTime(es[Earliest(best)])}

\* The message type that is the first of a new epoch, or 0.
epochStartMsg(best) ==
  LET later == laterEntries(best)
  IN  IF later = {} THEN 0 ELSE validEntries[Earliest(later)].k

\* The TAI time rounded to the nominal time; UTCtoTime takes the leap seconds as the buffer
\* knows them.
toTAI(e) == IF e.tai # NoTime THEN e.tai ELSE e.utc - lsError * Second

\* Where the messages of that type are that are aligned to a second.
alignedEntries ==
  LET best == bestEntries
      k    == epochStartMsg(best)
  IN  {i \in best : validEntries[i].k = k /\ toTAI(validEntries[i]) % Second = 0}

\* f lists the last PulseWindow members of S.
ListsLast(f, S) ==
  /\ \A i, j \in 1 .. PulseWindow : i < j => f[i] < f[j]
  /\ \A s \in S : s < f[1] \/ \E i \in 1 .. PulseWindow : f[i] = s

Consecutive(es) ==
  \A i \in 2 .. Len(es) : toTAI(es[i]) - toTAI(es[i - 1]) = Second

\* The last PulseWindow of these messages, or none.
GetPostTimeMessages ==
  LET S     == alignedEntries
      lists == {f \in [1 .. PulseWindow -> S] : ListsLast(f, S)}
      f     == CHOOSE g \in lists : TRUE
      last  == [i \in 1 .. PulseWindow |-> validEntries[f[i]]]
  IN  IF lists # {} /\ Consecutive(last) THEN last ELSE <<>>

\* Variant: any repeated time is taken for a leap.
IsLeap_AnyRepeat(e1, e2) ==
  \/ e2.utc < e1.utc
  \/ e2.utc = e1.utc /\ e2.dev <= e1.dev

\* The unrounded time has gone back, or is the same and too much time has passed.
IsLeap(e1, e2) ==
  \/ e2.utc < e1.utc
  \/ /\ e2.utc = e1.utc
     /\ \/ e2.dev < e1.dev
        \/ e2.dev = e1.dev /\ e2.tRead - e1.tRead >= MinDelta

\* Whether the last message, of type k, is a leap backwards from the one before.
detectInvalidLeap(k) ==
  LET es     == validEntries
      before == {i \in 1 .. Len(es) - 1 : es[i].k = k}
  IN  /\ es # <<>> /\ es[Len(es)].k = k /\ es[Len(es)].utc # NoTime
      /\ before # {}
      /\ LET e1 == es[Last(before)]
         IN  e1.utc # NoTime /\ IsLeap(e1, es[Len(es)])

\* Variant: any message about an earlier time ends the search.
EndsSearch_AnyRef(e, m, ref) == e.tai < ref

EndsSearch(e, m, ref) == e.tai < ref /\ Type(e).ref = Type(m).ref

\* getPulseCorrectionLast: the message with the correction for ref, or NoMsg.
getPulseCorrectionLast(m, ref) ==
  LET es      == validEntries
      match   == {i \in 1 .. Len(es) : es[i].offset # "none" /\ es[i].tai = ref}
      found   == {i \in match : \A j \in i + 1 .. Len(es) :
                                  j \notin match /\ ~EndsSearch(es[j], m, ref)}
  IN  IF m = NoMsg THEN NoMsg
      ELSE IF ref > m.tai THEN NoMsg
      ELSE IF ref = m.tai THEN m
      ELSE IF found = {} THEN NoMsg
      ELSE es[CHOOSE i \in found : TRUE]

\* An offset that is too large does not count.
Usable(m) == m # NoMsg /\ m.offset = "ok"

GetPulseCorrection(ref) ==
  LET pre == getPulseCorrectionLast(lastPreCorrMsg, ref)
  IN  IF Usable(pre) THEN pre ELSE getPulseCorrectionLast(lastPostCorrMsg, ref)

\* The correction of the next pulse after the one that had the last correction.
WaitForPulseCorrection(ref) == lastPostCorrMsg # NoMsg /\ ref - lastPostCorrMsg.tai = Second

-----------------------------------------------------------------------------
(* The receiver.                                                           *)

Fault == faults < MaxFaults /\ faults' = faults + 1

\* The n-th message, read at time t, with a time that deviates by d.
Message(n, t, valid, offset, d) ==
  LET k == Kind(n)
      s == Nominal(k, ReadAt(n))
  IN  [k |-> k, tRead |-> t, offset |-> offset, dev |-> d,
       tai |-> IF valid /\ Types[k].scale # "utc" THEN s ELSE NoTime,
       utc |-> IF valid /\ Types[k].scale # "tai" THEN s + utcError * Second ELSE NoTime]

Offset(n) == IF Types[Kind(n)].corr = "yes" THEN "ok" ELSE "none"

Advance == sent < MaxSent /\ sent' = sent + 1

env == <<receiver, utcError, lsError>>

Send == /\ Advance
        /\ \E d \in Types[Kind(sent + 1)].dev :
             Time(Message(sent + 1, ReadAt(sent + 1), TRUE, Offset(sent + 1), d))
        /\ UNCHANGED <<env, faults>>

SendInvalid == /\ Advance /\ Fault
               /\ Time(Message(sent + 1, ReadAt(sent + 1), FALSE, "none", 0))
               /\ UNCHANGED env

SendBigOffset == /\ Advance /\ Fault
                 /\ Offset(sent + 1) # "none"
                 /\ Time(Message(sent + 1, ReadAt(sent + 1), TRUE, "big", 0))
                 /\ UNCHANGED env

\* A message is read again, a unit of time later.
Repeat == /\ Fault
          /\ received # <<>>
          /\ LET last == received[Len(received)]
             IN  /\ last.k = Kind(sent) /\ last.tRead = ReadAt(sent)
                 /\ Time([last EXCEPT !.tRead = @ + 1])
          /\ UNCHANGED <<env, sent>>

Lose == Advance /\ Fault /\ UNCHANGED <<env, bufVars, received>>

\* The firmware learns of the leap second, which is over.
CorrectUTC == /\ utcError = 1 /\ utcError' = 0
              /\ UNCHANGED <<receiver, sent, lsError, bufVars, faults, received>>

\* Buffer.LeapSecond.
LeapSecond == /\ lsError = 1 /\ lsError' = 0
              /\ UNCHANGED <<receiver, sent, utcError, bufVars, faults, received>>

\* One of the two leap second counts may be wrong.
BufferInit ==
  /\ receiver \in Receivers
  /\ sent = 0 /\ faults = 0
  /\ utcError \in {0, 1} /\ lsError \in {0, 1 - utcError}
  /\ entries = <<>> /\ startIndex = 0 /\ capEntries = 0
  /\ lastPreCorrMsg = NoMsg /\ lastPostCorrMsg = NoMsg
  /\ lastMsgUTC = NoTime
  /\ received = <<>>

BufferNext == Send \/ SendInvalid \/ SendBigOffset \/ Repeat \/ Lose \/ CorrectUTC \/ LeapSecond

BufferSpec == BufferInit /\ [][BufferNext]_msgVars

-----------------------------------------------------------------------------
LastRead == received[Len(received)]

\* By how many seconds the UTC time in a message is ahead of what it is about.
ErrorOf(e) == IF e.utc = NoTime THEN 0 ELSE (e.utc - Nominal(e.k, e.tRead)) \div Second

SameError(es) == \A i, j \in 1 .. Len(es) : ErrorOf(es[i]) = ErrorOf(es[j])

\* Of the messages sent in that time, none was lost, invalid or repeated, and the
\* receiver did not correct its UTC time.
Clean(es) ==
  /\ \E n \in 0 .. sent : \A i \in 1 .. Len(es) :
       Valid(es[i]) /\ es[i].k = Kind(n + i) /\ es[i].tRead = ReadAt(n + i)
  /\ SameError(es)

\* Moving the entries within the slice neither loses a message of the read window nor
\* brings an older one back.
WindowKept ==
  received # <<>> =>
    \E d \in 0 .. Len(received) :
      /\ validEntries = SubSeq(received, d + 1, Len(received))
      /\ \A i \in 1 .. Len(received) :
           i <= d <=> received[i].tRead < LastRead.tRead - ReadWindow * Second

\* The slice does not grow beyond twice what the read window needs.
WindowSize == ReadWindow * PerSecond + Len(Types) + MaxFaults
SliceBounded == capEntries <= 2 * WindowSize

\* The state is of its type, and the buffer holds just the read window.
BufferExact == BufferTypeOK /\ WindowKept /\ SliceBounded

\* The messages that reset mode gets are labelled with the second in which they were
\* read, apart from leap seconds that the receiver or the buffer has wrong, and come
\* from consecutive seconds.  A message lost just when the receiver corrects its UTC
\* time can leave a gap that the labels do not show.
LabelTrue ==
  LET es == GetPostTimeMessages
  IN  /\ \A i \in 1 .. Len(es) :
           toTAI(es[i]) = StartOf(Second, es[i].tRead)
             + (IF es[i].tai # NoTime THEN 0 ELSE ErrorOf(es[i]) - lsError) * Second
      /\ SameError(es) =>
           \A i \in 2 .. Len(es) :
             StartOf(Second, es[i].tRead) = StartOf(Second, es[i - 1].tRead) + Second

\* The messages that come into question and are about the same epoch state the same time.
EpochsAgree ==
  \A i, j \in bestEntries :
    LET e == validEntries[i]
        f == validEntries[j]
    IN  Nominal(e.k, e.tRead) = Nominal(f.k, f.tRead) => e.dev = f.dev

\* "This identifies which message type consistently arrives first after each PPS pulse"
\* (timemsg.go:320-321), wherever in an epoch the read window begins.  That is so only if
\* EpochsAgree: otherwise the second message of an epoch may be taken for the first of a
\* new one, since epochStartMsg compares unrounded times.
EarliestType ==
  LET es == GetPostTimeMessages
  IN  (es # <<>> /\ Clean(validEntries)) => \A i \in bestEntries : es[1].k <= validEntries[i].k

\* After one second more than it asks for without a fault, reset mode gets its messages,
\* whatever faults there were before in the read window.
LabelsReturn ==
  LET n      == Len(received)
      latest == SubSeq(received, n - (PulseWindow + 1) * PerSecond + 1, n)
  IN  (n >= (PulseWindow + 1) * PerSecond /\ Clean(latest) /\ \E i \in 1 .. Len(latest) : eligible(latest[i]))
      => GetPostTimeMessages # <<>>

\* Reset mode gets the right seconds, whichever messages it takes and however they deviate,
\* and gets them again after faults; where the messages of an epoch agree, they are those
\* of the earliest type.
LabelsRight == LabelTrue /\ (EpochsAgree => EarliestType) /\ LabelsReturn

\* How much later the epoch of the last message is than that of the message e.
EpochsBetween(e) == Nominal(LastRead.k, LastRead.tRead) - Nominal(e.k, e.tRead)

\* Where the message of type k before the last one is, if the receiver has corrected its
\* UTC time between the two and they are not more than a second apart.
CorrectedSince(k) ==
  {i \in 1 .. Len(validEntries) - 1 :
     LET e == validEntries[i]
     IN  /\ e.k = k /\ LastRead.k = k /\ ErrorOf(e) = 1
         /\ LastRead.utc # NoTime /\ ErrorOf(LastRead) = 0
         /\ EpochsBetween(e) <= Second
         /\ \A j \in i + 1 .. Len(validEntries) - 1 : validEntries[j].k # k}

\* A leap is detected just when the receiver has corrected its UTC time between two
\* messages of the type that are less than a second apart, or a second apart and the time
\* of the later one does not deviate by more (a correction with a later deviation goes
\* unnoticed, as the code compares unrounded times, timemsg.go:401): neither a repeated message, nor other types,
\* nor messages lost, nor deviations set off a false alarm.
LeapExact ==
  \A k \in 1 .. Len(Types) :
    detectInvalidLeap(k) <=>
      \E i \in CorrectedSince(k) :
        \/ EpochsBetween(validEntries[i]) < Second
        \/ LastRead.dev <= validEntries[i].dev

\* The correction of the pulse of this second is found if it was received, even when the
\* message about the next pulse is there already and whatever other messages came since,
\* unless another message has an unusable correction of the same pulse; and no pulse waits
\* for a correction that has already come after it.
CorrectionFound ==
  received # <<>> =>
    LET ref   == StartOf(Second, LastRead.tRead)
        about == {e \in {validEntries[i] : i \in 1 .. Len(validEntries)} : e.offset # "none" /\ e.tai = ref}
        m     == GetPulseCorrection(ref)
    IN  /\ Usable(m) => m.tai = ref
        /\ (about # {} /\ \A e \in about : Usable(e)) => Usable(m)
        /\ WaitForPulseCorrection(ref) => \A e \in about : Type(e).ref = "pre"

\* Every UTC time passed on is that of the epoch in which its message was read, and is
\* later than the one before, so that an epoch is passed on once.
UtcOncePerEpoch ==
  [][lastMsgUTC' # lastMsgUTC =>
       /\ lastMsgUTC' > lastMsgUTC
       /\ lastMsgUTC' = StartOf(Epoch, LastRead'.tRead) + ErrorOf(LastRead') * Second]_msgVars
=============================================================================
