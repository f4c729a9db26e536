# SatPulse in TLA+

SatPulse synchronizes a PTP hardware clock (PHC) to a GNSS receiver: `satpulsed`
reads packets from a serial port and pulse timestamps from the clock, disciplines
the clock, tells `ptp4l` what it may announce, and serves packets and events to
clients; a workbench uses the same libraries interactively.  This directory holds
TLA+ models of the parts where goroutines, timeouts and mode changes meet, TLC
configurations that check them on small instances, and TLAPS proofs for instances
of any size.  Source paths below are relative to the repository.

Contents: 1 inventory, 2 modules and code, 3 runs, 4 proofs, 5 what is only
model-checked, 6 what the code does not keep, 7 not modelled, 8 plan.

## 1 Inventory

    serial port -> gpsio.Scan -> Bcast(packets) -> dispatcher, proxy, NTRIP, push
                                                      |
    PHC --- ts.readWorker --- tsCh ------------> dispatcher --> phcsync.Controller
                                                      |              |  AdjTime
                                          timemsg.Buffer <-- packets |  -> PHC
                                                                     v
                       Bcast(SSE) <- observers <------------- Grandmaster -> PTP4LWorker -> ptp4l

| component | state | operations | what is hard | what makes it correct |
|---|---|---|---|---|
| `gps/app/bcast` | one queue, a cursor per subscriber, two request channels, a mutex | Subscribe, Unsubscribe, Close; the `Run` goroutine | lazy trimming with lagging cursors; three causes of shutdown; a channel send under the mutex | private FIFO per subscriber, no panic, nobody blocks |
| `time/internal/ptpgm` | target, last attempt, response channel | Update, RetryDue, Retry, Close; `PTP4LWorker` | targets change while a request is in flight; lost answers; shutdown in between | what ptp4l is told is current; NoSync at the end; retried until it arrives |
| `time/internal/ts`, `time/phctime` | era counter (atomic), the worker's era | readWorker, AdjTime, ResumeFunc | reads and a step of the clock without a lock; timestamps left in the kernel | timestamps and readings of one certain era come from one unstepped clock |
| `time/internal/gpsevent` | stale era, the select loop | packets, timestamps, ticks | order of events from independent sources | a stale timestamp is not taken for a pulse |
| `time/internal/phcsync` | mode; sample generator and processor of the mode; last sample | pulses, messages, ticks, pause | three timers race (pulse, correction, tick); counters kept incrementally; failing steps | InSync only while the clock is disciplined; relocks after faults |
| `time/internal/timemsg` | a slice of recent time messages and where its live part begins, the last messages with a correction | Time, LeapSecond, GetPostTimeMessages, GetPulseCorrection | mixed, lost and repeated messages, leap seconds learnt late | the second of a pulse is the right one |
| `gps/app/session` | connection state with a generation, contexts of connection and run, port lock, one send, one correction session | Connect, Disconnect, ReadConfig, ApplyConfig, SendMsgFile, corrections | superseded calls, reconnects, operations that end in another run | the last Connect or Disconnect wins; events end with the final state |
| `time/internal/proxy` | a queue per client, the lent port | forward, write | slow clients, a lock with a timeout | only old packets are dropped; the port is handed back |
| `gps/app/stream` | connection, backoff, a queue pruned by message type | Pull, Push, GGASender | reconnects, upload timeouts, shutdown order | in order, nothing fresh lost; keeps reconnecting; stops cleanly |
| `gps/app/ntrip` | none but its subscription | HTTP handlers | clients that disappear | as Bcast |
| `gps/app/pps`, `serialpps` | polling window | acquire, track | jitter of the host | a lost pulse is found again |
| `gps/app/gpscfg` | detectors | listen, probe, configure | timeouts over one packet channel | ends, one protocol detected |
| `time/app/daemon` | goroutines and wait group | start, cancel, wait | everyone waits for everyone at shutdown | the process ends |
| decoders, scanners, message files, observers, simulators, UI | per call or per file | conversions | volume | tests with captured data |

The components interact by channels (packets, timestamps, requests), by calls on
the dispatcher goroutine (Controller, Grandmaster, timemsg) and by two pieces of
shared memory: the era counter and Bcast's mutex-protected channels.  The port of
the receiver is lent to one writer at a time through a channel of capacity 1
(`gpsio.OutPortLock`), which Session, Proxy and Pull each take from their side.  The hazards
that follow from this, each at its line and with the properties aimed at it, are
listed under `hazards` in PROJECT.json.

## 2 Modules and how they correspond to the code

`map` in PROJECT.json gives the lines of every definition.

**Bcast** (`gps/app/bcast/bcast.go`).  A caller and the channel that its Subscribe
creates are one element of `Chans`.  A call is split where it can block: before the
mutex (`Call...`), taking it (`Lock...`), and the send on a request channel of
capacity 1 with the unlock (`Subscribe`, `Unsubscribe`).  Every case of Run's
reflective select is an action; the end of a loop iteration, which may close all
subscribers, is `FinishIteration` and part of each of them.  `q`, `nextQIndex`,
`nextSendIndex` and `TrimQ` keep the code's arithmetic.  A delivery is a rendezvous
with a reader that is at its receive.  A channel closed twice is "panic".

**BcastAbs** is the promise: a private FIFO per member, no shared queue.  Bcast
refines it with `Pending` (the part of `q` after the cursor) and `Members`.

**Grandmaster** (`time/internal/ptpgm/gm.go`, `ptp4l.go`, and the calls that
`phcsync/controller.go` makes).  The methods are functions from one state `gm` of the
struct to the next, since they run on one goroutine; an action is a whole handler of
the controller with every method it calls, in order (`TickReset` is the tick that
first changes the mode and then handles the retry).  The worker takes, succeeds or
fails.  A failed request may or may not have taken effect.  Times are reduced to
whether the retry interval has elapsed.

**PhcEra** (`time/internal/ts/clock.go`, `atomic.go`, and the tsCh case of
`gpsevent/dispatcher.go`).  Each load of the counter, each reading of the clock and each
poll is a step of the worker; AdjTime is three steps of the dispatcher (counter odd to
even, step, even to odd).  A time is abstracted to `epoch`, the number of steps in
effect when it was taken.  Hardware captures, loss of carrier, an error of netlink and
cancellation are the environment.  The kernel's queue may hold a timestamp from before
the process started.

**PhcSync** (`time/internal/phcsync/*.go`).  A unit of time is 0.05 s; ages are kept
relative to the last tick, and the phase of the pulse against the 0.25 s ticker is
chosen in Init.  `st` is the sample generator and processor of the current mode.
Offsets are reduced to the comparisons made with them (within the limit, outlier,
median smaller, right or wrong second), which the environment chooses; the ring buffers
with their incremental counters, the overdue check, the correction timeout, mode
changes with what they carry over, and failing steps are as in the code.  The variables
marked history are for the properties only.

**Session** (`gps/app/session/session.go`).  Callers, the connection manager (with
connManager, connect, packetWorker and the reconnect in it, since they follow one
another), the coordinator and the worker of a send, and the writer of a correction
session are processes with a `pc`.  What lies between a Lock and an Unlock of
`Session.mu` is one step, and so is nothing else: `closeLocked` and `stopCorrLocked`,
which release `mu` while they wait, are split there, and so is `emitStateChange`, which
delivers outside of `mu`.  Runs have numbers; a context is "live" or "done".

**Proxy** (`time/internal/proxy/proxy.go`).  The three goroutines of a connection, one
step for each receive, send, Read, Write and Close; the correction stream is the other
user of the port.  Time passes freely up to `MaxTime`, and the queue is pruned by it.

**PruningQueue** (`gps/app/stream/stream.go`) holds the queue of both directions as
operators; **Push** (`push.go`) adds the queue goroutine and the writer of Push and
UDPSink, **Pull** (`pull.go`) the reader, the broadcast's end, queue, writer and the
GGASender, which shares the reader's connection.  An epoch is told from its MSM
messages: kind "more" or "end" as the multiple message bit says.

**TimeMsg** (`time/internal/timemsg/timemsg.go`).  A receiver is a list of messages that it
sends in every epoch.  `Time` stores a message in the slice, with `startIndex` and the
capacity kept as the code and Go's append keep them; the queries are operators over the
state and are checked in every state, as any component may ask at any time.  Where the code
filters a slice into a new one, the model has the set of indices that pass: the order of
the entries is that of the indices.  `Rank` is the order of compareTimeMsg as a number.

A native message states the time of its navigation solution, some nanoseconds or
microseconds from the nominal time of the epoch (timemsg.go:118-126).  The model keeps the
two parts of a time apart: `tai` and `utc` are nominal, `dev` is the deviation, chosen by
`Send` among those that a type of message may have.  GetPostTimeMessages and msgUTCTime
round to a millisecond, which leaves the nominal part (`toTAI`, `PassedOn`);
epochStartMsg and detectInvalidLeap do not, so `StatedTime` is the pair and `IsLeap`
compares the nominal parts first and the deviations next.

## 3 Runs

| run | instance | states | shows |
|---|---|---|---|
| bcast | 2 subscribers, 3 messages | 389 k | NoPanic, GapFree, QueueBounded, ImplementsBcastAbs, NobodyWaitsForEver |
| gm | 2 leap states, 6 changes, 3 failures | 9 k | OneInFlight, ConfirmedInEffect, NoSyncAtExit, SentIsCurrent, Settles |
| era | 2 pulses and a leftover, 1 step, 1 loss of carrier | 446 k | TypeOK, EraSound, StaleUnseen, WorkerLives |
| sync | correction timeout 0.7 s, 5 faults, 1 false alignment, 1 failing step | 576 k | Consistent, SyncWithdrawn, PulsesAccounted, ConvergedStable, Relocks |
| session | 2 callers, 3 calls, 2 transports | 184 k | LastCallWins, LastEventIsState, OperationsExclusive, CorrectionsExclusive, Settles |
| session_wait | 1 operation | small | DisconnectWaits does not hold (section 6) |
| proxy | 1 client, 3 packets, 1 write, the correction stream | 564 k | DropsOnlyOld, PortConserved, NobodyStuck |
| proxy_leak | 1 packet | small | OtherReturns does not hold (section 6) |
| push | 5 packets of 2 kinds, queue of 2, 1 failure, Push or UDPSink | 416 k | Consistent, LossJustified, Finishes |
| pull | 2 connects; 5 packets and a queue of 2, or a GGA sender that tolerates 1 timeout | 1.3 M | CorrectionsRight, StallsTolerated, NothingLeft, Finishes, PositionSent |
| pull_once | nmeaSendInterval = 0 | small | PositionSent does not hold (section 6) |
| timemsg | 8 receivers, 6 seconds, 2 faults, window of 3 s | 372 k | BufferExact, LabelsRight, LeapExact, CorrectionFound, UtcOncePerEpoch |

Where a run checks several facts that belong together, they are named parts of one
property: NobodyWaitsForEver is CallsReturn, RunExits, ReadersReleased and Delivered;
OperationsExclusive is the type invariant, OperationHoldsState and PortHeldByLiving; and
so on, each part with its own comment in the module.  The type invariants of Bcast,
Grandmaster and Proxy are proved (section 4); those of the others are checked and proved
with Consistent, OperationsExclusive, CorrectionsRight, BufferExact, or by themselves.

### Bounds

- Bcast: two subscribers give a slow and a fast one, and a leaver next to one that stays;
  three messages let `TrimQ` compact while cursors differ by one, two and three, which is
  all its comparison of half the queue tells apart.  The proofs remove both bounds.
- Grandmaster: six changes suffice to enter tracking, leave it and enter it again with a
  leap second change in each mode, and three failures to fail a first attempt, its retry
  and the request of Close.  The proofs remove them.
- PhcEra: a step needs one AdjTime to fall anywhere between the worker's reads; the
  interesting queues hold a stale and a fresh timestamp at once.  The proofs remove
  the bounds.
- PhcSync: windows are as small as they can be while they still differ from each other
  (4 bad samples, 3 for MAD, 2 stable), so that each is filled, wraps and evicts; 5 faults
  are more than BadSampleRunLimit plus the evictions.  Phases 1, 3 and 5 put a pulse just
  before, between and at a tick.  The correction timeout is the longest that the
  configuration allows, which is where it meets the next pulse and the overdue check.
  The range of ages is capped where every comparison has the same outcome.
- Session: three calls by two callers are a Connect with the Connect or Disconnect that
  supersedes it and an operation in between, or a Connect and two operations, one of
  which is refused, replaced or ended by the other; two transports are a run and the one
  after it.  Four calls, a second supersession among operations, are not reached; the
  proofs remove the bounds.
- Proxy: connections meet only in the port, where the correction stream stands for all
  other writers.  Three packets are one being written, one queued and one that prunes it.
- Push, Pull: five packets are two epochs and one packet more, past a queue of two
  (pruningQueueMaxLen is 64 in the code, and nothing else is compared with it); one failed connection already
  shows whatever an earlier one has left behind.  Push has MSM packets of one type, the
  only ones whose replacement depends on more than the type.  The proofs cover every
  alphabet, queue length and number of packets, connections and failures.
- TimeMsg: six seconds are the window and three more, after which the slice has grown and
  moved; a second has six units, so that ten messages a second and their delays keep
  their order.  At most one of the two leap second counts, the receiver's and the
  buffer's, is wrong.  Deviations of 0 and 1 give every outcome of a comparison: the two
  solutions of an epoch that differ, and a second that is repeated with a lesser, the same
  or a greater deviation.  The proofs cover every receiver that the assumptions admit, every
  window and number of faults; the inductive invariant of the proofs (`BufferInv`) holds
  in all states of this instance too.

### Fairness

- Bcast: a goroutine that can continue a call does (the mutex and Go's scheduler are
  starvation free); a case of the select that stays ready is taken, since the choice is
  random; readers that stay at their receive get served.  Nobody has to call Subscribe,
  Close, send or cancel.
- Grandmaster: the ticker fires until the dispatcher stops, the worker's request ends
  within its deadline.  `Converges` needs that ptp4l answers in the end, which is what
  the bound on failures says.
- PhcEra: both goroutines run and system calls return.  AdjTime, once begun, ends; nothing
  makes the controller begin one.
- PhcSync: ticks happen and a delivered edge is handled (weak fairness).  Strong
  fairness of `ResetMessage("right")` says that, when edges can be aligned again and
  again, time messages for them do come in the end; a receiver that never sends one
  can never be locked to.  The bound on faults says that faults end.  Relocks has one
  exception, stated in it, which section 6 describes.
- Session, Proxy, Push: some goroutine that can go on does (weak fairness of `Progress`,
  the steps of the program alone).  That is all that Go's scheduler has to give when
  every loop is bounded, as it is in these instances, and it is weaker than fairness of
  each step.  Nobody has to call, connect, send or hang up; a device that opens, a Write
  to a serial port and a Read with a deadline return.
- Pull: the pipeline and the GGASender make progress each on its own, since the sender's
  ticker may tick for ever.

Deadlock is checked in `sync`, which runs for ever.  The other systems come to a
legitimate end: calls, messages and faults are bounded and the daemon stops.  That
nothing is stuck before is what NobodyWaitsForEver, Settles, WorkerLives, NobodyStuck and
Finishes say; the receiver of `timemsg` just sends until its bound.

Every property has a mutant of the code model under `mutants` that violates it: an
off-by-one in the trimming, a missing reset of a count, a guard left out, two calls
swapped.

## 4 Proofs

All theorems hold for every value of the constants, under the named assumptions of the
modules only.  Most of these are that bounds are naturals, that lengths and windows are
positive, and that names of different things differ (`ParamsAssumption` of Proxy and of
Session).  Grandmaster needs one leap second state.  `TimeAssumption` of PhcSync says what
the code's constants and its configuration check give: the ticker divides the second, the
1.5 s of sampleIntervalMax lie a tick from either end of the second second, and a
correction timeout ends a tick before the next pulse.  `BufferAssumption` of TimeMsg says that
the read window is longer than the pulses asked for, as the controller configures it
(RequiredMsgWindow adds two seconds, controller.go:498-504); `ReceiversAssumption` is about
the receiver: the messages of an epoch are read one after the other and before the next
epoch, a repetition comes sooner than MinInvalidRepeatInterval, which is below a second,
and messages about a pulse come once a second, one type ahead of it and one after it.
A time may deviate by any integer, except in messages with a PulseOffset, whose time is
taken to be exact as the code takes it (timemsg.go:437).

Every safety invariant and every action property that a passing run checks is proved.
Hardly any is inductive alone; what had to be added is the argument.

- **BcastProofs**: TypeCorrect, PanicFreedom (the index of Run included), GapFreedom,
  QueueIsBounded, Refinement.  `IInv` adds `FreshInv` (a channel that Run does not know of
  yet, the one waiting in `b.subscribe` included, is open, unread and no subscriber's) and
  `CursorInv`, the heart of the argument: what a subscriber has read, plus what lies
  between its cursor and the end of the queue, is what was sent since it joined, and
  that part of `q` holds the latest messages in order.  QueueIsBounded needs the readers
  that have left (`Joined`): what waits in `b.unsubscribe` is gone (`LeaversGone`), so the
  reader whose backlog bounds `q` stays a witness when it unsubscribes (`JoinedStays`); a
  message adds one to both sides, and a delivery finds a new witness (`CompactedStep`).  Lemmas `NeedIndexProps` and
  `TrimQProps` say that trimming drops only what lies before every cursor.  Refinement
  maps each step of Bcast to a step of BcastAbs or a stutter: trimming and moving the
  start of the queue are stutters because `Pending` counts from the cursor.
- **GrandmasterProofs**: TypeCorrect, SendNeverPanics, ConfirmationIsTrue, LeavesNoSync,
  RequestsAreCurrent, InSyncComesFirst.  One lemma per method shows that it preserves
  `Consistent`, which relates the struct, the worker and ptp4l: a response is awaited
  exactly while a request is queued or performed, and a confirmed attempt is in effect.
  `CloseInv` adds what holds from the call of Close on.  The two action properties follow
  from the same step lemmas.
- **InputProofs**, about the two inputs of the PHC controller. PhcEra: TypeCorrect,
  ErasAreSound, StaleIsUnseen. `IInv` says that the counter is even exactly while AdjTime
  runs and that no remembered era is ahead of it; while the era that the worker remembers
  lasts, every queued timestamp captured outside the window of section 6, the timestamp in
  hand and the reading of the clock are of the present clock. `StaleInv` follows a
  timestamp of before a loss of carrier from the kernel's queue to the dispatcher: the era
  it gets is one that the dispatcher has, or will have, marked as stale.
  TimeMsg: BufferIsExact, LabelsAreRight, LeapsExact, CorrectionsFound, UtcPassedOnce.  A
  message is numbered by its epoch and its place in the epoch (`Num`), which its time of
  reading gives back.  `BufferInv` says that what was received is in the order of the numbers,
  but for a message read again right after itself, and that the error of its UTC times
  only falls (`History`); that the entries are the end of what was received and
  startIndex marks where the read window begins (`Buffered`); that the slice is full, when
  it has to grow, of the window alone (`Roomy`); and which corrections are remembered
  (`LastCorrection`).  What is asked of the buffer then becomes arithmetic on the numbers:
  labels are the seconds of reading because an aligned epoch is the first of its second
  (`AlignedStart`); two messages of a type whose error differs enclose the correction of UTC
  (`LeapPair`, where the deviations decide if they are a second apart); messages that count
  state the same time just when neither epoch nor deviation differs (`StatedIs`);
  the search for a correction passes only messages of later pulses or of
  the other kind (`SearchFinds`); and PulseWindow + 1 seconds without a fault hold every
  type of message once per epoch, hence aligned ones of PulseWindow seconds in a row
  (`WholeHas`, `SecondsHave`), which are the last ones of the list (`ListsUnique`).
- **PhcSyncProofs**: CountersAreConsistent, SyncIsWithdrawn, PulsesAreAccounted,
  ConvergedIsStable, for all windows, limits, timeouts and phases.  `ModeInv` has one
  invariant per mode.  `Counters` says that the counts of bad samples and outliers are
  those of their ring buffers, by the cardinality of the set of marked places.  `OnGrid`:
  the last sample is of the last pulse or of the one before it, which bounds how long
  tracking mode waits; with `Accounted`, in the second case a pulse went unheard.  The age
  of the last good sample is then at most the age of the last sample and one second for
  each consecutive bad one, of which there are at most BadSampleRunLimit.
- **SessionProofs**: TypeCorrect, LastWins, LastEventRight, Exclusive, CorrectionsRight,
  for any number of callers, sends, correction sessions, calls and runs.  The invariant
  is a tower, each layer inductive over those below it.  `Typed` and `Places`: what a
  goroutine has in hand goes with where it is.  `ConnInv`: lifecycle calls have distinct
  numbers; a superseded one that still closes has a successor waiting for
  `lifecycleMu`; a manager has a context, done once the state is Disconnected; whatever is
  open is in somebody's hands.  LastWins follows.  `EmitInv`: whoever delivers an event has
  the newest state or will look again, and a state that nobody has taken is one that
  somebody is on the way to deliver.  `CorrInv`: a correction session is the current one, or
  its context is done and exactly one goroutine waits for it.  `RunsInv`: a transport in
  the hands of its opener has a run number that nothing else uses, so that an operation
  is never taken for one of a later run.  `OpsInv`: a run that is being opened or probed
  has no operation.  Exclusive combines the last with `PortHeldByLiving`.  The first
  sections of the module state for every action what it does to the fields that the layers
  read.
- **ProxyProofs**: TypeCorrect, PortConservation, OnlyOldIsDropped.  `IInv` joins to
  PortConserved its own type part in two (`Shape`, with what a write and the subscription
  need of the packets, and `Scalars`) and `Fresh`: a client that has not connected has no
  reader.  A connection has the port only while its reader reads or writes, so every way
  out of the loop hands it back, and nobody else touches the lock while it is lent.
  `ConnChange` reduces the type part of a step to the record it writes.  `DropInv` says of
  each client that what it got, what is being written and what is queued increase, and that
  every other packet since it subscribed is too old and has something newer behind it;
  `PrunedTail` says that pruning drops a first part of the queue.
- **PullProofs**: TypeCorrect, CorrectionsAreRight, StallsAreTolerated, NothingIsLeft,
  FailedIsFinal.  `PipeInv`: written, at the writer, in the channel, on offer and queued are
  five sets of packet numbers, each before the next; an entry's epoch stamp differs from
  the queue's exactly if the history has an "end" packet or a reconnect since; what is in
  none of the sets has been superseded or pushed out.  Lemma `Enqueued` gives the last by a
  pigeonhole argument on the numbers.  `IInv`: an open connection is the reader's current
  one, the port is the writer's exactly while it writes, and the timeouts counted by the
  sender are those of its connection.
- **PushProofs**: ConsistentAlways, LossIsJustified.  The same `PipeInv` for the other
  direction, where the queue goroutine empties the channel to the writer at a reconnect
  and what was on offer is given up.  `DropsCounted`: a failure takes one packet at
  once, and two more when the queue goroutine learns of it.

The entries of PruningQueue are a set, ordered by the number of the packet: the code
appends in that order and removes from the middle and the front only.  That makes the
least element the head and spares the proofs the sequence.

## 5 Only model-checked

Liveness under fairness is beyond the prover and stays with TLC: NobodyWaitsForEver,
Settles (of Grandmaster and of Session), WorkerLives, Relocks, NobodyStuck, Finishes,
PositionSent.  That the numbers, sets and reduced data of the models stand for what the
code computes is not proved anywhere; section 2 gives the correspondence.

## 6 What the code does not keep

Each of the first three is a run that TLC ends with a counterexample; the quotations are
in `findings`.

- `session_wait`: SendMsgFile delivers the event of the new state before it starts its
  goroutines, so a Disconnect in between waits for nothing and returns while they are
  still to be started.
- `proxy_leak`: a client that hangs up while the receiver is silent leaves the writer and
  its queue behind until the receiver's next packet.
- `pull_once`: with nmeaSendInterval = 0 a GGA upload that times out is not tried again,
  and the connection is kept.

The following were met while modelling, and the models contain them; properties are
stated such that they hold all the same.

- Bcast: a message that fires after Subscribe has returned may be taken by Run before the
  subscription, although time/app/daemon/http.go:160-163 relies on the opposite; an
  Unsubscribe may be taken before its own Subscribe, which then adds a subscriber that
  nobody reads.  Taking an Unsubscribe does not trim the queue: what only the leaver had
  still to get stays until the next delivery to somebody.  QueueBounded counts it.
- PhcEra: a timestamp captured between the empty poll and the load of the era gets the era
  of after a step that fell there.  Such a timestamp has `window = "in"`, and EraSound
  speaks of all the others.  A failed step still advances the era, so converging mode
  compensates for a step that was not made; a timestamp that waits in tsCh while the
  dispatcher steps the clock has a certain old era, and converging mode uses it although
  converging.go:84 waits for the step to take effect.
- PhcSync: a failing AdjTime is logged and the modes go on; later modes look at the offset
  from the nearest second only and can be InSync whole seconds off.  If tracking mode then
  persists such a sample for the drift check, reset mode rejects every right second
  from then on: the exception in Relocks.  The persisted sample is lost when converging
  mode falls back to reset mode.  With a correction timeout above 0.5 s a received pulse
  can be counted as missing while it waits for its correction; PulsesAccounted makes
  an exception for that.  `missingSamples` of converging mode is cumulative, where
  converging.go:38 speaks of consecutive samples.
- Grandmaster: a restarted ptp4l is not told again what it was told before, which
  plan/ptp4l-grandmaster-update.md:17 documents.
- Session: sendConfigRequest looks up the request channel again after the event of the new
  state was delivered; if the run has died meanwhile, the configuration is performed on
  the next run, while the state is connected and lets another operation in.
- Proxy: packets that are too old are dropped only when a new one arrives, so a client that
  was slow can be sent old ones after a silence.
- Push: push.go:363 says that deduplication never spans a broken connection; what does not
  span it is an MSM epoch, whose packets are exempt from deduplication.  After a reconnect
  a packet replaces the older ones of its type, and what came between the failure and
  the news of it may still be sent.
- TimeMsg: when the message just before a late correction of UTC is lost, the repeated
  second goes unnoticed, and two messages two seconds apart get consecutive labels.
  LeapExact and LabelsRight are stated around this case.  epochStartMsg and
  detectInvalidLeap compare times without rounding them (timemsg.go:338, 401).  So two
  messages of one epoch whose times differ by nanoseconds look like two epochs, and the
  second type is taken for the earliest, against timemsg.go:320-321: `EarliestType` fails
  for the receiver TwoSolutions, the labels are right all the same (LabelTrue), and
  LabelsRight asks for the earliest type where the messages of an epoch agree
  (`EpochsAgree`).  And the second that is repeated when firmware corrects its UTC time goes
  unnoticed if it is stated some nanoseconds later than the first time, against
  timemsg.go:373, as the receiver NativeUTC shows; LeapExact says just when it is noticed.
  The search of
  GetPulseCorrection stops at a message of the last correction's kind only;
  `lastPostCorrMsg` is the latest message received, not the one with the greatest time;
  corrections in messages without a TAI time are never used.

## 7 Not modelled, and why

- Numbers: the alignment of edges, MAD and median, the PI servo, frequencies and real
  offsets.  Their outcomes are free choices in PhcSync, so its safety results hold
  whatever they compute; Relocks assumes samples without faults are good.
- Both edges timestamped: PhcSync has one edge per pulse.
- PMC encoding, vendor protocols, scanners, message files, configuration parsing: data
  conversion.
- Operating system interfaces, observers, logs, web interfaces, simulators.
- In the modelled components: the snapshots that Session gives to late joiners and its
  position monitor, the accept loop of the proxy, the handshakes and the length of the
  backoff of the streams and the choice among GGA sources, ReadDelay and the second
  23:59:60 of timemsg, the packet and ticker cases of the dispatcher.
- PPS polling, receiver detection and the daemon's shutdown are planned.

## 8 Plan

Done, in this order because timing and what is announced to the network depend on the
first ones: Bcast with BcastAbs, Grandmaster, PhcEra, PhcSync; then Session, Proxy, Push,
Pull and TimeMsg; the proofs of section 4, which cover them all.  What could follow:

1. **SessionAbs**: an abstract specification of Session's state as its clients see it, for
   Session to implement.
2. **PulsePoll**: the acquisition and tracking windows of `gps/app/pps`.
3. **gpscfg, detectspeed**: detectors and timeouts over one packet channel; then the probe of
   Session composed with it.
4. **Edges**: the filter for dual-edge timestamps, by parity.
5. **Daemon**: the order of cancellation and waits over the abstract promises of the
   components.
