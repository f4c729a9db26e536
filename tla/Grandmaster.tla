---------------------------- MODULE Grandmaster ----------------------------
(***************************************************************************)
(* Updating ptp4l's grandmaster settings: time/internal/ptpgm and its use  *)
(* by the phcsync Controller.  The dispatcher goroutine owns the           *)
(* Controller and the Grandmaster and must never wait for ptp4l, except    *)
(* when it closes; the PTP4LWorker goroutine performs one request at a     *)
(* time.  They share the channel updateCh (capacity 1) and one response    *)
(* channel per request.                                                    *)
(***************************************************************************)
EXTENDS Integers, Sequences

CONSTANTS Leaps,        \* possible values of ptime.LeapSecondState
          MaxChanges,   \* bound on mode, leap second and reference changes
          MaxFailures   \* bound on the requests that ptp4l does not answer

ASSUME LeapsAssumption == Leaps # {}
ASSUME BoundsAssumption == MaxChanges \in Nat /\ MaxFailures \in Nat

\* GrandmasterProps; a nil *GrandmasterProps; and the initial target, whose
\* LeapSecondState is the zero value.
Props   == [sync : {"NoSync", "InSync"}, leap : Leaps]
NoProps == [sync |-> "none", leap |-> "none"]
NewTarget == [sync |-> "NoSync", leap |-> "zero"]

VARIABLES
  mode,       \* Controller.mode
  haveRef,    \* Controller.lastSample has a reference time
  leap,       \* Controller.leapSecond.StateAt(lastSample.Ref)
  phase,      \* "open", "closing" (in Grandmaster.Close), "closed"
  gm,         \* the Grandmaster, see GM
  worker,     \* the PTP4LWorker: "idle", "busy", "exited"
  wreq,       \* the properties of the request that the worker performs
  ptp4l,      \* the settings in effect in ptp4l, NoProps while its own defaults
  changes,    \* counts changes of the Controller's inputs
  failures    \* counts failed requests

vars == <<mode, haveRef, leap, phase, gm, worker, wreq, ptp4l, changes, failures>>

Modes == {"reset", "converging", "tracking"}

\* The fields of Grandmaster.  status is lastAttemptConfirmed.  respCh is nil, or
\* the state of the response channel of the last request: waiting, ok (a value),
\* failed (closed without one).  updateCh is the contents of the channel of that
\* name; its capacity is 1, so a second element stands for the panic in send.
GM == [target : Props \cup {NewTarget}, lastAttempt : Props \cup {NoProps},
       status : {"unconfirmed", "confirmed"},
       respCh : {"nil", "waiting", "ok", "failed"}, nextRetry : {"zero", "set"},
       updateCh : Seq(Props)]

TypeOK ==
  /\ mode \in Modes
  /\ haveRef \in BOOLEAN
  /\ leap \in Leaps
  /\ phase \in {"open", "closing", "closed"}
  /\ gm \in GM
  /\ worker \in {"idle", "busy", "exited"}
  /\ wreq \in Props \cup {NoProps}
  /\ ptp4l \in Props \cup {NoProps}
  /\ changes \in 0 .. MaxChanges
  /\ failures \in 0 .. MaxFailures

-----------------------------------------------------------------------------
(* The methods of Grandmaster, as functions of its state g.                 *)

SyncState(m) == IF m = "tracking" THEN "InSync" ELSE "NoSync"

\* handleResponse, taking a closed channel for an answer.
HandleResponse_NoOk(g) ==
  IF g.respCh \in {"ok", "failed"}
  THEN [g EXCEPT !.status = "confirmed", !.respCh = "nil"]
  ELSE g

\* handleResponse: a non-blocking receive, confirmed only if there is a value.
HandleResponse(g) ==
  IF g.respCh \in {"ok", "failed"}
  THEN [g EXCEPT !.status = IF g.respCh = "ok" THEN "confirmed" ELSE "unconfirmed",
                 !.respCh = "nil"]
  ELSE g

NeedsUpdate_TargetOnly(g) ==
  g.lastAttempt # NoProps /\ g.target # g.lastAttempt

NeedsUpdate(g) ==
  g.lastAttempt # NoProps /\ (g.target # g.lastAttempt \/ g.status = "unconfirmed")

Send(g) ==
  [g EXCEPT !.updateCh = Append(g.updateCh, g.target), !.lastAttempt = g.target,
            !.status = "unconfirmed", !.respCh = "waiting", !.nextRetry = "zero"]

\* Update, sending although a request is in flight.
Update_InFlight(g, sync, lp) ==
  LET h == HandleResponse([g EXCEPT !.target = [sync |-> sync, leap |-> lp]])
  IN  IF \/ h.lastAttempt = NoProps /\ sync = "NoSync"
         \/ h.lastAttempt = h.target
      THEN h ELSE Send(h)

Update(g, sync, lp) ==
  LET h == HandleResponse([g EXCEPT !.target = [sync |-> sync, leap |-> lp]])
  IN  IF \/ h.respCh # "nil"
         \/ h.lastAttempt = NoProps /\ sync = "NoSync"
         \/ h.lastAttempt = h.target
      THEN h ELSE Send(h)

\* RetryDue returns due; elapsed says whether now has reached nextRetry.
RetryDue(g, elapsed) ==
  LET h == HandleResponse(g)
  IN  /\ h.respCh = "nil"
      /\ NeedsUpdate(h)
      /\ h.target # h.lastAttempt \/ (h.nextRetry = "set" /\ elapsed)

\* What RetryDue leaves behind: it arms the timer for an unconfirmed attempt.
AfterRetryDue(g) ==
  LET h == HandleResponse(g)
  IN  IF h.respCh = "nil" /\ NeedsUpdate(h) /\ h.target = h.lastAttempt
      THEN [h EXCEPT !.nextRetry = "set"]
      ELSE h

Retry(g) == IF g.respCh = "nil" /\ NeedsUpdate(g) THEN Send(g) ELSE g

-----------------------------------------------------------------------------
(* The Controller's use of it.                                              *)

\* gmUpdate: nothing happens before there is a sample with a reference time.
GmUpdate(g, m, ref, lp) == IF ref THEN Update(g, SyncState(m), lp) ELSE g

GmRetry(g, m, ref, lp, elapsed) ==
  IF RetryDue(g, elapsed)
  THEN Retry(GmUpdate(AfterRetryDue(g), m, ref, lp))
  ELSE AfterRetryDue(g)

Init ==
  /\ mode = "reset"
  /\ haveRef = FALSE
  /\ leap \in Leaps
  /\ phase = "open"
  /\ gm = [target |-> NewTarget, lastAttempt |-> NoProps,
           status |-> "unconfirmed", respCh |-> "nil", nextRetry |-> "zero",
           updateCh |-> <<>>]
  /\ worker = "idle"
  /\ wreq = NoProps
  /\ ptp4l = NoProps
  /\ changes = 0
  /\ failures = 0

Change ==
  /\ phase = "open"
  /\ changes < MaxChanges
  /\ changes' = changes + 1
  /\ UNCHANGED <<phase, worker, wreq, ptp4l, failures>>

\* A sample or a pause: leaving reset takes a sample with a reference time.
ModeAfter(m) ==
  CASE mode = "reset"      -> m = "converging"
    [] mode = "converging" -> m \in {"reset", "tracking"}
    [] mode = "tracking"   -> m = "reset"

\* changeMode, from a pulse edge, a time message or a Pause.
ChangeMode(m) ==
  /\ Change
  /\ ModeAfter(m)
  /\ mode' = m
  /\ haveRef' = TRUE
  /\ gm' = GmUpdate(gm, m, TRUE, leap)
  /\ UNCHANGED leap

\* The first sample, when it leaves the controller in reset mode.
FirstSample ==
  /\ phase = "open"
  /\ ~haveRef
  /\ haveRef' = TRUE
  /\ UNCHANGED <<mode, leap, phase, gm, worker, wreq, ptp4l, changes, failures>>

\* A LeapSecond message from the receiver.
LeapSecond(lp) ==
  /\ Change
  /\ lp # leap
  /\ leap' = lp
  /\ gm' = GmUpdate(gm, mode, haveRef, lp)
  /\ UNCHANGED <<mode, haveRef>>

\* The reference time of the last sample passes a leap second or its eve: the
\* state derived from it changes, and no handler tells the Grandmaster.
RefAdvances(lp) ==
  /\ Change
  /\ lp # leap
  /\ leap' = lp
  /\ UNCHANGED <<mode, haveRef, gm>>

\* Tick: gmRetry is deferred, so it follows a mode change of the same tick.
Tick(elapsed) ==
  /\ phase = "open"
  /\ gm' = GmRetry(gm, mode, haveRef, leap, elapsed)
  /\ UNCHANGED <<mode, haveRef, leap, phase, worker, wreq, ptp4l, changes, failures>>

\* Tick, when a missing sample makes the controller leave its mode.  Running
\* the retry first would send what the mode change has just invalidated.
TickReset_RetryFirst(elapsed) ==
  /\ Change
  /\ mode # "reset"
  /\ mode' = "reset"
  /\ gm' = GmUpdate(GmRetry(gm, mode, haveRef, leap, elapsed), "reset", haveRef, leap)
  /\ UNCHANGED <<haveRef, leap>>

TickReset(elapsed) ==
  /\ Change
  /\ mode # "reset"
  /\ mode' = "reset"
  /\ gm' = GmRetry(GmUpdate(gm, "reset", haveRef, leap), "reset", haveRef, leap, elapsed)
  /\ UNCHANGED <<haveRef, leap>>

\* Controller.Close up to the point where Grandmaster.Close closes updateCh or
\* has to wait for the response to an older request.
CloseBegin_NoWait ==
  /\ phase = "open"
  /\ mode' = "reset"
  /\ gm' = GmUpdate(gm, "reset", haveRef, leap)
  /\ phase' = "closed"
  /\ UNCHANGED <<haveRef, leap, worker, wreq, ptp4l, changes, failures>>

CloseBegin ==
  /\ phase = "open"
  /\ mode' = "reset"
  /\ LET g == GmUpdate(gm, "reset", haveRef, leap)
     IN  \/ /\ g.respCh # "nil" /\ g.target # g.lastAttempt
            /\ gm' = g
            /\ phase' = "closing"
         \/ /\ g.respCh # "nil" /\ g.target = g.lastAttempt
            /\ gm' = g
            /\ phase' = "closed"
         \/ /\ g.respCh = "nil"
            /\ gm' = Retry(g)
            /\ phase' = "closed"
  /\ UNCHANGED <<haveRef, leap, worker, wreq, ptp4l, changes, failures>>

\* waitResponse has returned: send the current target if it is still needed.
CloseEnd ==
  /\ phase = "closing"
  /\ gm.respCh \in {"ok", "failed"}
  /\ gm' = Retry(HandleResponse(gm))
  /\ phase' = "closed"
  /\ UNCHANGED <<mode, haveRef, leap, worker, wreq, ptp4l, changes, failures>>

-----------------------------------------------------------------------------
(* The PTP4LWorker goroutine.                                               *)

WorkerTake ==
  /\ worker = "idle"
  /\ gm.updateCh # <<>>
  /\ worker' = "busy"
  /\ wreq' = Head(gm.updateCh)
  /\ gm' = [gm EXCEPT !.updateCh = Tail(gm.updateCh)]
  /\ UNCHANGED <<mode, haveRef, leap, phase, ptp4l, changes, failures>>

\* ptp4l applies the settings and answers in time: a value, then close.
WorkerSucceed ==
  /\ worker = "busy"
  /\ worker' = "idle"
  /\ ptp4l' = wreq
  /\ gm' = [gm EXCEPT !.respCh = "ok"]
  /\ UNCHANGED <<mode, haveRef, leap, phase, wreq, changes, failures>>

\* No socket, an error or a timeout: the response channel is closed without a
\* value.  A timeout does not tell whether ptp4l has applied the settings.
WorkerFail ==
  /\ worker = "busy"
  /\ failures < MaxFailures
  /\ failures' = failures + 1
  /\ worker' = "idle"
  /\ ptp4l' \in {ptp4l, wreq}
  /\ gm' = [gm EXCEPT !.respCh = "failed"]
  /\ UNCHANGED <<mode, haveRef, leap, phase, wreq, changes>>

WorkerExit ==
  /\ worker = "idle"
  /\ gm.updateCh = <<>>
  /\ phase = "closed"
  /\ worker' = "exited"
  /\ UNCHANGED <<mode, haveRef, leap, phase, gm, wreq, ptp4l, changes, failures>>

\* The daemon has shut down.
Finished ==
  /\ worker = "exited"
  /\ UNCHANGED vars

Dispatcher ==
  \/ \E m \in Modes : ChangeMode(m)
  \/ FirstSample
  \/ \E lp \in Leaps : LeapSecond(lp) \/ RefAdvances(lp)
  \/ \E elapsed \in BOOLEAN : Tick(elapsed) \/ TickReset(elapsed)
  \/ CloseBegin
  \/ CloseEnd

Worker == WorkerTake \/ WorkerSucceed \/ WorkerFail \/ WorkerExit

Next == Dispatcher \/ Worker \/ Finished

\* The ticker keeps firing until the dispatcher stops, and a request ends within
\* its deadline of 0.1 s; that it does not always fail is the bound on failures.
Fairness ==
  /\ WF_vars(Tick(TRUE))
  /\ WF_vars(CloseEnd)
  /\ WF_vars(WorkerTake)
  /\ WF_vars(WorkerSucceed \/ WorkerFail)
  /\ WF_vars(WorkerExit)

Spec == Init /\ [][Next]_vars /\ Fairness

-----------------------------------------------------------------------------
\* "callers only send once the previous response has been collected"
\* (gm.go:141): send never finds updateCh full, because a request is in the
\* channel or with the worker exactly while respCh waits.
OneInFlight ==
  /\ Len(gm.updateCh) <= 1
  /\ (gm.respCh = "waiting") <=> (gm.updateCh # <<>> \/ worker = "busy")

\* A confirmed attempt is what ptp4l really has: retries stop only when the
\* settings are in effect, also after timeouts whose request was applied.
ConfirmedInEffect ==
  (gm.status = "confirmed" \/ gm.respCh = "ok") => ptp4l = gm.lastAttempt

\* What is handed to the worker is never out of date: it matches the mode and
\* the leap second state of that moment, also when an older request delayed it,
\* when it is a retry (controller.go:463-464) or sent by Close.
SentIsCurrent ==
  [][(gm.updateCh = <<>> /\ gm'.updateCh # <<>>)
       => Head(gm'.updateCh) = [sync |-> SyncState(mode'), leap |-> leap']]_vars

\* "A NoSync target is not sent before the first InSync one" (gm.go:85-86), by
\* whatever path: a mode change, a leap second, a retry or Close.
InSyncFirst ==
  [][(gm.lastAttempt = NoProps /\ gm'.lastAttempt # NoProps)
       => gm'.lastAttempt.sync = "InSync"]_vars

\* "Close sends the current target after any older update" (gm.go:68): when the
\* worker has exited, the last request it performed told ptp4l NoSync, unless
\* nothing was ever sent.
NoSyncAtExit ==
  worker = "exited" => wreq = NoProps \/ (wreq = gm.target /\ wreq.sync = "NoSync")

\* A target that is not sent now is sent by a later Update or Retry: once the
\* inputs settle and ptp4l answers, it has the target.
Converges ==
  []<>(gm.lastAttempt = NoProps \/ phase # "open" \/ ptp4l = gm.target)

\* Closing never hangs: the dispatcher gets its response, and the worker exits.
Closes == phase # "open" ~> worker = "exited"

\* While the daemon runs ptp4l gets the target, and afterwards everything ends.
Settles == Converges /\ Closes
=============================================================================
