------------------------- MODULE GrandmasterProofs -------------------------
(***************************************************************************)
(* Proofs about the Grandmaster module, for any set of leap second states, *)
(* any number of changes and any number of failed requests.                *)
(*                                                                         *)
(* The methods of Grandmaster are functions of its state, so the argument  *)
(* has two layers: one lemma per method says that it preserves Consistent, *)
(* the relation between the Grandmaster, the worker and ptp4l; the         *)
(* theorems then go through the actions, citing the lemma of the method    *)
(* each one calls.                                                         *)
(***************************************************************************)
EXTENDS Grandmaster, SequenceTheorems, TLAPS

\* What relates the Grandmaster g to the worker w, the request req that it
\* performs or has last performed, and the settings p in effect.
Consistent(g, w, req, p) ==
  /\ g \in GM
  /\ (g.respCh = "waiting") <=> (g.updateCh # <<>> \/ w = "busy")
  /\ ~(g.updateCh # <<>> /\ w = "busy")
  /\ g.updateCh # <<>> => g.updateCh = <<g.lastAttempt>>
  /\ g.updateCh = <<>> => req = g.lastAttempt
  /\ g.respCh = "waiting" => g.status = "unconfirmed"
  /\ (g.status = "confirmed" \/ g.respCh = "ok") => p = g.lastAttempt
  /\ g.lastAttempt = NoProps => g.respCh = "nil" /\ g.status = "unconfirmed"
  /\ g.lastAttempt # NoProps => g.target \in Props

LEMMA PropsFacts ==
  /\ NoProps \notin Props
  /\ \A s \in {"NoSync", "InSync"}, l \in Leaps : [sync |-> s, leap |-> l] \in Props
BY DEF Props, NoProps

\* The empty channel and a channel with one request differ.
LEMMA OneIsNotEmpty ==
  ASSUME NEW p PROVE <<p>> # <<>>
OBVIOUS

\* Collecting a response keeps the Grandmaster consistent and its target.
LEMMA HandleResponseConsistent ==
  ASSUME NEW g, NEW w, NEW req, NEW p, Consistent(g, w, req, p)
  PROVE  LET h == HandleResponse(g)
         IN  /\ Consistent(h, w, req, p)
             /\ h.respCh = IF g.respCh = "waiting" THEN "waiting" ELSE "nil"
             /\ h.target = g.target /\ h.lastAttempt = g.lastAttempt
             /\ h.updateCh = g.updateCh
<1> DEFINE h == HandleResponse(g)
<1>1. g \in GM BY DEF Consistent
<1>2. CASE g.respCh \in {"ok", "failed"}
  <2>1. h = [g EXCEPT !.status = IF g.respCh = "ok" THEN "confirmed" ELSE "unconfirmed",
                     !.respCh = "nil"]
    BY <1>2 DEF HandleResponse
  <2>2. /\ h \in GM /\ h.target = g.target /\ h.lastAttempt = g.lastAttempt
        /\ h.updateCh = g.updateCh /\ h.respCh = "nil"
        /\ h.status = IF g.respCh = "ok" THEN "confirmed" ELSE "unconfirmed"
    BY <1>1, <2>1 DEF GM
  <2> QED BY <1>2, <2>2 DEF Consistent
<1>3. CASE g.respCh \notin {"ok", "failed"}
  <2>1. h = g BY <1>3 DEF HandleResponse
  <2> QED BY <1>1, <1>3, <2>1 DEF GM
<1> QED BY <1>2, <1>3

\* send is safe when the previous response has been collected.
LEMMA SendConsistent ==
  ASSUME NEW g, NEW w, NEW req, NEW p, Consistent(g, w, req, p),
         g.respCh = "nil", g.target \in Props
  PROVE  LET h == Send(g)
         IN  /\ Consistent(h, w, req, p)
             /\ h.target = g.target /\ h.lastAttempt = g.target
             /\ h.updateCh = <<g.target>>
<1> DEFINE h == Send(g)
<1>1. /\ g \in GM /\ g.updateCh = <<>> /\ w # "busy"
  BY DEF Consistent
<1>2. Append(g.updateCh, g.target) = <<g.target>>
  BY <1>1
<1>3. <<g.target>> \in Seq(Props) /\ <<g.target>> # <<>>
  OBVIOUS
<1>4. h = [g EXCEPT !.updateCh = <<g.target>>, !.lastAttempt = g.target,
            !.status = "unconfirmed", !.respCh = "waiting", !.nextRetry = "zero"]
  BY <1>2 DEF Send
<1>5. /\ h \in GM /\ h.target = g.target /\ h.lastAttempt = g.target
      /\ h.updateCh = <<g.target>> /\ h.respCh = "waiting" /\ h.status = "unconfirmed"
  BY <1>1, <1>3, <1>4 DEF GM
<1> QED BY <1>1, <1>3, <1>5, PropsFacts DEF Consistent

\* Retry keeps the Grandmaster consistent; afterwards the target is what was
\* last attempted, unless a request is in flight or nothing was ever sent.
LEMMA RetryConsistent ==
  ASSUME NEW g, NEW w, NEW req, NEW p, Consistent(g, w, req, p)
  PROVE  LET h == Retry(g)
         IN  /\ Consistent(h, w, req, p)
             /\ h.target = g.target
             /\ h.lastAttempt = NoProps <=> g.lastAttempt = NoProps
             /\ h.updateCh = g.updateCh \/ h.updateCh = <<g.target>>
             /\ g.respCh = "nil" =>
                  h.lastAttempt = NoProps \/ h.target = h.lastAttempt
<1> DEFINE h == Retry(g)
<1>1. CASE g.respCh = "nil" /\ NeedsUpdate(g)
  <2>1. h = Send(g) BY <1>1 DEF Retry
  <2>2. g.target \in Props /\ g.lastAttempt # NoProps
    BY <1>1 DEF NeedsUpdate, Consistent
  <2>3. /\ Consistent(Send(g), w, req, p)
        /\ Send(g).target = g.target /\ Send(g).lastAttempt = g.target
        /\ Send(g).updateCh = <<g.target>>
    BY <1>1, <2>2, SendConsistent
  <2> QED BY <2>1, <2>2, <2>3, PropsFacts
<1>2. CASE ~(g.respCh = "nil" /\ NeedsUpdate(g))
  <2>1. h = g BY <1>2 DEF Retry
  <2> QED BY <1>2, <2>1 DEF NeedsUpdate
<1> QED BY <1>1, <1>2

\* Update keeps the Grandmaster consistent and sets its target; what it sends is
\* that target, and the first thing ever sent says InSync.
LEMMA UpdateConsistent ==
  ASSUME NEW g, NEW w, NEW req, NEW p, Consistent(g, w, req, p),
         NEW sync \in {"NoSync", "InSync"}, NEW lp \in Leaps
  PROVE  LET h == Update(g, sync, lp)
         IN  /\ Consistent(h, w, req, p)
             /\ h.target = [sync |-> sync, leap |-> lp]
             /\ h.respCh \in {"nil", "waiting"}
             /\ h.updateCh = g.updateCh \/ h.updateCh = <<h.target>>
             /\ (g.lastAttempt = NoProps /\ h.lastAttempt # NoProps)
                  => h.lastAttempt = h.target /\ sync = "InSync"
             /\ g.lastAttempt # NoProps => h.lastAttempt # NoProps
<1> DEFINE t == [sync |-> sync, leap |-> lp]
           f == [g EXCEPT !.target = t]
           r == HandleResponse(f)
           h == Update(g, sync, lp)
<1>1. t \in Props BY PropsFacts
<1>2. g \in GM BY DEF Consistent
<1>3. /\ f \in GM /\ f.target = t /\ f.lastAttempt = g.lastAttempt /\ f.status = g.status
      /\ f.respCh = g.respCh /\ f.updateCh = g.updateCh
  BY <1>1, <1>2 DEF GM
<1>4. Consistent(f, w, req, p)
  BY <1>1, <1>3 DEF Consistent
<1>5. /\ Consistent(r, w, req, p) /\ r.respCh \in {"nil", "waiting"}
      /\ r.target = t /\ r.lastAttempt = g.lastAttempt /\ r.updateCh = g.updateCh
  BY <1>3, <1>4, HandleResponseConsistent
<1> DEFINE skip == \/ r.respCh # "nil"
                   \/ r.lastAttempt = NoProps /\ sync = "NoSync"
                   \/ r.lastAttempt = r.target
<1>6. h = IF skip THEN r ELSE Send(r)
  BY DEF Update
<1>7. CASE skip
  BY <1>5, <1>6, <1>7
<1>8. CASE ~skip
  <2>1. h = Send(r) BY <1>6, <1>8
  <2>2. /\ Consistent(Send(r), w, req, p) /\ Send(r).target = t
        /\ Send(r).lastAttempt = t /\ Send(r).updateCh = <<t>>
    BY <1>1, <1>5, <1>8, SendConsistent
  <2>3. Send(r).respCh \in {"nil", "waiting"}
    BY <2>2, OneIsNotEmpty DEF Consistent
  <2>4. t # NoProps BY <1>1, PropsFacts
  <2> QED BY <1>5, <1>8, <2>1, <2>2, <2>3, <2>4
<1> QED BY <1>7, <1>8

LEMMA SyncStateType == \A m \in Modes : SyncState(m) \in {"NoSync", "InSync"}
BY DEF SyncState, Modes

\* gmUpdate, in terms of the mode and of the reference time.
LEMMA GmUpdateConsistent ==
  ASSUME NEW g, NEW w, NEW req, NEW p, Consistent(g, w, req, p),
         NEW m \in Modes, NEW ref \in BOOLEAN, NEW lp \in Leaps,
         g.lastAttempt # NoProps => ref
  PROVE  LET h == GmUpdate(g, m, ref, lp)
             cur == [sync |-> SyncState(m), leap |-> lp]
         IN  /\ Consistent(h, w, req, p)
             /\ h.lastAttempt # NoProps => ref /\ h.target = cur
             /\ h.lastAttempt # NoProps => h.respCh \in {"nil", "waiting"}
             /\ h.updateCh = g.updateCh \/ h.updateCh = <<cur>>
             /\ (g.lastAttempt = NoProps /\ h.lastAttempt # NoProps)
                  => h.lastAttempt.sync = "InSync"
             /\ g.lastAttempt # NoProps => h.lastAttempt # NoProps
<1> DEFINE sync == SyncState(m)
           cur == [sync |-> sync, leap |-> lp]
<1>1. sync \in {"NoSync", "InSync"} BY SyncStateType
<1> HIDE DEF sync
<1>2. CASE ref
  <2> DEFINE h == Update(g, sync, lp)
  <2>1. GmUpdate(g, m, ref, lp) = h BY <1>2 DEF GmUpdate, sync
  <2>2. /\ Consistent(h, w, req, p) /\ h.target = cur
        /\ h.respCh \in {"nil", "waiting"}
        /\ h.updateCh = g.updateCh \/ h.updateCh = <<h.target>>
        /\ (g.lastAttempt = NoProps /\ h.lastAttempt # NoProps)
             => h.lastAttempt = h.target /\ sync = "InSync"
        /\ g.lastAttempt # NoProps => h.lastAttempt # NoProps
    BY <1>1, UpdateConsistent
  <2>3. cur.sync = sync OBVIOUS
  <2> HIDE DEF h
  <2> QED BY <1>2, <2>1, <2>2, <2>3 DEF sync
<1>3. CASE ~ref
  <2>1. GmUpdate(g, m, ref, lp) = g BY <1>3 DEF GmUpdate
  <2> QED BY <1>3, <2>1
<1> QED BY <1>2, <1>3

\* RetryDue changes the retry timer only, besides collecting a response.
LEMMA AfterRetryDueConsistent ==
  ASSUME NEW g, NEW w, NEW req, NEW p, Consistent(g, w, req, p)
  PROVE  LET h == AfterRetryDue(g)
         IN  /\ Consistent(h, w, req, p)
             /\ h.target = g.target /\ h.lastAttempt = g.lastAttempt
             /\ h.updateCh = g.updateCh
<1> DEFINE r == HandleResponse(g)
           h == AfterRetryDue(g)
<1>1. /\ Consistent(r, w, req, p) /\ r.target = g.target
      /\ r.lastAttempt = g.lastAttempt /\ r.updateCh = g.updateCh
  BY HandleResponseConsistent
<1>2. h = r \/ h = [r EXCEPT !.nextRetry = "set"]
  BY DEF AfterRetryDue
<1> HIDE DEF r, h
<1>3. r \in GM BY <1>1 DEF Consistent
<1>4. CASE h = [r EXCEPT !.nextRetry = "set"]
  <2>1. /\ h \in GM /\ h.target = r.target /\ h.lastAttempt = r.lastAttempt
        /\ h.status = r.status /\ h.respCh = r.respCh /\ h.updateCh = r.updateCh
    BY <1>3, <1>4 DEF GM
  <2> QED BY <1>1, <2>1 DEF Consistent, h
<1> QED BY <1>1, <1>2, <1>4 DEF h

\* gmRetry sends the current mode and leap second state, or nothing.
LEMMA GmRetryConsistent ==
  ASSUME NEW g, NEW w, NEW req, NEW p, Consistent(g, w, req, p),
         NEW m \in Modes, NEW ref \in BOOLEAN, NEW lp \in Leaps, NEW elapsed \in BOOLEAN,
         g.lastAttempt # NoProps => ref
  PROVE  LET h == GmRetry(g, m, ref, lp, elapsed)
             cur == [sync |-> SyncState(m), leap |-> lp]
         IN  /\ Consistent(h, w, req, p)
             /\ h.lastAttempt = NoProps <=> g.lastAttempt = NoProps
             /\ h.updateCh = g.updateCh \/ h.updateCh = <<cur>>
<1> DEFINE r == AfterRetryDue(g)
           u == GmUpdate(r, m, ref, lp)
           h == GmRetry(g, m, ref, lp, elapsed)
           cur == [sync |-> SyncState(m), leap |-> lp]
<1>1. /\ Consistent(r, w, req, p) /\ r.lastAttempt = g.lastAttempt
      /\ r.updateCh = g.updateCh
  BY AfterRetryDueConsistent
<1>2. CASE ~RetryDue(g, elapsed)
  <2>1. h = r BY <1>2 DEF GmRetry
  <2> QED BY <1>1, <2>1
<1>3. CASE RetryDue(g, elapsed)
  <2>1. h = Retry(u) BY <1>3 DEF GmRetry
  <2>2. g.lastAttempt # NoProps
    <3>1. HandleResponse(g).lastAttempt = g.lastAttempt BY HandleResponseConsistent
    <3> QED BY <1>3, <3>1 DEF RetryDue, NeedsUpdate
  <2>3. /\ Consistent(u, w, req, p) /\ u.lastAttempt # NoProps /\ u.target = cur
        /\ u.updateCh = r.updateCh \/ u.updateCh = <<cur>>
    BY <1>1, <2>2, GmUpdateConsistent
  <2> HIDE DEF u, r
  <2>4. /\ Consistent(Retry(u), w, req, p)
        /\ Retry(u).lastAttempt = NoProps <=> u.lastAttempt = NoProps
        /\ Retry(u).updateCh = u.updateCh \/ Retry(u).updateCh = <<u.target>>
    BY <2>3, RetryConsistent
  <2> QED BY <1>1, <2>1, <2>2, <2>3, <2>4
<1> QED BY <1>2, <1>3

-----------------------------------------------------------------------------
(* The inductive invariant.                                                 *)

StateTypes ==
  /\ mode \in Modes
  /\ haveRef \in BOOLEAN
  /\ leap \in Leaps
  /\ phase \in {"open", "closing", "closed"}
  /\ worker \in {"idle", "busy", "exited"}
  /\ wreq \in Props \cup {NoProps}
  /\ ptp4l \in Props \cup {NoProps}
  /\ changes \in 0 .. MaxChanges
  /\ failures \in 0 .. MaxFailures

Current == [sync |-> SyncState(mode), leap |-> leap]

\* Nothing is sent before the first reference time; from the moment Close is
\* called the target is NoSync and stays; updateCh is closed only when nothing is
\* left to be sent, and the worker exits only when it has taken everything.
CloseInv ==
  /\ gm.lastAttempt # NoProps => haveRef
  /\ phase # "open" => mode = "reset" /\ (gm.lastAttempt = NoProps \/ gm.target = Current)
  /\ phase = "closed" => gm.lastAttempt = NoProps \/ gm.target = gm.lastAttempt
  /\ worker = "exited" => phase = "closed" /\ gm.updateCh = <<>>

IInv == StateTypes /\ Consistent(gm, worker, wreq, ptp4l) /\ CloseInv

\* The bodies of SentIsCurrent and InSyncFirst.
SentStep == (gm.updateCh = <<>> /\ gm'.updateCh # <<>>) => Head(gm'.updateCh) = Current'
FirstStep ==
  (gm.lastAttempt = NoProps /\ gm'.lastAttempt # NoProps) => gm'.lastAttempt.sync = "InSync"

LEMMA InitIInv == Init => IInv
<1> SUFFICES ASSUME Init PROVE IInv
  OBVIOUS
<1>1. StateTypes
  <2>1. changes \in 0 .. MaxChanges /\ failures \in 0 .. MaxFailures
    BY BoundsAssumption DEF Init
  <2>2. haveRef \in BOOLEAN /\ mode \in Modes BY DEF Init, Modes
  <2> QED BY <2>1, <2>2 DEF Init, StateTypes
<1>2. gm \in GM
  <2>1. <<>> \in Seq(Props) OBVIOUS
  <2> QED BY <2>1 DEF Init, GM
<1>3. Consistent(gm, worker, wreq, ptp4l)
  BY <1>2 DEF Init, Consistent
<1>4. CloseInv
  BY DEF Init, CloseInv
<1> QED BY <1>1, <1>3, <1>4 DEF IInv

\* A step of the dispatcher while it is open, through gmUpdate or gmRetry.
LEMMA DispatcherOpenStep ==
  ASSUME IInv, StateTypes', phase = "open", phase' = "open",
         UNCHANGED <<worker, wreq, ptp4l>>,
         Consistent(gm', worker, wreq, ptp4l),
         gm'.lastAttempt # NoProps => haveRef',
         gm'.updateCh = gm.updateCh \/ gm'.updateCh = <<Current'>>,
         FirstStep
  PROVE  IInv' /\ SentStep /\ FirstStep
<1>1. CloseInv' BY DEF IInv, CloseInv
<1>2. Consistent(gm, worker, wreq, ptp4l)' BY DEF Consistent
<1>3. Head(<<Current'>>) = Current' OBVIOUS
<1>4. SentStep BY <1>3 DEF SentStep
<1> QED BY <1>1, <1>2, <1>4 DEF IInv

LEMMA DispatcherOpen ==
  ASSUME IInv,
         \/ \E m \in Modes : ChangeMode(m)
         \/ FirstSample
         \/ \E lp \in Leaps : LeapSecond(lp) \/ RefAdvances(lp)
         \/ \E elapsed \in BOOLEAN : Tick(elapsed) \/ TickReset(elapsed)
  PROVE  IInv' /\ SentStep /\ FirstStep
<1>1. /\ StateTypes /\ Consistent(gm, worker, wreq, ptp4l)
      /\ gm.lastAttempt # NoProps => haveRef
  BY DEF IInv, CloseInv
<1>2. ASSUME NEW m \in Modes, ChangeMode(m)
      PROVE  IInv' /\ SentStep /\ FirstStep
  <2>1. StateTypes'
    BY <1>1, <1>2, BoundsAssumption DEF StateTypes, ChangeMode, Change
  <2>2. /\ gm' = Update(gm, SyncState(m), leap)
        /\ Current' = [sync |-> SyncState(m), leap |-> leap]
    BY <1>2 DEF ChangeMode, GmUpdate, Current
  <2>3. SyncState(m) \in {"NoSync", "InSync"} /\ leap \in Leaps
    BY <1>1, SyncStateType DEF StateTypes
  <2>4. /\ Consistent(gm', worker, wreq, ptp4l)
        /\ gm'.updateCh = gm.updateCh \/ gm'.updateCh = <<Current'>>
        /\ FirstStep
    BY <1>1, <2>2, <2>3, UpdateConsistent DEF FirstStep
  <2>5. /\ phase = "open" /\ phase' = "open" /\ UNCHANGED <<worker, wreq, ptp4l>> /\ haveRef'
    BY <1>2 DEF ChangeMode, Change
  <2> QED BY <2>1, <2>4, <2>5, DispatcherOpenStep
<1>3. ASSUME FirstSample PROVE IInv' /\ SentStep /\ FirstStep
  <2>1. StateTypes' BY <1>1, <1>3 DEF StateTypes, FirstSample
  <2>2. /\ phase = "open" /\ phase' = "open" /\ UNCHANGED <<worker, wreq, ptp4l>>
        /\ haveRef' /\ gm' = gm
    BY <1>3 DEF FirstSample
  <2>3. FirstStep BY <2>2 DEF FirstStep
  <2> QED BY <1>1, <2>1, <2>2, <2>3, DispatcherOpenStep
<1>4. ASSUME NEW lp \in Leaps, LeapSecond(lp)
      PROVE  IInv' /\ SentStep /\ FirstStep
  <2>1. StateTypes'
    BY <1>1, <1>4, BoundsAssumption DEF StateTypes, LeapSecond, Change
  <2>2. /\ gm' = GmUpdate(gm, mode, haveRef, lp)
        /\ Current' = [sync |-> SyncState(mode), leap |-> lp]
    BY <1>4 DEF LeapSecond, Current
  <2>3. mode \in Modes /\ haveRef \in BOOLEAN BY <1>1 DEF StateTypes
  <2>4. /\ Consistent(gm', worker, wreq, ptp4l)
        /\ gm'.lastAttempt # NoProps => haveRef
        /\ gm'.updateCh = gm.updateCh \/ gm'.updateCh = <<Current'>>
        /\ FirstStep
    BY <1>1, <2>2, <2>3, GmUpdateConsistent DEF FirstStep
  <2>5. /\ phase = "open" /\ phase' = "open" /\ UNCHANGED <<worker, wreq, ptp4l, haveRef>>
    BY <1>4 DEF LeapSecond, Change
  <2> QED BY <2>1, <2>4, <2>5, DispatcherOpenStep
<1>5. ASSUME NEW lp \in Leaps, RefAdvances(lp)
      PROVE  IInv' /\ SentStep /\ FirstStep
  <2>1. StateTypes'
    BY <1>1, <1>5, BoundsAssumption DEF StateTypes, RefAdvances, Change
  <2>2. /\ phase = "open" /\ phase' = "open" /\ UNCHANGED <<worker, wreq, ptp4l, haveRef>>
        /\ gm' = gm
    BY <1>5 DEF RefAdvances, Change
  <2>3. FirstStep BY <2>2 DEF FirstStep
  <2> QED BY <1>1, <2>1, <2>2, <2>3, DispatcherOpenStep
<1>6. ASSUME NEW elapsed \in BOOLEAN, Tick(elapsed)
      PROVE  IInv' /\ SentStep /\ FirstStep
  <2>1. StateTypes'
    BY <1>1, <1>6 DEF StateTypes, Tick
  <2>2. /\ gm' = GmRetry(gm, mode, haveRef, leap, elapsed)
        /\ Current' = [sync |-> SyncState(mode), leap |-> leap]
    BY <1>6 DEF Tick, Current
  <2>3. mode \in Modes /\ haveRef \in BOOLEAN /\ leap \in Leaps BY <1>1 DEF StateTypes
  <2>4. /\ Consistent(gm', worker, wreq, ptp4l)
        /\ gm'.lastAttempt = NoProps <=> gm.lastAttempt = NoProps
        /\ gm'.updateCh = gm.updateCh \/ gm'.updateCh = <<Current'>>
    BY <1>1, <2>2, <2>3, GmRetryConsistent
  <2>5. FirstStep BY <2>4 DEF FirstStep
  <2>6. /\ phase = "open" /\ phase' = "open" /\ UNCHANGED <<worker, wreq, ptp4l, haveRef>>
    BY <1>6 DEF Tick
  <2> QED BY <1>1, <2>1, <2>4, <2>5, <2>6, DispatcherOpenStep
<1>7. ASSUME NEW elapsed \in BOOLEAN, TickReset(elapsed)
      PROVE  IInv' /\ SentStep /\ FirstStep
  <2> DEFINE u == GmUpdate(gm, "reset", haveRef, leap)
  <2>1. StateTypes'
    BY <1>1, <1>7, BoundsAssumption DEF StateTypes, TickReset, Change, Modes
  <2>2. /\ gm' = GmRetry(u, "reset", haveRef, leap, elapsed)
        /\ Current' = [sync |-> SyncState("reset"), leap |-> leap]
    BY <1>7 DEF TickReset, Current
  <2>3. "reset" \in Modes /\ haveRef \in BOOLEAN /\ leap \in Leaps
    BY <1>1 DEF StateTypes, Modes
  <2>4. /\ Consistent(u, worker, wreq, ptp4l)
        /\ u.lastAttempt # NoProps => haveRef
        /\ u.updateCh = gm.updateCh \/ u.updateCh = <<Current'>>
        /\ (gm.lastAttempt = NoProps /\ u.lastAttempt # NoProps)
             => u.lastAttempt.sync = "InSync"
    BY <1>1, <2>2, <2>3, GmUpdateConsistent
  <2>5. gm.lastAttempt = NoProps => u.lastAttempt = NoProps
    BY DEF GmUpdate, Update, SyncState, HandleResponse
  <2> HIDE DEF u
  <2>6. /\ Consistent(gm', worker, wreq, ptp4l)
        /\ gm'.lastAttempt = NoProps <=> u.lastAttempt = NoProps
        /\ gm'.updateCh = u.updateCh \/ gm'.updateCh = <<Current'>>
    BY <2>2, <2>3, <2>4, GmRetryConsistent
  <2>7. FirstStep BY <2>5, <2>6 DEF FirstStep
  <2>8. /\ phase = "open" /\ phase' = "open" /\ UNCHANGED <<worker, wreq, ptp4l, haveRef>>
    BY <1>7 DEF TickReset, Change
  <2> QED BY <2>1, <2>4, <2>6, <2>7, <2>8, DispatcherOpenStep
<1> QED BY <1>2, <1>3, <1>4, <1>5, <1>6, <1>7

LEMMA ResetIsNoSync == SyncState("reset") = "NoSync"
BY DEF SyncState

\* Close sends what is current, and leaves nothing to be sent.
LEMMA CloseStep ==
  ASSUME IInv, CloseBegin \/ CloseEnd
  PROVE  IInv' /\ SentStep /\ FirstStep
<1>1. /\ StateTypes /\ Consistent(gm, worker, wreq, ptp4l)
      /\ gm.lastAttempt # NoProps => haveRef
  BY DEF IInv, CloseInv
<1>2. Head(<<Current'>>) = Current' OBVIOUS
<1>3. CASE CloseBegin
  <2> DEFINE g == GmUpdate(gm, "reset", haveRef, leap)
  <2>1. StateTypes'
    BY <1>1, <1>3 DEF StateTypes, CloseBegin, Modes
  <2>2. /\ Current' = [sync |-> SyncState("reset"), leap |-> leap]
        /\ phase = "open" /\ mode' = "reset" /\ UNCHANGED <<worker, wreq, ptp4l, haveRef>>
    BY <1>3 DEF CloseBegin, Current
  <2>3. "reset" \in Modes /\ haveRef \in BOOLEAN /\ leap \in Leaps
    BY <1>1 DEF StateTypes, Modes
  <2>4. /\ Consistent(g, worker, wreq, ptp4l)
        /\ g.lastAttempt # NoProps => haveRef /\ g.target = Current'
        /\ g.updateCh = gm.updateCh \/ g.updateCh = <<Current'>>
    BY <1>1, <2>2, <2>3, GmUpdateConsistent
  <2>5. gm.lastAttempt = NoProps => g.lastAttempt = NoProps
    BY DEF GmUpdate, Update, SyncState, HandleResponse
  <2>6. \/ g.respCh # "nil" /\ g.target # g.lastAttempt /\ gm' = g /\ phase' = "closing"
        \/ g.respCh # "nil" /\ g.target = g.lastAttempt /\ gm' = g /\ phase' = "closed"
        \/ g.respCh = "nil" /\ gm' = Retry(g) /\ phase' = "closed"
    BY <1>3 DEF CloseBegin
  <2> HIDE DEF g
  <2>7. /\ Consistent(Retry(g), worker, wreq, ptp4l)
        /\ Retry(g).target = g.target
        /\ Retry(g).lastAttempt = NoProps <=> g.lastAttempt = NoProps
        /\ Retry(g).updateCh = g.updateCh \/ Retry(g).updateCh = <<g.target>>
        /\ g.respCh = "nil" =>
             Retry(g).lastAttempt = NoProps \/ Retry(g).target = Retry(g).lastAttempt
    BY <2>4, RetryConsistent
  <2>8. g.lastAttempt = NoProps => Retry(g) = g
    BY DEF Retry, NeedsUpdate
  <2>9. /\ Consistent(gm', worker, wreq, ptp4l)
        /\ gm'.lastAttempt # NoProps => haveRef /\ gm'.target = Current'
        /\ gm'.updateCh = gm.updateCh \/ gm'.updateCh = <<Current'>>
        /\ gm.lastAttempt = NoProps => gm'.lastAttempt = NoProps
        /\ phase' = "closed" => gm'.lastAttempt = NoProps \/ gm'.target = gm'.lastAttempt
    BY <2>4, <2>5, <2>6, <2>7, <2>8
  <2>10. worker # "exited" BY <2>2 DEF IInv, CloseInv
  <2>11. Consistent(gm, worker, wreq, ptp4l)' BY <2>2, <2>9 DEF Consistent
  <2>12. CloseInv' BY <2>2, <2>9, <2>10 DEF CloseInv
  <2>13. SentStep BY <1>2, <2>9 DEF SentStep
  <2>14. FirstStep BY <2>9 DEF FirstStep
  <2> QED BY <2>1, <2>11, <2>12, <2>13, <2>14 DEF IInv
<1>4. CASE CloseEnd
  <2> DEFINE h == HandleResponse(gm)
  <2>1. StateTypes'
    BY <1>1, <1>4 DEF StateTypes, CloseEnd
  <2>2. /\ phase = "closing" /\ phase' = "closed" /\ gm.respCh \in {"ok", "failed"}
        /\ gm' = Retry(h) /\ UNCHANGED <<mode, leap, worker, wreq, ptp4l, haveRef>>
    BY <1>4 DEF CloseEnd
  <2>3. Current' = Current BY <2>2 DEF Current
  <2>4. mode = "reset" /\ (gm.lastAttempt = NoProps \/ gm.target = Current)
    BY <2>2 DEF IInv, CloseInv
  <2>5. /\ Consistent(h, worker, wreq, ptp4l) /\ h.respCh = "nil"
        /\ h.target = gm.target /\ h.lastAttempt = gm.lastAttempt /\ h.updateCh = gm.updateCh
    BY <1>1, <2>2, HandleResponseConsistent
  <2> HIDE DEF h
  <2>6. /\ Consistent(gm', worker, wreq, ptp4l)
        /\ gm'.target = gm.target
        /\ gm'.lastAttempt = NoProps <=> gm.lastAttempt = NoProps
        /\ gm'.updateCh = gm.updateCh \/ gm'.updateCh = <<gm.target>>
        /\ gm'.lastAttempt = NoProps \/ gm'.target = gm'.lastAttempt
    BY <2>2, <2>5, RetryConsistent
  <2>7. gm.lastAttempt = NoProps => gm'.updateCh = gm.updateCh
    BY <2>2, <2>5 DEF Retry, NeedsUpdate
  <2>8. worker # "exited" BY <2>2 DEF IInv, CloseInv
  <2>9. Consistent(gm, worker, wreq, ptp4l)' BY <2>2, <2>6 DEF Consistent
  <2>10. CloseInv' BY <1>1, <2>2, <2>3, <2>4, <2>6, <2>8 DEF CloseInv
  <2>11. SentStep BY <1>2, <2>3, <2>4, <2>6, <2>7 DEF SentStep
  <2>12. FirstStep BY <2>6 DEF FirstStep
  <2> QED BY <2>1, <2>9, <2>10, <2>11, <2>12 DEF IInv
<1> QED BY <1>3, <1>4

\* The worker sends nothing and changes nothing but the channels.
LEMMA WorkerStep ==
  ASSUME IInv, Worker
  PROVE  IInv' /\ SentStep /\ FirstStep
<1>1. /\ StateTypes /\ Consistent(gm, worker, wreq, ptp4l) /\ CloseInv /\ gm \in GM
  BY DEF IInv, Consistent
<1>2. CASE WorkerTake
  <2>1. /\ worker = "idle" /\ worker' = "busy" /\ gm.updateCh = <<gm.lastAttempt>>
        /\ wreq' = Head(gm.updateCh) /\ gm' = [gm EXCEPT !.updateCh = Tail(gm.updateCh)]
        /\ UNCHANGED <<mode, haveRef, leap, phase, ptp4l, changes, failures>>
    BY <1>1, <1>2 DEF WorkerTake, Consistent
  <2>2. wreq' = gm.lastAttempt /\ Tail(gm.updateCh) = <<>>
    BY <2>1
  <2>3. <<>> \in Seq(Props) OBVIOUS
  <2>4. /\ gm' \in GM /\ gm'.target = gm.target /\ gm'.lastAttempt = gm.lastAttempt
        /\ gm'.status = gm.status /\ gm'.respCh = gm.respCh /\ gm'.updateCh = <<>>
    BY <1>1, <2>1, <2>2, <2>3 DEF GM
  <2>5. gm.lastAttempt \in Props \cup {NoProps} BY <1>1 DEF GM
  <2>6. StateTypes' BY <1>1, <2>1, <2>2, <2>5 DEF StateTypes
  <2>7. gm.updateCh # <<>> BY <2>1
  <2>8. Consistent(gm, worker, wreq, ptp4l)'
    BY <1>1, <2>1, <2>2, <2>4, <2>7 DEF Consistent
  <2>9. CloseInv' BY <1>1, <2>1, <2>4 DEF CloseInv, Current
  <2>10. SentStep /\ FirstStep BY <2>4 DEF SentStep, FirstStep
  <2> QED BY <2>6, <2>8, <2>9, <2>10 DEF IInv
<1>3. CASE WorkerSucceed
  <2>1. /\ worker = "busy" /\ worker' = "idle" /\ ptp4l' = wreq
        /\ gm' = [gm EXCEPT !.respCh = "ok"]
        /\ UNCHANGED <<mode, haveRef, leap, phase, wreq, changes, failures>>
    BY <1>3 DEF WorkerSucceed
  <2>2. /\ gm' \in GM /\ gm'.target = gm.target /\ gm'.lastAttempt = gm.lastAttempt
        /\ gm'.status = gm.status /\ gm'.respCh = "ok" /\ gm'.updateCh = gm.updateCh
    BY <1>1, <2>1 DEF GM
  <2>3. StateTypes' BY <1>1, <2>1 DEF StateTypes
  <2>4. Consistent(gm, worker, wreq, ptp4l)'
    BY <1>1, <2>1, <2>2 DEF Consistent
  <2>5. CloseInv' BY <1>1, <2>1, <2>2 DEF CloseInv, Current
  <2>6. SentStep /\ FirstStep BY <2>2 DEF SentStep, FirstStep
  <2> QED BY <2>3, <2>4, <2>5, <2>6 DEF IInv
<1>4. CASE WorkerFail
  <2>1. /\ worker = "busy" /\ worker' = "idle" /\ ptp4l' \in {ptp4l, wreq}
        /\ gm' = [gm EXCEPT !.respCh = "failed"]
        /\ UNCHANGED <<mode, haveRef, leap, phase, wreq, changes>>
    BY <1>4 DEF WorkerFail
  <2>2. /\ gm' \in GM /\ gm'.target = gm.target /\ gm'.lastAttempt = gm.lastAttempt
        /\ gm'.status = gm.status /\ gm'.respCh = "failed" /\ gm'.updateCh = gm.updateCh
    BY <1>1, <2>1 DEF GM
  <2>3. failures' \in 0 .. MaxFailures
    BY <1>1, <1>4, BoundsAssumption DEF StateTypes, WorkerFail
  <2>4. StateTypes' BY <1>1, <2>1, <2>3 DEF StateTypes
  <2>5. Consistent(gm, worker, wreq, ptp4l)'
    BY <1>1, <2>1, <2>2 DEF Consistent
  <2>6. CloseInv' BY <1>1, <2>1, <2>2 DEF CloseInv, Current
  <2>7. SentStep /\ FirstStep BY <2>2 DEF SentStep, FirstStep
  <2> QED BY <2>4, <2>5, <2>6, <2>7 DEF IInv
<1>5. CASE WorkerExit
  <2>1. /\ worker = "idle" /\ worker' = "exited" /\ gm.updateCh = <<>> /\ phase = "closed"
        /\ UNCHANGED <<mode, haveRef, leap, phase, gm, wreq, ptp4l, changes, failures>>
    BY <1>5 DEF WorkerExit
  <2>2. StateTypes' BY <1>1, <2>1 DEF StateTypes
  <2>3. Consistent(gm, worker, wreq, ptp4l)' BY <1>1, <2>1 DEF Consistent
  <2>4. CloseInv' BY <1>1, <2>1 DEF CloseInv, Current
  <2>5. SentStep /\ FirstStep BY <2>1 DEF SentStep, FirstStep
  <2> QED BY <2>2, <2>3, <2>4, <2>5 DEF IInv
<1> QED BY <1>2, <1>3, <1>4, <1>5 DEF Worker

LEMMA StepIInv == IInv /\ [Next]_vars => IInv' /\ SentStep /\ FirstStep
<1> SUFFICES ASSUME IInv, [Next]_vars PROVE IInv' /\ SentStep /\ FirstStep
  OBVIOUS
<1>1. CASE Dispatcher BY <1>1, DispatcherOpen, CloseStep DEF Dispatcher
<1>2. CASE Worker BY <1>2, WorkerStep
<1>3. CASE UNCHANGED vars
  <2>1. StateTypes' BY <1>3 DEF IInv, StateTypes, vars
  <2>2. Consistent(gm, worker, wreq, ptp4l)' BY <1>3 DEF IInv, Consistent, vars
  <2>3. CloseInv' BY <1>3 DEF IInv, CloseInv, Current, vars
  <2>4. SentStep /\ FirstStep BY <1>3 DEF SentStep, FirstStep, vars
  <2> QED BY <2>1, <2>2, <2>3, <2>4 DEF IInv
<1> QED BY <1>1, <1>2, <1>3 DEF Next, Finished

\* The invariant holds in every reachable state.
THEOREM Invariance == Spec => []IInv
<1>1. IInv /\ [Next]_vars => IInv' BY StepIInv
<1> QED BY <1>1, InitIInv, PTL DEF Spec

-----------------------------------------------------------------------------
\* Every variable keeps its type.
THEOREM TypeCorrect == Spec => []TypeOK
<1>1. IInv => TypeOK
  BY DEF IInv, StateTypes, Consistent, TypeOK
<1> QED BY <1>1, Invariance, PTL

\* send never panics on a full updateCh (gm.go:142), however changes, ticks,
\* failures and Close interleave with the worker.
THEOREM SendNeverPanics == Spec => []OneInFlight
<1>1. IInv => OneInFlight
  <2> SUFFICES ASSUME IInv PROVE OneInFlight
    OBVIOUS
  <2>1. gm.updateCh = <<>> \/ gm.updateCh = <<gm.lastAttempt>>
    BY DEF IInv, Consistent
  <2>2. Len(gm.updateCh) <= 1
    <3>1. CASE gm.updateCh = <<>>
      <4>1. Len(<<>>) = 0 OBVIOUS
      <4> QED BY <3>1, <4>1
    <3>2. CASE gm.updateCh = <<gm.lastAttempt>>
      <4>1. Len(<<gm.lastAttempt>>) = 1 OBVIOUS
      <4> QED BY <3>2, <4>1
    <3> QED BY <2>1, <3>1, <3>2
  <2> QED BY <2>2 DEF IInv, Consistent, OneInFlight
<1> QED BY <1>1, Invariance, PTL

\* The Grandmaster stops retrying only when ptp4l has the settings.
THEOREM ConfirmationIsTrue == Spec => []ConfirmedInEffect
<1>1. IInv => ConfirmedInEffect
  BY DEF IInv, Consistent, ConfirmedInEffect
<1> QED BY <1>1, Invariance, PTL

\* The last request performed before the worker exits says NoSync.
THEOREM LeavesNoSync == Spec => []NoSyncAtExit
<1>1. IInv => NoSyncAtExit
  <2> SUFFICES ASSUME IInv, worker = "exited", wreq # NoProps
               PROVE  wreq = gm.target /\ wreq.sync = "NoSync"
    BY DEF NoSyncAtExit
  <2>1. wreq = gm.lastAttempt /\ gm.target = gm.lastAttempt /\ gm.target = Current
        /\ mode = "reset"
    BY DEF IInv, CloseInv, Consistent
  <2> QED BY <2>1, ResetIsNoSync DEF Current
<1> QED BY <1>1, Invariance, PTL

\* No request is out of date when it is handed to the worker.
THEOREM RequestsAreCurrent == Spec => SentIsCurrent
<1>1. IInv /\ [Next]_vars =>
        [(gm.updateCh = <<>> /\ gm'.updateCh # <<>>)
           => Head(gm'.updateCh) = [sync |-> SyncState(mode'), leap |-> leap']]_vars
  BY StepIInv DEF SentStep, Current
<1> QED BY <1>1, Invariance, PTL DEF Spec, SentIsCurrent

\* Nothing is sent before the first InSync.
THEOREM InSyncComesFirst == Spec => InSyncFirst
<1>1. IInv /\ [Next]_vars =>
        [(gm.lastAttempt = NoProps /\ gm'.lastAttempt # NoProps)
           => gm'.lastAttempt.sync = "InSync"]_vars
  BY StepIInv DEF FirstStep
<1> QED BY <1>1, Invariance, PTL DEF Spec, InSyncFirst
=============================================================================
