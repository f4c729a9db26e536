--------------------------- MODULE SessionProofs ---------------------------
(***************************************************************************)
(* Safety of the receiver session, for any number of callers, sends,       *)
(* corrections, calls and runs.                                            *)
(*                                                                         *)
(* No property is inductive, and each needs the ones before it.  The       *)
(* invariant is therefore a tower, one layer to a section:                 *)
(*                                                                         *)
(*   Typed    every field and place is of its type, and a goroutine that   *)
(*            emits a state knows where it goes on;                        *)
(*   Places   local variables go with the place a goroutine is at;         *)
(*   ConnInv  lifecycle calls have distinct numbers, a superseded one      *)
(*            waits or is waited for, contexts, run and state agree with   *)
(*            where the manager is, and every open transport is in         *)
(*            somebody's hands;                                            *)
(*   EmitInv  whoever publishes has the newest state or looks again;       *)
(*   CorrInv  a correction session is the current one or is waited for;    *)
(*   PortHeldByLiving  is inductive over the types;                        *)
(*   RunsInv  a transport that nobody has started a run on has a new       *)
(*            number;                                                      *)
(*   OpsInv   a run that is still being opened has no operation, and an    *)
(*            operation under way has the state to itself.                 *)
(*                                                                         *)
(* The first sections say of every action what it does to the fields that  *)
(* the layers read (a goroutine Moves, Emits, Returns; the calls, the run  *)
(* or the corrections stay the Same), so that a layer looks at few actions *)
(* in full.                                                                *)
(***************************************************************************)
EXTENDS Session, TLAPS

PCs == CallerPC \cup ManagerPC \cup CoordPC
Emitting == {"emit", "publish"}

\* Where a goroutine goes on after emitStateChange.
After(a) == IF a = Mgr THEN {"loop", "reopen", "idle"}
            ELSE IF a \in Sends THEN {"idle"}
            ELSE {"idle", "open", "request", "endOp", "spawn"}

Control ==
  /\ \A a \in Actors : pc[a] \in Emitting => ret[a] \in After(a)
  /\ \A a \in Actors : pc[a] = "publish" => event[a] \in States

\* A coordinator that is at a message has one.
Left == \A i \in Sends : pc[i] \in {"step", "reply"} => snd[i].left # 0

Typed == TypeOK /\ Control /\ Left

-----------------------------------------------------------------------------
(* What a step leaves alone. *)

SameState == s'.state = s.state /\ s'.seq = s.seq
SameRun   == s'.run = s.run /\ s'.runCtx = s.runCtx /\ s'.conn = s.conn
SameCalls == s'.gen = s.gen /\ s'.connCtx = s.connCtx
SameCorr  == s'.corrCancel = s.corrCancel /\ s'.corrStopping = s.corrStopping
             /\ s'.corrState = s.corrState
SameSends == \A i \in Sends : snd'[i].run = snd[i].run /\ snd'[i].worker = snd[i].worker
SameJobs  == m'.conn = m.conn /\ m'.req = m.req /\ m'.wg = m.wg
Others(p) == \A q \in Callers \ {p} : loc'[q] = loc[q]

Cancels(k) == \A j \in Corrs : /\ corr'[j].pc = corr[j].pc /\ corr'[j].run = corr[j].run
                                /\ corr'[j].ctx = IF j = k THEN "done" ELSE corr[j].ctx

Stay       == \A a \in Actors : At(a)' = At(a)
Move(a, l) == At(a)' = l /\ \A b \in Actors \ {a} : At(b)' = At(b)

\* What Goto, EmitThen and EmitReturn do.
GoesTo(a, l)    == Move(a, l) /\ pc'[a] = l /\ \A b \in Actors \ {a} : pc'[b] = pc[b]
EmitsThen(a, l) == Move(a, l) /\ pc'[a] = "emit" /\ \A b \in Actors \ {a} : pc'[b] = pc[b]
Returns(a)      == Stay /\ pc'[a] = ret[a] /\ pc'[a] \notin Emitting
                   /\ \A b \in Actors \ {a} : pc'[b] = pc[b]
TypedPC == pc' \in [Actors -> PCs] /\ ret' \in [Actors -> PCs]

LEMMA Constants ==
  /\ Mgr \in Actors /\ Callers \subseteq Actors /\ Sends \subseteq Actors
  /\ \A p \in Callers : p # Mgr /\ p \notin Sends /\ p # None
  /\ \A i \in Sends : i # Mgr /\ i \notin Callers /\ i # None
  /\ \A k \in Corrs : k # None
  /\ Mgr # None
  /\ MaxRuns \in Nat /\ MaxCalls \in Nat /\ Msgs \in Nat \ {0} /\ MaxWrites \in Nat
  /\ MaxReopenAttempts \in Nat \ {0}
  /\ 0 \in 0 .. MaxRuns /\ 0 \in 0 .. MaxCalls /\ 0 \in 0 .. Msgs /\ 0 \in 0 .. MaxWrites
  /\ 0 \in 0 .. MaxReopenAttempts - 1
  /\ Runs \subseteq 0 .. MaxRuns /\ 0 \notin Runs
  BY ParamsAssumption DEF ParamsAssumption, Actors, Runs

LEMMA GotoEffect ==
  ASSUME Typed, NEW a \in Actors, NEW l \in PCs \ Emitting, Goto(a, l)
  PROVE  /\ GoesTo(a, l) /\ ret' = ret /\ TypedPC
         /\ event' = event => Control'
  <1>1. /\ Move(a, l) /\ ret' = ret /\ pc'[a] = l /\ TypedPC
        /\ \A b \in Actors \ {a} : pc'[b] = pc[b]
    BY DEF Typed, TypeOK, PCs, Goto, Move, At, Emitting, TypedPC
  <1> QED BY <1>1 DEF Typed, Control, GoesTo, Emitting

LEMMA EmitThenEffect ==
  ASSUME Typed, NEW a \in Actors, NEW l \in PCs \ Emitting, EmitThen(a, l)
  PROVE  /\ EmitsThen(a, l) /\ TypedPC
         /\ event' = event /\ l \in After(a) => Control'
  <1>1. "emit" \in PCs BY DEF PCs, CallerPC
  <1>2. /\ Move(a, l) /\ pc'[a] = "emit" /\ ret'[a] = l /\ TypedPC
        /\ \A b \in Actors \ {a} : pc'[b] = pc[b] /\ ret'[b] = ret[b]
    BY <1>1 DEF Typed, TypeOK, PCs, EmitThen, Move, At, Emitting, TypedPC
  <1>3. ASSUME event' = event, l \in After(a) PROVE Control'
    <2>1. \A b \in Actors : After(b)' = After(b) BY DEF After
    <2> QED BY <1>2, <1>3, <2>1 DEF Typed, Control, Emitting
  <1> QED BY <1>2, <1>3 DEF EmitsThen

LEMMA EmitReturnEffect ==
  ASSUME Typed, NEW a \in Actors, pc[a] \in Emitting, EmitReturn(a)
  PROVE  /\ Returns(a) /\ TypedPC /\ ret[a] \in After(a)
         /\ (\A b \in Actors \ {a} : event'[b] = event[b]) => Control'
  <1>1. "idle" \in PCs BY DEF PCs, CallerPC
  <1>2. ret[a] \notin Emitting /\ ret[a] \in After(a) BY DEF Typed, Control, After, Emitting
  <1>3. /\ Stay /\ pc'[a] = ret[a] /\ ret'[a] = "idle" /\ TypedPC
        /\ \A b \in Actors \ {a} : pc'[b] = pc[b] /\ ret'[b] = ret[b]
    BY <1>1, <1>2 DEF Typed, TypeOK, PCs, EmitReturn, Stay, At, Emitting, TypedPC
  <1>4. \A b \in Actors : After(b)' = After(b) BY DEF After
  <1> QED BY <1>2, <1>3, <1>4 DEF Typed, Control, Returns, Emitting

LEMMA LeftKept ==
  ASSUME Typed, \A i \in Sends : snd'[i].left = snd[i].left,
         \A i \in Sends : pc'[i] = pc[i] \/ pc'[i] \notin {"step", "reply"}
  PROVE  Left'
  BY DEF Typed, Left

LEMMA SetStateEffect ==
  ASSUME NEW x \in SessionType, NEW st \in States, NEW y, y = setStateLocked(x, st)
  PROVE  /\ y \in SessionType /\ y.state = st /\ y.seq = "new"
         /\ y.gen = x.gen /\ y.connCtx = x.connCtx
         /\ y.run = x.run /\ y.runCtx = x.runCtx /\ y.conn = x.conn /\ y.pipe = x.pipe
         /\ y.corrCancel = x.corrCancel /\ y.corrStopping = x.corrStopping
         /\ y.corrState = x.corrState
  BY DEF SessionType, setStateLocked

LEMMA StopCorrEffect ==
  ASSUME NEW x \in SessionType, NEW y, y = stopCorrLocked(x)
  PROVE  /\ y \in SessionType /\ y.state = x.state /\ y.seq = x.seq
         /\ y.gen = x.gen /\ y.connCtx = x.connCtx
         /\ y.run = x.run /\ y.runCtx = x.runCtx /\ y.conn = x.conn /\ y.pipe = x.pipe
         /\ y.corrCancel = None
         /\ y.corrStopping = IF x.corrCancel = None THEN x.corrStopping ELSE "yes"
         /\ y.corrState = IF x.corrCancel = None THEN "stopped" ELSE x.corrState
  BY DEF SessionType, stopCorrLocked

LEMMA CancelEffect ==
  ASSUME Typed, NEW f \in [Sends -> SendType],
         NEW g, g \in {cancelWorkerLocked(f), cancelSend(f), cancelWorkerLocked(cancelSend(f))}
  PROVE  /\ g \in [Sends -> SendType]
         /\ \A i \in Sends : /\ g[i].run = f[i].run /\ g[i].worker = f[i].worker
                             /\ g[i].left = f[i].left
  <1> DEFINE Like(h) == /\ h \in [Sends -> SendType]
                        /\ \A i \in Sends : /\ h[i].run = f[i].run /\ h[i].worker = f[i].worker
                                            /\ h[i].left = f[i].left
  <1>1. ASSUME NEW h, Like(h) PROVE Like(cancelWorkerLocked(h))
    <2>1. \A i \in Sends : LET z == [h[i] EXCEPT !.workerCtx = "done"]
                           IN  /\ z \in SendType /\ z.run = h[i].run /\ z.worker = h[i].worker
                               /\ z.left = h[i].left
      BY <1>1 DEF SendType
    <2> QED BY <1>1, <2>1 DEF cancelWorkerLocked
  <1>2. ASSUME NEW h, Like(h) PROVE Like(cancelSend(h))
    <2>1. \A i \in Sends : LET z == [h[i] EXCEPT !.sendCtx = "done"]
                           IN  /\ z \in SendType /\ z.run = h[i].run /\ z.worker = h[i].worker
                               /\ z.left = h[i].left
      BY <1>2 DEF SendType
    <2> QED BY <1>2, <2>1 DEF cancelSend
  <1>3. Like(f) OBVIOUS
  <1> HIDE DEF Like
  <1>4. Like(cancelSend(f)) BY <1>2, <1>3
  <1>5. Like(g) BY <1>1, <1>3, <1>4
  <1> QED BY <1>5 DEF Like

LEMMA CancelCorrEffect ==
  ASSUME Typed, NEW k
  PROVE  /\ CancelCorr(k) \in [Corrs -> CorrType]
         /\ corr' = CancelCorr(k) => Cancels(k)
  <1>1. \A j \in Corrs : LET z == [corr[j] EXCEPT !.ctx = "done"]
                         IN  /\ z \in CorrType /\ z.pc = corr[j].pc /\ z.run = corr[j].run
                             /\ z.ctx = "done" /\ corr[j] \in CorrType
    BY DEF Typed, TypeOK, CorrType
  <1> QED BY <1>1 DEF CancelCorr, Cancels

-----------------------------------------------------------------------------
(* The steps of Connect and Disconnect, field by field. *)

LEMMA ReserveEffect ==
  ASSUME Typed, NEW p \in Callers, NEW c \in {"connect", "disconnect"}, reserveLifecycle(p, c)
  PROVE  /\ Typed' /\ pc[p] = "idle" /\ GoesTo(p, "lock")
         /\ SameState /\ SameRun /\ SameCorr /\ s'.gen = s.gen + 1 /\ s'.connCtx = s.connCtx
         /\ loc'[p].call = c /\ loc'[p].gen = s.gen + 1 /\ loc'[p].run = loc[p].run
         /\ loc'[p].slot = loc[p].slot /\ loc'[p].wg = loc[p].wg /\ Others(p)
         /\ last' = c /\ s.gen \in Nat
         /\ UNCHANGED <<m, snd, corr, emitVars, lifecycle, envVars, port>>
  <1>1. /\ pc[p] = "idle" /\ s.gen + ops < MaxCalls /\ s' = [s EXCEPT !.gen = s.gen + 1]
        /\ loc' = [loc EXCEPT ![p].call = c, ![p].gen = s.gen + 1]
        /\ last' = c /\ Goto(p, "lock")
        /\ UNCHANGED <<m, snd, corr, emitVars, lifecycle, envVars, port, ops>>
    BY DEF reserveLifecycle, MayCall
  <1>2. s.gen + 1 \in 0 .. MaxCalls /\ s.gen \in Nat
    BY <1>1, Constants DEF Typed, TypeOK, SessionType
  <1>3. /\ s' \in SessionType /\ SameState /\ SameRun /\ SameCorr
        /\ s'.gen = s.gen + 1 /\ s'.connCtx = s.connCtx
    BY ONLY Typed, <1>1, <1>2 DEF Typed, TypeOK, SessionType, SameState, SameRun, SameCorr
  <1>4. /\ loc' \in [Callers -> LocalType] /\ loc'[p].call = c /\ loc'[p].gen = s.gen + 1
        /\ loc'[p].run = loc[p].run /\ loc'[p].slot = loc[p].slot /\ loc'[p].wg = loc[p].wg
        /\ Others(p)
    <2> DEFINE n == [[loc[p] EXCEPT !.call = c] EXCEPT !.gen = s.gen + 1]
    <2>1. loc \in [Callers -> LocalType] BY DEF Typed, TypeOK
    <2>2. loc' = [loc EXCEPT ![p] = n] BY ONLY <1>1, <2>1 DEF LocalType
    <2>3. /\ n \in LocalType /\ n.call = c /\ n.gen = s.gen + 1
          /\ n.run = loc[p].run /\ n.slot = loc[p].slot /\ n.wg = loc[p].wg
      BY ONLY <1>2, <2>1 DEF LocalType
    <2> HIDE DEF n
    <2> QED BY ONLY <2>1, <2>2, <2>3 DEF Others
  <1>5. p \in Actors /\ "lock" \in PCs \ Emitting
    BY Constants DEF PCs, CallerPC, Emitting
  <1>6. GoesTo(p, "lock") /\ TypedPC /\ Control'
    BY <1>1, <1>5, GotoEffect DEF emitVars
  <1>7. Left' BY <1>1, <1>6, LeftKept, Constants DEF GoesTo
  <1>8. TypeOK'
    BY <1>1, <1>3, <1>4, <1>6 DEF Typed, TypeOK, TypedPC, PCs, emitVars, envVars
  <1> QED BY <1>1, <1>2, <1>3, <1>4, <1>6, <1>7, <1>8 DEF Typed

LEMMA IdleLocalType ==
  /\ IdleLocal \in LocalType /\ IdleLocal.call = "none" /\ IdleLocal.run = 0
  /\ IdleLocal.gen = 0 /\ IdleLocal.wg = None /\ IdleLocal.slot = None
  BY Constants DEF IdleLocal, LocalType

LEMMA ReturnEffect ==
  ASSUME Typed, NEW p \in Callers, Return(p)
  PROVE  /\ GoesTo(p, "idle") /\ TypedPC /\ (event' = event => Control')
         /\ loc' \in [Callers -> LocalType] /\ loc'[p] = IdleLocal /\ Others(p)
  <1>1. Goto(p, "idle") /\ loc' = [loc EXCEPT ![p] = IdleLocal] BY DEF Return, Goto
  <1>2. p \in Actors /\ "idle" \in PCs \ Emitting BY Constants DEF PCs, CallerPC, Emitting
  <1>3. loc' \in [Callers -> LocalType] /\ loc'[p] = IdleLocal /\ Others(p)
    BY <1>1, IdleLocalType DEF Typed, TypeOK, Others
  <1> QED BY <1>1, <1>2, <1>3, GotoEffect

LEMMA CloseEffect ==
  ASSUME Typed, NEW p \in Callers, closeLocked(p)
  PROVE  /\ s' \in SessionType /\ s'.state = "disconnected" /\ s'.seq = "new"
         /\ SameRun /\ s'.gen = s.gen
         /\ s'.connCtx = IF s.connCtx = "live" THEN "done" ELSE s.connCtx
         /\ s'.corrCancel = None
         /\ s'.corrStopping = IF s.corrCancel = None THEN s.corrStopping ELSE "yes"
         /\ s'.corrState = IF s.corrCancel = None THEN "stopped" ELSE s.corrState
  <1> DEFINE w == [s EXCEPT !.sendCancel = None, !.workerCancel = None,
                            !.connCtx = IF s.connCtx = "live" THEN "done" ELSE s.connCtx]
             x == setStateLocked(w, "disconnected")
             y == stopCorrLocked(x)
  <1>1. s' = IF s.corrCancel = None THEN [y EXCEPT !.pipe = 0] ELSE y BY DEF closeLocked
  <1>2. /\ w \in SessionType /\ w.gen = s.gen /\ w.run = s.run /\ w.runCtx = s.runCtx
        /\ w.conn = s.conn /\ w.corrCancel = s.corrCancel /\ w.corrStopping = s.corrStopping
        /\ w.corrState = s.corrState
        /\ w.connCtx = IF s.connCtx = "live" THEN "done" ELSE s.connCtx
    BY DEF Typed, TypeOK, SessionType
  <1> HIDE DEF w
  <1>3. "disconnected" \in States BY DEF States
  <1>4. /\ x \in SessionType /\ x.state = "disconnected" /\ x.seq = "new"
        /\ x.gen = w.gen /\ x.connCtx = w.connCtx
        /\ x.run = w.run /\ x.runCtx = w.runCtx /\ x.conn = w.conn
        /\ x.corrCancel = w.corrCancel /\ x.corrStopping = w.corrStopping
        /\ x.corrState = w.corrState
    BY <1>2, <1>3, SetStateEffect
  <1> HIDE DEF x
  <1>5. /\ y \in SessionType /\ y.state = x.state /\ y.seq = x.seq
        /\ y.gen = x.gen /\ y.connCtx = x.connCtx
        /\ y.run = x.run /\ y.runCtx = x.runCtx /\ y.conn = x.conn
        /\ y.corrCancel = None
        /\ y.corrStopping = IF x.corrCancel = None THEN x.corrStopping ELSE "yes"
        /\ y.corrState = IF x.corrCancel = None THEN "stopped" ELSE x.corrState
    BY <1>4, StopCorrEffect
  <1> HIDE DEF y
  <1>6. /\ s' \in SessionType /\ s'.state = y.state /\ s'.seq = y.seq
        /\ s'.gen = y.gen /\ s'.connCtx = y.connCtx
        /\ s'.run = y.run /\ s'.runCtx = y.runCtx /\ s'.conn = y.conn
        /\ s'.corrCancel = y.corrCancel /\ s'.corrStopping = y.corrStopping
        /\ s'.corrState = y.corrState
    BY <1>1, <1>5, Constants DEF SessionType
  <1> QED BY <1>2, <1>4, <1>5, <1>6 DEF SameRun

LEMMA BeginEffect ==
  ASSUME Typed, NEW p \in Callers, beginLifecycle(p)
  PROVE  /\ Typed' /\ pc[p] = "lock" /\ lifecycle = None
         /\ \/ /\ Superseded(p) /\ GoesTo(p, "idle") /\ loc'[p] = IdleLocal /\ Others(p)
               /\ UNCHANGED <<s, snd, corr, lifecycle>>
            \/ /\ ~Superseded(p) /\ lifecycle' = p
               /\ s'.state = "disconnected" /\ s'.seq = "new" /\ SameRun /\ s'.gen = s.gen
               /\ s'.connCtx = IF s.connCtx = "live" THEN "done" ELSE s.connCtx
               /\ s'.corrCancel = None
               /\ SameSends /\ Cancels(s.corrCancel)
               /\ \/ /\ s.corrCancel = None /\ s'.corrStopping = s.corrStopping
                     /\ s'.corrState = "stopped" /\ GoesTo(p, "closeWait") /\ UNCHANGED loc
                  \/ /\ s.corrCancel # None /\ s'.corrStopping = "yes"
                     /\ s'.corrState = s.corrState /\ GoesTo(p, "closeCorr")
                     /\ loc'[p].call = loc[p].call /\ loc'[p].gen = loc[p].gen
                     /\ loc'[p].run = loc[p].run /\ loc'[p].slot = loc[p].slot
                     /\ loc'[p].wg = s.corrCancel /\ Others(p)
         /\ UNCHANGED <<m, emitVars, envVars, port, last>>
  <1>1. /\ pc[p] = "lock" /\ lifecycle = None
        /\ UNCHANGED <<m, emitVars, envVars, port, ops, last>>
    BY DEF beginLifecycle
  <1>2. p \in Actors /\ {"idle", "closeWait", "closeCorr"} \subseteq PCs \ Emitting
    BY Constants DEF PCs, CallerPC, Emitting
  <1>3. CASE Superseded(p)
    <2>1. Return(p) /\ UNCHANGED <<s, snd, corr, lifecycle>> BY <1>3 DEF beginLifecycle
    <2>2. /\ GoesTo(p, "idle") /\ TypedPC /\ Control'
          /\ loc' \in [Callers -> LocalType] /\ loc'[p] = IdleLocal /\ Others(p)
      BY <1>1, <2>1, ReturnEffect DEF emitVars
    <2>3. Left' BY <2>1, <2>2, LeftKept, Constants DEF GoesTo
    <2>4. TypeOK'
      BY <1>1, <2>1, <2>2 DEF Typed, TypeOK, TypedPC, PCs, emitVars, envVars
    <2> QED BY <1>1, <1>3, <2>1, <2>2, <2>3, <2>4 DEF Typed
  <1>4. CASE ~Superseded(p)
    <2>1. /\ closeLocked(p) /\ lifecycle' = p
          /\ snd' = cancelWorkerLocked(cancelSend(snd))
          /\ corr' = CancelCorr(s.corrCancel)
          /\ IF s.corrCancel = None
             THEN Goto(p, "closeWait") /\ UNCHANGED loc
             ELSE Goto(p, "closeCorr") /\ loc' = [loc EXCEPT ![p].wg = s.corrCancel]
      BY <1>4 DEF beginLifecycle, closeLocked
    <2>2. /\ snd' \in [Sends -> SendType] /\ SameSends
          /\ \A i \in Sends : snd'[i].left = snd[i].left
      <3>1. snd \in [Sends -> SendType] BY DEF Typed, TypeOK
      <3> QED BY <2>1, <3>1, CancelEffect DEF SameSends
    <2>3. corr' \in [Corrs -> CorrType] /\ Cancels(s.corrCancel) BY <2>1, CancelCorrEffect
    <2>4. CASE s.corrCancel = None
      <3>1. GoesTo(p, "closeWait") /\ TypedPC /\ Control'
        BY <1>1, <1>2, <2>1, <2>4, GotoEffect DEF emitVars
      <3>2. Left' BY <2>2, <3>1, LeftKept, Constants DEF GoesTo
      <3>3. TypeOK'
        BY <1>1, <2>1, <2>2, <2>3, <2>4, <3>1, CloseEffect
        DEF Typed, TypeOK, TypedPC, PCs, emitVars, envVars
      <3> QED BY <1>1, <1>4, <2>1, <2>2, <2>3, <2>4, <3>1, <3>2, <3>3, CloseEffect DEF Typed
    <2>5. CASE s.corrCancel # None
      <3>1. GoesTo(p, "closeCorr") /\ TypedPC /\ Control'
        BY <1>1, <1>2, <2>1, <2>5, GotoEffect DEF emitVars
      <3>2. Left' BY <2>2, <3>1, LeftKept, Constants DEF GoesTo
      <3>3. /\ loc' \in [Callers -> LocalType]
            /\ loc'[p].call = loc[p].call /\ loc'[p].gen = loc[p].gen
            /\ loc'[p].run = loc[p].run /\ loc'[p].slot = loc[p].slot
            /\ loc'[p].wg = s.corrCancel /\ Others(p)
        <4>1. s.corrCancel \in Corrs \cup {None} BY DEF Typed, TypeOK, SessionType
        <4> QED BY <2>1, <2>5, <4>1 DEF Typed, TypeOK, LocalType, Others
      <3>4. TypeOK'
        BY <1>1, <2>1, <2>2, <2>3, <2>5, <3>1, <3>3, CloseEffect
        DEF Typed, TypeOK, TypedPC, PCs, emitVars, envVars
      <3> QED
        BY <1>1, <1>4, <2>1, <2>2, <2>3, <2>5, <3>1, <3>2, <3>3, <3>4, CloseEffect DEF Typed
    <2> QED BY <2>4, <2>5
  <1> QED BY <1>3, <1>4

LEMMA CloseCorrEffect ==
  ASSUME Typed, NEW p \in Callers, closeCorr(p)
  PROVE  /\ Typed' /\ pc[p] = "closeCorr" /\ CorrDone(loc[p].wg) /\ GoesTo(p, "closeWait")
         /\ SameState /\ SameRun /\ SameCalls
         /\ s'.corrCancel = s.corrCancel /\ s'.corrState = s.corrState /\ s'.corrStopping = "no"
         /\ loc'[p].call = loc[p].call /\ loc'[p].gen = loc[p].gen
         /\ loc'[p].run = loc[p].run /\ loc'[p].slot = loc[p].slot
         /\ loc'[p].wg = None /\ Others(p)
         /\ UNCHANGED <<m, snd, corr, emitVars, lifecycle, envVars, port, last>>
  <1>1. /\ pc[p] = "closeCorr" /\ CorrDone(loc[p].wg) /\ Goto(p, "closeWait")
        /\ s' = [s EXCEPT !.corrStopping = "no", !.pipe = 0]
        /\ loc' = [loc EXCEPT ![p].wg = None]
        /\ UNCHANGED <<m, snd, corr, emitVars, lifecycle, envVars, port, ops, last>>
    BY DEF closeCorr
  <1>2. p \in Actors /\ "closeWait" \in PCs \ Emitting
    BY Constants DEF PCs, CallerPC, Emitting
  <1>3. GoesTo(p, "closeWait") /\ TypedPC /\ Control'
    BY <1>1, <1>2, GotoEffect DEF emitVars
  <1>4. Left' BY <1>1, <1>3, LeftKept, Constants DEF GoesTo
  <1>5. 0 \in 0 .. MaxRuns BY Constants
  <1>6. /\ s' \in SessionType /\ SameState /\ SameRun /\ SameCalls
        /\ s'.corrCancel = s.corrCancel /\ s'.corrState = s.corrState /\ s'.corrStopping = "no"
    BY ONLY Typed, <1>1, <1>5 DEF Typed, TypeOK, SessionType, SameState, SameRun, SameCalls
  <1>7. /\ loc' \in [Callers -> LocalType]
        /\ loc'[p].call = loc[p].call /\ loc'[p].gen = loc[p].gen
        /\ loc'[p].run = loc[p].run /\ loc'[p].slot = loc[p].slot
        /\ loc'[p].wg = None /\ Others(p)
    BY ONLY Typed, <1>1 DEF Typed, TypeOK, LocalType, Others
  <1>8. TypeOK'
    BY <1>1, <1>3, <1>6, <1>7 DEF Typed, TypeOK, TypedPC, PCs, emitVars, envVars
  <1> QED BY <1>1, <1>3, <1>4, <1>6, <1>7, <1>8 DEF Typed

LEMMA CloseWaitEffect ==
  ASSUME Typed, NEW p \in Callers, closeWait(p)
  PROVE  /\ Typed' /\ pc[p] = "closeWait" /\ ConnWg = {}
         /\ open' = open \ {s.conn} /\ lifecycle' = None
         /\ s'.run = s.run /\ s'.runCtx = s.runCtx /\ s'.conn = 0 /\ SameCalls /\ SameCorr
         /\ \/ /\ Superseded(p) /\ GoesTo(p, "idle") /\ loc'[p] = IdleLocal /\ Others(p)
               /\ SameState
            \/ /\ ~Superseded(p) /\ loc[p].call = "connect" /\ EmitsThen(p, "open")
               /\ s'.state = "connecting" /\ s'.seq = "new" /\ UNCHANGED loc
            \/ /\ ~Superseded(p) /\ loc[p].call # "connect" /\ EmitsThen(p, "idle")
               /\ loc'[p] = IdleLocal /\ Others(p) /\ SameState
         /\ UNCHANGED <<m, snd, corr, emitVars, lost, opened, port, last>>
  <1>1. /\ pc[p] = "closeWait" /\ ConnWg = {} /\ open' = open \ {s.conn} /\ lifecycle' = None
        /\ UNCHANGED <<m, snd, corr, emitVars, lost, opened, port, ops, last>>
    BY DEF closeWait
  <1>2. /\ p \in Actors /\ {"idle", "open"} \subseteq PCs \ Emitting
        /\ "idle" \in After(p) /\ "open" \in After(p)
    BY Constants DEF PCs, CallerPC, Emitting, After
  <1> DEFINE x == closeConn(s)
  <1>3. /\ x \in SessionType /\ x.state = s.state /\ x.seq = s.seq /\ x.gen = s.gen
        /\ x.connCtx = s.connCtx /\ x.run = s.run /\ x.runCtx = s.runCtx /\ x.conn = 0
        /\ x.corrCancel = s.corrCancel /\ x.corrStopping = s.corrStopping
        /\ x.corrState = s.corrState
    BY Constants DEF Typed, TypeOK, SessionType, closeConn
  <1> HIDE DEF x
  <1>4. CASE Superseded(p)
    <2>1. s' = x /\ Return(p) BY <1>4 DEF closeWait, x
    <2>2. /\ GoesTo(p, "idle") /\ TypedPC /\ Control'
          /\ loc' \in [Callers -> LocalType] /\ loc'[p] = IdleLocal /\ Others(p)
      BY <1>1, <2>1, ReturnEffect DEF emitVars
    <2>3. Left' BY <1>1, <2>2, LeftKept, Constants DEF GoesTo
    <2>4. TypeOK'
      BY <1>1, <1>3, <2>1, <2>2 DEF Typed, TypeOK, TypedPC, PCs, emitVars, envVars
    <2> QED
      BY <1>1, <1>3, <1>4, <2>1, <2>2, <2>3, <2>4 DEF Typed, SameState, SameCalls, SameCorr
  <1>5. CASE ~Superseded(p) /\ loc[p].call = "connect"
    <2>1. s' = setStateLocked(x, "connecting") /\ EmitThen(p, "open") /\ UNCHANGED loc
      BY <1>5 DEF closeWait, x
    <2>2. EmitsThen(p, "open") /\ TypedPC /\ Control'
      BY <1>1, <1>2, <2>1, EmitThenEffect DEF emitVars
    <2>3. Left' BY <1>1, <2>2, LeftKept, Constants DEF EmitsThen
    <2>4. "connecting" \in States BY DEF States
    <2>5. /\ s' \in SessionType /\ s'.state = "connecting" /\ s'.seq = "new" /\ s'.gen = s.gen
          /\ s'.connCtx = s.connCtx /\ s'.run = s.run /\ s'.runCtx = s.runCtx /\ s'.conn = 0
          /\ s'.corrCancel = s.corrCancel /\ s'.corrStopping = s.corrStopping
          /\ s'.corrState = s.corrState
      BY <1>3, <2>1, <2>4, SetStateEffect
    <2>6. TypeOK'
      BY <1>1, <2>1, <2>2, <2>5 DEF Typed, TypeOK, TypedPC, PCs, emitVars, envVars
    <2> QED BY <1>1, <1>5, <2>1, <2>2, <2>3, <2>5, <2>6 DEF Typed, SameCalls, SameCorr
  <1>6. CASE ~Superseded(p) /\ loc[p].call # "connect"
    <2>1. /\ s' = x /\ EmitThen(p, "idle")
          /\ loc' = [loc EXCEPT ![p] = IdleLocal]
      BY <1>6 DEF closeWait, x
    <2>2. EmitsThen(p, "idle") /\ TypedPC /\ Control'
      BY <1>1, <1>2, <2>1, EmitThenEffect DEF emitVars
    <2>3. Left' BY <1>1, <2>2, LeftKept, Constants DEF EmitsThen
    <2>4. loc' \in [Callers -> LocalType] /\ loc'[p] = IdleLocal /\ Others(p)
      BY <2>1, IdleLocalType DEF Typed, TypeOK, Others
    <2>5. TypeOK'
      BY <1>1, <1>3, <2>1, <2>2, <2>4 DEF Typed, TypeOK, TypedPC, PCs, emitVars, envVars
    <2> QED
      BY <1>1, <1>3, <1>6, <2>1, <2>2, <2>3, <2>4, <2>5
      DEF Typed, SameState, SameCalls, SameCorr
  <1> QED BY <1>4, <1>5, <1>6

LEMMA OpenEffect ==
  ASSUME Typed, NEW p \in Callers, Open(p)
  PROVE  /\ Typed' /\ pc[p] = "open" /\ GoesTo(p, "handover") /\ Others(p)
         /\ loc'[p].call = loc[p].call /\ loc'[p].gen = loc[p].gen
         /\ loc'[p].slot = loc[p].slot /\ loc'[p].wg = loc[p].wg
         /\ \/ opened' = opened + 1 /\ open' = open \cup {opened'} /\ loc'[p].run = opened'
            \/ UNCHANGED <<opened, open>> /\ loc'[p].run = loc[p].run
         /\ UNCHANGED <<s, m, snd, corr, emitVars, lifecycle, lost, port, last>>
  <1>1. /\ pc[p] = "open" /\ Goto(p, "handover")
        /\ \/ /\ opened < MaxRuns /\ opened' = opened + 1 /\ open' = open \cup {opened + 1}
              /\ loc' = [loc EXCEPT ![p].run = opened + 1]
           \/ UNCHANGED <<opened, open, loc>>
        /\ UNCHANGED <<s, m, snd, corr, emitVars, lifecycle, lost, port, ops, last>>
    BY DEF Open
  <1>2. p \in Actors /\ "handover" \in PCs \ Emitting
    BY Constants DEF PCs, CallerPC, Emitting
  <1>3. GoesTo(p, "handover") /\ TypedPC /\ Control'
    BY <1>1, <1>2, GotoEffect DEF emitVars
  <1>4. Left' BY <1>1, <1>3, LeftKept, Constants DEF GoesTo
  <1>5. CASE /\ opened < MaxRuns /\ opened' = opened + 1 /\ open' = open \cup {opened + 1}
             /\ loc' = [loc EXCEPT ![p].run = opened + 1]
    <2>1. opened + 1 \in 0 .. MaxRuns /\ opened + 1 \in Runs
      BY <1>5, Constants DEF Typed, TypeOK, Runs
    <2>2. /\ loc' \in [Callers -> LocalType]
          /\ loc'[p].call = loc[p].call /\ loc'[p].gen = loc[p].gen
          /\ loc'[p].run = opened + 1 /\ loc'[p].slot = loc[p].slot
          /\ loc'[p].wg = loc[p].wg /\ Others(p)
      BY ONLY Typed, <1>5, <2>1 DEF Typed, TypeOK, LocalType, Others
    <2>3. opened' \in 0 .. MaxRuns /\ open' \subseteq Runs BY <1>5, <2>1 DEF Typed, TypeOK
    <2>4. TypeOK' BY <1>1, <1>3, <2>2, <2>3 DEF Typed, TypeOK, TypedPC, PCs, emitVars
    <2> QED BY <1>1, <1>3, <1>4, <1>5, <2>2, <2>4 DEF Typed
  <1>6. CASE UNCHANGED <<opened, open, loc>>
    <2>1. TypeOK' BY <1>1, <1>3, <1>6 DEF Typed, TypeOK, TypedPC, PCs, emitVars
    <2> QED BY <1>1, <1>3, <1>4, <1>6, <2>1 DEF Typed, Others
  <1> QED BY <1>1, <1>5, <1>6

LEMMA HandoverEffect ==
  ASSUME Typed, NEW p \in Callers, handover(p)
  PROVE  /\ Typed' /\ pc[p] = "handover" /\ lifecycle = None
         /\ loc'[p] = IdleLocal /\ Others(p)
         /\ SameRun /\ SameCorr /\ s'.gen = s.gen
         /\ \/ /\ Superseded(p) /\ GoesTo(p, "idle") /\ open' = open \ {loc[p].run}
               /\ SameState /\ SameCalls /\ UNCHANGED m
            \/ /\ ~Superseded(p) /\ loc[p].run = 0 /\ EmitsThen(p, "idle") /\ UNCHANGED open
               /\ s'.state = "disconnected" /\ s'.seq = "new" /\ SameCalls /\ UNCHANGED m
            \/ /\ ~Superseded(p) /\ loc[p].run # 0 /\ UNCHANGED open
               /\ pc'[p] = "idle" /\ pc'[Mgr] = "install"
               /\ \A a \in Actors \ {p, Mgr} : pc'[a] = pc[a] /\ At(a)' = At(a)
               /\ At(p)' = "idle" /\ At(Mgr)' = "install"
               /\ SameState /\ s'.connCtx = "live"
               /\ m'.conn = loc[p].run /\ m'.req = None /\ m'.wg = None /\ m'.verdict = "none"
         /\ UNCHANGED <<snd, corr, emitVars, lifecycle, lost, opened, port, last>>
  <1>1. /\ pc[p] = "handover" /\ lifecycle = None
        /\ UNCHANGED <<snd, corr, emitVars, lifecycle, lost, opened, port, ops, last>>
    BY DEF handover
  <1>2. /\ p \in Actors /\ {"idle", "install"} \subseteq PCs \ Emitting /\ "idle" \in After(p)
    BY Constants DEF PCs, CallerPC, ManagerPC, Emitting, After
  <1>3. CASE Superseded(p)
    <2>1. open' = open \ {loc[p].run} /\ Return(p) /\ UNCHANGED <<s, m>>
      BY <1>3 DEF handover
    <2>2. /\ GoesTo(p, "idle") /\ TypedPC /\ Control'
          /\ loc' \in [Callers -> LocalType] /\ loc'[p] = IdleLocal /\ Others(p)
      BY <1>1, <2>1, ReturnEffect DEF emitVars
    <2>3. Left' BY <1>1, <2>2, LeftKept, Constants DEF GoesTo
    <2>4. TypeOK'
      BY <1>1, <2>1, <2>2 DEF Typed, TypeOK, TypedPC, PCs, emitVars, envVars
    <2> QED
      BY <1>1, <1>3, <2>1, <2>2, <2>3, <2>4 DEF Typed, SameState, SameCalls, SameCorr, SameRun
  <1>4. CASE ~Superseded(p) /\ loc[p].run = 0
    <2>1. /\ s' = setStateLocked(s, "disconnected") /\ EmitThen(p, "idle")
          /\ loc' = [loc EXCEPT ![p] = IdleLocal] /\ UNCHANGED <<open, m>>
      BY <1>4 DEF handover
    <2>2. EmitsThen(p, "idle") /\ TypedPC /\ Control'
      BY <1>1, <1>2, <2>1, EmitThenEffect DEF emitVars
    <2>3. Left' BY <1>1, <2>2, LeftKept, Constants DEF EmitsThen
    <2>4. loc' \in [Callers -> LocalType] /\ loc'[p] = IdleLocal /\ Others(p)
      BY <2>1, IdleLocalType DEF Typed, TypeOK, Others
    <2>5. "disconnected" \in States /\ s \in SessionType BY DEF States, Typed, TypeOK
    <2>6. /\ s' \in SessionType /\ s'.state = "disconnected" /\ s'.seq = "new" /\ s'.gen = s.gen
          /\ s'.connCtx = s.connCtx /\ s'.run = s.run /\ s'.runCtx = s.runCtx
          /\ s'.conn = s.conn
          /\ s'.corrCancel = s.corrCancel /\ s'.corrStopping = s.corrStopping
          /\ s'.corrState = s.corrState
      BY <2>1, <2>5, SetStateEffect
    <2>7. TypeOK'
      BY <1>1, <2>1, <2>2, <2>4, <2>6 DEF Typed, TypeOK, TypedPC, PCs, emitVars, envVars
    <2> QED
      BY <1>1, <1>4, <2>1, <2>2, <2>3, <2>4, <2>6, <2>7
      DEF Typed, SameCalls, SameCorr, SameRun
  <1>5. CASE ~Superseded(p) /\ loc[p].run # 0
    <2>1. /\ s' = [s EXCEPT !.connCtx = "live"]
          /\ m' = [IdleManager EXCEPT !.conn = loc[p].run]
          /\ pc' = [pc EXCEPT ![p] = "idle", ![Mgr] = "install"]
          /\ loc' = [loc EXCEPT ![p] = IdleLocal]
          /\ UNCHANGED <<open, ret>>
      BY <1>5 DEF handover
    <2>2. /\ TypedPC /\ pc'[p] = "idle" /\ pc'[Mgr] = "install"
          /\ \A a \in Actors \ {p, Mgr} : pc'[a] = pc[a] /\ At(a)' = At(a)
          /\ At(p)' = "idle" /\ At(Mgr)' = "install"
      BY <1>2, <2>1, Constants DEF Typed, TypeOK, TypedPC, PCs, At
    <2>3. Control'
      <3>1. \A a \in Actors : After(a)' = After(a) BY DEF After
      <3> QED BY <1>1, <2>1, <2>2, <3>1 DEF Typed, Control, emitVars, Emitting
    <2>4. Left' BY <1>1, <2>2, LeftKept, Constants
    <2>5. loc' \in [Callers -> LocalType] /\ loc'[p] = IdleLocal /\ Others(p)
      BY <2>1, IdleLocalType DEF Typed, TypeOK, Others
    <2>6. /\ s' \in SessionType /\ SameState /\ SameRun /\ SameCorr /\ s'.gen = s.gen
          /\ s'.connCtx = "live"
      BY ONLY Typed, <2>1 DEF Typed, TypeOK, SessionType, SameState, SameRun, SameCorr
    <2>7. loc[p].run \in 0 .. MaxRuns BY DEF Typed, TypeOK, LocalType
    <2>8. /\ m' \in ManagerType /\ m'.conn = loc[p].run /\ m'.req = None /\ m'.wg = None
          /\ m'.verdict = "none"
      BY <2>1, <2>7, Constants DEF ManagerType, IdleManager
    <2>9. TypeOK'
      BY <1>1, <2>1, <2>2, <2>5, <2>6, <2>8 DEF Typed, TypeOK, TypedPC, PCs, emitVars, envVars
    <2> QED BY <1>1, <1>5, <2>1, <2>2, <2>3, <2>4, <2>5, <2>6, <2>8, <2>9 DEF Typed
  <1> QED BY <1>3, <1>4, <1>5

-----------------------------------------------------------------------------
(* The steps of the connection manager. *)

ManagerPlaces == {"install", "probePort", "probe", "probeDone", "loop", "cfgPort", "cfg",
                  "endRun", "endCorr", "verdict", "reopen", "endConn", "idle"}

LEMMA ManagerGoto ==
  ASSUME Typed, NEW l \in ManagerPlaces, Goto(Mgr, l), snd' = snd, event' = event
  PROVE  GoesTo(Mgr, l) /\ TypedPC /\ Control' /\ Left'
  <1>1. Mgr \in Actors /\ ManagerPlaces \subseteq PCs \ Emitting
    BY Constants DEF PCs, CallerPC, ManagerPC, Emitting, ManagerPlaces
  <1>2. GoesTo(Mgr, l) /\ TypedPC /\ Control' BY <1>1, GotoEffect
  <1>3. Left' BY <1>2, LeftKept, Constants DEF GoesTo
  <1> QED BY <1>2, <1>3

LEMMA ManagerEmit ==
  ASSUME Typed, NEW l \in {"loop", "reopen", "idle"}, EmitThen(Mgr, l), snd' = snd, event' = event
  PROVE  EmitsThen(Mgr, l) /\ TypedPC /\ Control' /\ Left'
  <1>1. Mgr \in Actors /\ l \in PCs \ Emitting /\ l \in After(Mgr)
    BY Constants DEF PCs, CallerPC, ManagerPC, Emitting, After
  <1>2. EmitsThen(Mgr, l) /\ TypedPC /\ Control' BY <1>1, EmitThenEffect
  <1>3. Left' BY <1>2, LeftKept, Constants DEF EmitsThen
  <1> QED BY <1>2, <1>3

LEMMA IdleManagerType ==
  /\ IdleManager \in ManagerType /\ IdleManager.conn = 0 /\ IdleManager.req = None
  /\ IdleManager.wg = None /\ IdleManager.verdict = "none"
  BY Constants DEF IdleManager, ManagerType

LEMMA RunConnEffect ==
  ASSUME Typed, runConn
  PROVE  /\ Typed' /\ pc[Mgr] = "install" /\ GoesTo(Mgr, "probePort")
         /\ SameState /\ SameCalls /\ SameCorr
         /\ s'.run = m.conn /\ s'.conn = m.conn /\ s'.runCtx = "live"
         /\ m'.conn = 0 /\ m'.req = m.req /\ m'.wg = m.wg /\ m'.verdict = m.verdict
         /\ UNCHANGED <<loc, snd, corr, emitVars, lifecycle, envVars, port, last>>
  <1>1. /\ pc[Mgr] = "install" /\ Goto(Mgr, "probePort")
        /\ s' = [s EXCEPT !.conn = m.conn, !.run = m.conn, !.runCtx = "live", !.pipe = m.conn,
                          !.reset = "no"]
        /\ m' = [m EXCEPT !.conn = 0]
        /\ UNCHANGED <<loc, snd, corr, emitVars, lifecycle, envVars, port, ops, last>>
    BY DEF runConn
  <1>2. GoesTo(Mgr, "probePort") /\ TypedPC /\ Control' /\ Left'
    BY <1>1, ManagerGoto DEF ManagerPlaces, emitVars
  <1>3. m.conn \in 0 .. MaxRuns /\ 0 \in 0 .. MaxRuns BY Constants DEF Typed, TypeOK, ManagerType
  <1>4. /\ s' \in SessionType /\ SameState /\ SameCalls /\ SameCorr
        /\ s'.run = m.conn /\ s'.conn = m.conn /\ s'.runCtx = "live"
    BY ONLY Typed, <1>1, <1>3 DEF Typed, TypeOK, SessionType, SameState, SameCalls, SameCorr
  <1>5. /\ m' \in ManagerType
        /\ m'.conn = 0 /\ m'.req = m.req /\ m'.wg = m.wg /\ m'.verdict = m.verdict
    BY ONLY Typed, <1>1, <1>3 DEF Typed, TypeOK, ManagerType
  <1>6. TypeOK'
    BY <1>1, <1>2, <1>4, <1>5 DEF Typed, TypeOK, TypedPC, PCs, emitVars, envVars
  <1> QED BY <1>1, <1>2, <1>4, <1>5, <1>6 DEF Typed

LEMMA EndWithEffect ==
  ASSUME Typed, NEW v \in {"disconnect", "lost", "reconnect", "probeFailed"}, EndWith(v),
         snd' = snd, event' = event
  PROVE  /\ GoesTo(Mgr, "endRun") /\ TypedPC /\ Control' /\ Left'
         /\ m' \in ManagerType /\ SameJobs /\ m'.verdict = v
  <1>1. m' = [m EXCEPT !.verdict = v] /\ Goto(Mgr, "endRun") BY DEF EndWith
  <1>2. GoesTo(Mgr, "endRun") /\ TypedPC /\ Control' /\ Left'
    BY <1>1, ManagerGoto DEF ManagerPlaces
  <1>3. m' \in ManagerType /\ SameJobs /\ m'.verdict = v
    BY <1>1 DEF Typed, TypeOK, ManagerType, SameJobs
  <1> QED BY <1>2, <1>3

LEMMA PortType ==
  ASSUME Typed, NEW x \in {Mgr, None} \cup Sends \cup Corrs, NEW r
  PROVE  [port EXCEPT ![r] = x] \in [Runs -> {Mgr, None} \cup Sends \cup Corrs]
  BY DEF Typed, TypeOK

LEMMA ProbePortEffect ==
  ASSUME Typed, probePort
  PROVE  /\ Typed' /\ pc[Mgr] = "probePort" /\ SameJobs
         /\ \/ RunDone(s.run) /\ m'.verdict = "disconnect" /\ GoesTo(Mgr, "endRun") /\ port' = port
            \/ /\ port[s.run] = None /\ port' = [port EXCEPT ![s.run] = Mgr]
               /\ GoesTo(Mgr, "probe") /\ m' = m
         /\ UNCHANGED <<s, loc, snd, corr, emitVars, lifecycle, envVars, last>>
  <1>1. /\ pc[Mgr] = "probePort"
        /\ UNCHANGED <<s, loc, snd, corr, emitVars, lifecycle, envVars, ops, last>>
    BY DEF probePort
  <1>2. CASE RunDone(s.run) /\ EndWith("disconnect") /\ UNCHANGED port
    <2>1. /\ GoesTo(Mgr, "endRun") /\ TypedPC /\ Control' /\ Left'
          /\ m' \in ManagerType /\ SameJobs /\ m'.verdict = "disconnect"
      BY <1>1, <1>2, EndWithEffect DEF emitVars
    <2>2. TypeOK'
      BY <1>1, <1>2, <2>1 DEF Typed, TypeOK, TypedPC, PCs, emitVars, envVars
    <2> QED BY <1>1, <1>2, <2>1, <2>2 DEF Typed
  <1>3. CASE /\ port[s.run] = None /\ port' = [port EXCEPT ![s.run] = Mgr]
             /\ Goto(Mgr, "probe") /\ UNCHANGED m
    <2>1. GoesTo(Mgr, "probe") /\ TypedPC /\ Control' /\ Left'
      BY <1>1, <1>3, ManagerGoto DEF ManagerPlaces, emitVars
    <2>2. port' \in [Runs -> {Mgr, None} \cup Sends \cup Corrs] BY <1>3, PortType
    <2>3. TypeOK'
      BY <1>1, <1>3, <2>1, <2>2 DEF Typed, TypeOK, TypedPC, PCs, emitVars, envVars
    <2> QED BY <1>1, <1>3, <2>1, <2>3 DEF Typed, SameJobs
  <1> QED BY <1>2, <1>3 DEF probePort

LEMMA ProbeEffect ==
  ASSUME Typed, probe
  PROVE  /\ Typed' /\ pc[Mgr] = "probe" /\ SameJobs /\ port' = [port EXCEPT ![s.run] = None]
         /\ \/ GoesTo(Mgr, "probeDone") /\ m' = m
            \/ GoesTo(Mgr, "endRun") /\ (m'.verdict = "disconnect" => RunDone(s.run))
         /\ UNCHANGED <<s, loc, snd, corr, emitVars, lifecycle, envVars, last>>
  <1>1. /\ pc[Mgr] = "probe" /\ port' = [port EXCEPT ![s.run] = None]
        /\ UNCHANGED <<s, loc, snd, corr, emitVars, lifecycle, envVars, ops, last>>
    BY DEF probe
  <1>2. port' \in [Runs -> {Mgr, None} \cup Sends \cup Corrs] BY <1>1, PortType
  <1>3. CASE Goto(Mgr, "probeDone") /\ UNCHANGED m
    <2>1. GoesTo(Mgr, "probeDone") /\ TypedPC /\ Control' /\ Left'
      BY <1>1, <1>3, ManagerGoto DEF ManagerPlaces, emitVars
    <2>2. TypeOK'
      BY <1>1, <1>2, <1>3, <2>1 DEF Typed, TypeOK, TypedPC, PCs, emitVars, envVars
    <2> QED BY <1>1, <1>3, <2>1, <2>2 DEF Typed, SameJobs
  <1>4. ASSUME NEW v, v = IF RunDone(s.run) THEN "disconnect" ELSE "probeFailed", EndWith(v)
        PROVE  /\ Typed' /\ SameJobs /\ GoesTo(Mgr, "endRun")
               /\ m'.verdict = "disconnect" => RunDone(s.run)
    <2>1. /\ GoesTo(Mgr, "endRun") /\ TypedPC /\ Control' /\ Left'
          /\ m' \in ManagerType /\ SameJobs /\ m'.verdict = v
      BY <1>1, <1>4, EndWithEffect DEF emitVars
    <2>2. TypeOK'
      BY <1>1, <1>2, <2>1 DEF Typed, TypeOK, TypedPC, PCs, emitVars, envVars
    <2> QED BY <1>4, <2>1, <2>2 DEF Typed
  <1> QED BY <1>1, <1>3, <1>4 DEF probe

LEMMA ProbeDoneEffect ==
  ASSUME Typed, probeDone
  PROVE  /\ Typed' /\ pc[Mgr] = "probeDone" /\ SameJobs
         /\ SameRun /\ SameCalls /\ SameCorr
         /\ \/ /\ s.state = "disconnected" \/ s.connCtx = "done"
               /\ m'.verdict = "disconnect" /\ GoesTo(Mgr, "endRun") /\ SameState
            \/ /\ s.state # "disconnected" /\ s.connCtx # "done"
               /\ s'.state = "connected" /\ s'.seq = "new"
               /\ EmitsThen(Mgr, "loop") /\ m' = m
         /\ UNCHANGED <<loc, snd, corr, emitVars, lifecycle, envVars, port, last>>
  <1>1. /\ pc[Mgr] = "probeDone"
        /\ UNCHANGED <<loc, snd, corr, emitVars, lifecycle, envVars, port, ops, last>>
    BY DEF probeDone
  <1>2. CASE s.state = "disconnected" \/ s.connCtx = "done"
    <2>1. EndWith("disconnect") /\ UNCHANGED s BY <1>2 DEF probeDone
    <2>2. /\ GoesTo(Mgr, "endRun") /\ TypedPC /\ Control' /\ Left'
          /\ m' \in ManagerType /\ SameJobs /\ m'.verdict = "disconnect"
      BY <1>1, <2>1, EndWithEffect DEF emitVars
    <2>3. TypeOK'
      BY <1>1, <2>1, <2>2 DEF Typed, TypeOK, TypedPC, PCs, emitVars, envVars
    <2> QED
      BY <1>1, <1>2, <2>1, <2>2, <2>3 DEF Typed, SameState, SameRun, SameCalls, SameCorr
  <1>3. CASE ~(s.state = "disconnected" \/ s.connCtx = "done")
    <2>1. s' = setStateLocked(s, "connected") /\ EmitThen(Mgr, "loop") /\ UNCHANGED m
      BY <1>3 DEF probeDone
    <2>2. EmitsThen(Mgr, "loop") /\ TypedPC /\ Control' /\ Left'
      BY <1>1, <2>1, ManagerEmit DEF emitVars
    <2>3. "connected" \in States /\ s \in SessionType BY DEF States, Typed, TypeOK
    <2>4. /\ s' \in SessionType /\ s'.state = "connected" /\ s'.seq = "new"
          /\ SameRun /\ SameCalls /\ SameCorr
      BY <2>1, <2>3, SetStateEffect DEF SameRun, SameCalls, SameCorr
    <2>5. TypeOK'
      BY <1>1, <2>1, <2>2, <2>4 DEF Typed, TypeOK, TypedPC, PCs, emitVars, envVars
    <2> QED BY <1>1, <1>3, <2>1, <2>2, <2>4, <2>5 DEF Typed, SameJobs
  <1> QED BY <1>2, <1>3

LEMMA StreamDiedEffect ==
  ASSUME Typed, streamDied
  PROVE  /\ Typed' /\ pc[Mgr] = "loop" /\ SameJobs /\ GoesTo(Mgr, "endRun")
         /\ m'.verdict = "disconnect" => RunDone(s.run)
         /\ UNCHANGED <<s, loc, snd, corr, emitVars, lifecycle, envVars, port, last>>
  <1> DEFINE v == IF RunDone(s.run) THEN "disconnect"
                  ELSE IF s.reset = "yes" THEN "reconnect" ELSE "lost"
  <1>1. /\ pc[Mgr] = "loop" /\ EndWith(v)
        /\ UNCHANGED <<s, loc, snd, corr, emitVars, lifecycle, envVars, port, ops, last>>
    BY DEF streamDied
  <1>2. v \in {"disconnect", "lost", "reconnect", "probeFailed"}
        /\ (v = "disconnect" => RunDone(s.run))
    OBVIOUS
  <1> HIDE DEF v
  <1>3. /\ GoesTo(Mgr, "endRun") /\ TypedPC /\ Control' /\ Left'
        /\ m' \in ManagerType /\ SameJobs /\ m'.verdict = v
    BY <1>1, <1>2, EndWithEffect DEF emitVars
  <1>4. TypeOK' BY <1>1, <1>3 DEF Typed, TypeOK, TypedPC, PCs, emitVars, envVars
  <1> QED BY <1>1, <1>2, <1>3, <1>4 DEF Typed

LEMMA TakeRequestEffect ==
  ASSUME Typed, NEW p \in Callers, takeRequest(p)
  PROVE  /\ Typed' /\ pc[Mgr] = "loop" /\ pc[p] = "offer"
         /\ pc'[Mgr] = "cfgPort" /\ pc'[p] = "result"
         /\ At(Mgr)' = "cfgPort" /\ At(p)' = "result"
         /\ \A a \in Actors \ {p, Mgr} : pc'[a] = pc[a] /\ At(a)' = At(a)
         /\ m'.conn = m.conn /\ m'.wg = m.wg /\ m'.req = p /\ m'.verdict = m.verdict
         /\ UNCHANGED <<s, loc, snd, corr, emitVars, lifecycle, envVars, port, last>>
  <1>1. /\ pc[Mgr] = "loop" /\ pc[p] = "offer"
        /\ m' = [m EXCEPT !.req = p, !.reset = IF loc[p].call = "reset" THEN "yes" ELSE "no"]
        /\ pc' = [pc EXCEPT ![Mgr] = "cfgPort", ![p] = "result"]
        /\ UNCHANGED <<s, ret, loc, snd, corr, emitVars, lifecycle, envVars, port, ops, last>>
    BY DEF takeRequest
  <1>2. /\ m' \in ManagerType
        /\ m'.conn = m.conn /\ m'.wg = m.wg /\ m'.req = p /\ m'.verdict = m.verdict
    BY <1>1 DEF Typed, TypeOK, ManagerType
  <1>3. p \in Actors /\ {"cfgPort", "result"} \subseteq PCs \ Emitting
    BY Constants DEF PCs, CallerPC, ManagerPC, Emitting
  <1>4. /\ TypedPC /\ pc'[Mgr] = "cfgPort" /\ pc'[p] = "result"
        /\ At(Mgr)' = "cfgPort" /\ At(p)' = "result"
        /\ \A a \in Actors \ {p, Mgr} : pc'[a] = pc[a] /\ At(a)' = At(a)
    BY <1>1, <1>3, Constants DEF Typed, TypeOK, TypedPC, PCs, At
  <1>5. Control'
    <2>1. \A a \in Actors : After(a)' = After(a) BY DEF After
    <2> QED BY <1>1, <1>4, <2>1 DEF Typed, Control, emitVars, Emitting
  <1>6. Left' BY <1>1, <1>4, LeftKept, Constants
  <1>7. TypeOK' BY <1>1, <1>2, <1>4 DEF Typed, TypeOK, TypedPC, PCs, emitVars, envVars
  <1> QED BY <1>1, <1>2, <1>4, <1>5, <1>6, <1>7 DEF Typed

\* The manager goes on at l, and who waits for the answer goes on to the end.
Answers(l) ==
  /\ pc'[Mgr] = l /\ At(Mgr)' = l
  /\ \A a \in Actors \ {m.req, Mgr} : pc'[a] = pc[a] /\ At(a)' = At(a)
  /\ \A a \in Callers : a = m.req => pc'[a] = "endOp" /\ At(a)' = "endOp"

LEMMA AnswerEffect ==
  ASSUME Typed, NEW l \in ManagerPlaces, Answer(l), snd' = snd, event' = event
  PROVE  Answers(l) /\ TypedPC /\ Control' /\ Left'
  <1>1. m.req \in Callers \cup {None} BY DEF Typed, TypeOK, ManagerType
  <1>2. {l, "endOp"} \subseteq PCs \ Emitting
    BY DEF PCs, CallerPC, ManagerPC, Emitting, ManagerPlaces
  <1>3. /\ pc' \in [Actors -> PCs] /\ ret' = ret
        /\ pc'[Mgr] = l /\ (m.req # None => pc'[m.req] = "endOp")
        /\ \A a \in Actors \ {m.req, Mgr} : pc'[a] = pc[a]
    <2>1. CASE m.req = None
      <3>1. pc' = [pc EXCEPT ![Mgr] = l] /\ ret' = ret
        BY <2>1, Constants DEF Answer, Typed, TypeOK
      <3> QED BY <1>2, <2>1, <3>1, Constants DEF Typed, TypeOK, PCs
    <2>2. CASE m.req # None
      <3>1. /\ pc' = [pc EXCEPT ![Mgr] = l, ![m.req] = "endOp"] /\ ret' = ret
            /\ m.req \in Actors /\ m.req # Mgr
        BY <1>1, <2>2, Constants DEF Answer
      <3>2. pc \in [Actors -> PCs] /\ l \in PCs /\ "endOp" \in PCs
        BY <1>2 DEF Typed, TypeOK, PCs
      <3> QED BY <3>1, <3>2, Constants
    <2> QED BY <2>1, <2>2
  <1>8. Answers(l) /\ TypedPC
    <2>1. ret \in [Actors -> PCs] BY DEF Typed, TypeOK, PCs
    <2>2. \A a \in Actors : pc'[a] \notin Emitting => At(a)' = pc'[a]
      BY DEF At, Emitting
    <2>3. \A a \in Actors : pc'[a] = pc[a] => At(a)' = At(a)
      BY <1>3 DEF At
    <2>4. l \notin Emitting /\ "endOp" \notin Emitting BY <1>2
    <2>5. At(Mgr)' = l BY <1>3, <2>2, <2>4, Constants
    <2>6. \A a \in Callers : a = m.req => pc'[a] = "endOp" /\ At(a)' = "endOp"
      BY <1>3, <2>2, <2>4, Constants
    <2> QED BY <1>3, <2>1, <2>3, <2>5, <2>6 DEF Answers, TypedPC
  <1>4. \A a \in Actors : pc'[a] = pc[a] \/ pc'[a] \in {l, "endOp"}
    BY <1>1, <1>3, Constants DEF Actors
  <1>5. Control'
    <2>1. \A a \in Actors : After(a)' = After(a) BY DEF After
    <2>2. "publish" \in Emitting BY DEF Emitting
    <2> QED BY <1>2, <1>3, <1>4, <2>1, <2>2 DEF Typed, Control
  <1>6. l \notin {"step", "reply"} BY DEF ManagerPlaces
  <1>7. Left' BY <1>4, <1>6, LeftKept, Constants
  <1> QED BY <1>5, <1>7, <1>8

LEMMA ConfigPortEffect ==
  ASSUME Typed, configPort
  PROVE  /\ Typed' /\ pc[Mgr] = "cfgPort" /\ m'.conn = m.conn /\ m'.wg = m.wg
         /\ SameState /\ SameRun /\ SameCalls /\ SameCorr
         /\ \/ /\ RunDone(s.run) /\ Answers("endRun") /\ m'.req = None
               /\ m'.verdict = "disconnect" /\ port' = port
            \/ /\ port[s.run] = None /\ port' = [port EXCEPT ![s.run] = Mgr]
               /\ GoesTo(Mgr, "cfg") /\ m' = m
         /\ UNCHANGED <<loc, snd, corr, emitVars, lifecycle, envVars, last>>
  <1>1. /\ pc[Mgr] = "cfgPort"
        /\ UNCHANGED <<loc, snd, corr, emitVars, lifecycle, envVars, ops, last>>
    BY DEF configPort
  <1>2. CASE /\ RunDone(s.run) /\ Answer("endRun")
             /\ m' = [m EXCEPT !.req = None, !.verdict = "disconnect"]
             /\ UNCHANGED <<s, port>>
    <2>1. Answers("endRun") /\ TypedPC /\ Control' /\ Left'
      BY <1>1, <1>2, AnswerEffect DEF ManagerPlaces, emitVars
    <2>2. /\ m' \in ManagerType /\ m'.conn = m.conn /\ m'.wg = m.wg /\ m'.req = None
          /\ m'.verdict = "disconnect"
      BY <1>2 DEF Typed, TypeOK, ManagerType
    <2>3. TypeOK'
      BY <1>1, <1>2, <2>1, <2>2 DEF Typed, TypeOK, TypedPC, PCs, emitVars, envVars
    <2> QED
      BY <1>1, <1>2, <2>1, <2>2, <2>3 DEF Typed, SameState, SameRun, SameCalls, SameCorr
  <1>3. CASE /\ port[s.run] = None /\ port' = [port EXCEPT ![s.run] = Mgr]
             /\ s' = [s EXCEPT !.reset = m.reset]
             /\ Goto(Mgr, "cfg") /\ UNCHANGED m
    <2>1. GoesTo(Mgr, "cfg") /\ TypedPC /\ Control' /\ Left'
      BY <1>1, <1>3, ManagerGoto DEF ManagerPlaces, emitVars
    <2>2. port' \in [Runs -> {Mgr, None} \cup Sends \cup Corrs] BY <1>3, PortType
    <2>3. m.reset \in {"yes", "no"} BY DEF Typed, TypeOK, ManagerType
    <2>4. s' \in SessionType /\ SameState /\ SameRun /\ SameCalls /\ SameCorr
      BY ONLY Typed, <1>3, <2>3
      DEF Typed, TypeOK, SessionType, SameState, SameRun, SameCalls, SameCorr
    <2>5. TypeOK'
      BY <1>1, <1>3, <2>1, <2>2, <2>4 DEF Typed, TypeOK, TypedPC, PCs, emitVars, envVars
    <2> QED BY <1>1, <1>3, <2>1, <2>4, <2>5 DEF Typed
  <1> QED BY <1>2, <1>3 DEF configPort

LEMMA ConfigDoneEffect ==
  ASSUME Typed, configDone
  PROVE  /\ Typed' /\ pc[Mgr] = "cfg" /\ Answers("loop") /\ port' = [port EXCEPT ![s.run] = None]
         /\ m'.conn = m.conn /\ m'.wg = m.wg /\ m'.req = None /\ m'.verdict = m.verdict
         /\ UNCHANGED <<s, loc, snd, corr, emitVars, lifecycle, envVars, last>>
  <1>1. /\ pc[Mgr] = "cfg" /\ port' = [port EXCEPT ![s.run] = None] /\ Answer("loop")
        /\ m' = [m EXCEPT !.req = None]
        /\ UNCHANGED <<s, loc, snd, corr, emitVars, lifecycle, envVars, ops, last>>
    BY DEF configDone
  <1>2. Answers("loop") /\ TypedPC /\ Control' /\ Left'
    BY <1>1, AnswerEffect DEF ManagerPlaces, emitVars
  <1>3. port' \in [Runs -> {Mgr, None} \cup Sends \cup Corrs] BY <1>1, PortType
  <1>4. /\ m' \in ManagerType
        /\ m'.conn = m.conn /\ m'.wg = m.wg /\ m'.req = None /\ m'.verdict = m.verdict
    BY <1>1 DEF Typed, TypeOK, ManagerType
  <1>5. TypeOK'
    BY <1>1, <1>2, <1>3, <1>4 DEF Typed, TypeOK, TypedPC, PCs, emitVars, envVars
  <1> QED BY <1>1, <1>2, <1>4, <1>5 DEF Typed

LEMMA EndRunEffect ==
  ASSUME Typed, endRun
  PROVE  /\ Typed' /\ pc[Mgr] = "endRun"
         /\ SameState /\ SameCalls /\ s'.run = s.run /\ s'.runCtx = "done"
         /\ s'.corrCancel = None /\ SameSends /\ Cancels(s.corrCancel)
         /\ m'.conn = m.conn /\ m'.req = m.req /\ m'.verdict = m.verdict
         /\ \/ /\ s.corrCancel = None /\ s'.conn = 0 /\ open' = open \ {s.conn}
               /\ GoesTo(Mgr, "verdict") /\ m' = m
               /\ s'.corrStopping = s.corrStopping /\ s'.corrState = "stopped"
            \/ /\ s.corrCancel # None /\ s'.conn = s.conn /\ open' = open
               /\ GoesTo(Mgr, "endCorr") /\ m'.wg = s.corrCancel
               /\ s'.corrStopping = "yes" /\ s'.corrState = s.corrState
         /\ UNCHANGED <<loc, emitVars, lifecycle, lost, opened, port, last>>
  <1> DEFINE w == [s EXCEPT !.sendCancel = None, !.workerCancel = None, !.runCtx = "done"]
             x == stopCorrLocked(w)
  <1>1. /\ pc[Mgr] = "endRun"
        /\ IF s.corrCancel = None
           THEN /\ s' = closeRun(x) /\ open' = open \ {s.conn}
                /\ Goto(Mgr, "verdict") /\ UNCHANGED m
           ELSE /\ s' = x /\ m' = [m EXCEPT !.wg = s.corrCancel]
                /\ Goto(Mgr, "endCorr") /\ UNCHANGED open
        /\ snd' = cancelWorkerLocked(cancelSend(snd))
        /\ corr' = CancelCorr(s.corrCancel)
        /\ UNCHANGED <<loc, emitVars, lifecycle, lost, opened, port, ops, last>>
    BY DEF endRun
  <1>2. /\ w \in SessionType /\ w.state = s.state /\ w.seq = s.seq /\ w.gen = s.gen
        /\ w.connCtx = s.connCtx /\ w.run = s.run /\ w.runCtx = "done" /\ w.conn = s.conn
        /\ w.corrCancel = s.corrCancel /\ w.corrStopping = s.corrStopping
        /\ w.corrState = s.corrState
    BY DEF Typed, TypeOK, SessionType
  <1> HIDE DEF w
  <1>3. /\ x \in SessionType /\ x.state = s.state /\ x.seq = s.seq /\ x.gen = s.gen
        /\ x.connCtx = s.connCtx /\ x.run = s.run /\ x.runCtx = "done" /\ x.conn = s.conn
        /\ x.corrCancel = None
        /\ x.corrStopping = IF s.corrCancel = None THEN s.corrStopping ELSE "yes"
        /\ x.corrState = IF s.corrCancel = None THEN "stopped" ELSE s.corrState
    BY <1>2, StopCorrEffect
  <1> HIDE DEF x
  <1>4. /\ snd' \in [Sends -> SendType] /\ SameSends
        /\ \A i \in Sends : snd'[i].left = snd[i].left
    <2>1. snd \in [Sends -> SendType] BY DEF Typed, TypeOK
    <2> QED BY <1>1, <2>1, CancelEffect DEF SameSends
  <1>5. corr' \in [Corrs -> CorrType] /\ Cancels(s.corrCancel) BY <1>1, CancelCorrEffect
  <1>6. /\ Mgr \in Actors /\ {"verdict", "endCorr"} \subseteq PCs \ Emitting
    BY Constants DEF PCs, ManagerPC, Emitting
  <1>7. CASE s.corrCancel = None
    <2>1. /\ s' = closeRun(x) /\ open' = open \ {s.conn}
          /\ Goto(Mgr, "verdict") /\ UNCHANGED m
      BY <1>1, <1>7
    <2>2. GoesTo(Mgr, "verdict") /\ TypedPC /\ Control'
      BY <1>1, <1>6, <2>1, GotoEffect DEF emitVars
    <2>3. Left' BY <1>4, <2>2, LeftKept, Constants DEF GoesTo
    <2>4. /\ s' \in SessionType /\ SameState /\ SameCalls /\ s'.run = s.run /\ s'.runCtx = "done"
          /\ s'.corrCancel = None /\ s'.conn = 0
          /\ s'.corrStopping = s.corrStopping /\ s'.corrState = "stopped"
      BY <1>3, <1>7, <2>1, Constants DEF SessionType, closeRun, SameState, SameCalls
    <2>5. TypeOK'
      BY <1>1, <1>4, <1>5, <2>1, <2>2, <2>4 DEF Typed, TypeOK, TypedPC, PCs, emitVars
    <2> QED BY <1>1, <1>4, <1>5, <1>7, <2>1, <2>2, <2>3, <2>4, <2>5 DEF Typed
  <1>8. CASE s.corrCancel # None
    <2>1. /\ s' = x /\ m' = [m EXCEPT !.wg = s.corrCancel]
          /\ Goto(Mgr, "endCorr") /\ UNCHANGED open
      BY <1>1, <1>8
    <2>2. GoesTo(Mgr, "endCorr") /\ TypedPC /\ Control'
      BY <1>1, <1>6, <2>1, GotoEffect DEF emitVars
    <2>3. Left' BY <1>4, <2>2, LeftKept, Constants DEF GoesTo
    <2>4. s.corrCancel \in Corrs \cup {None} BY DEF Typed, TypeOK, SessionType
    <2>5. /\ m' \in ManagerType /\ m'.conn = m.conn /\ m'.req = m.req /\ m'.verdict = m.verdict
          /\ m'.wg = s.corrCancel
      BY <2>1, <2>4 DEF Typed, TypeOK, ManagerType
    <2>6. TypeOK'
      BY <1>1, <1>3, <1>4, <1>5, <2>1, <2>2, <2>5 DEF Typed, TypeOK, TypedPC, PCs, emitVars
    <2> QED
      BY <1>1, <1>3, <1>4, <1>5, <1>8, <2>1, <2>2, <2>3, <2>5, <2>6
      DEF Typed, SameState, SameCalls
  <1> QED BY <1>7, <1>8

LEMMA EndCorrEffect ==
  ASSUME Typed, endCorr
  PROVE  /\ Typed' /\ pc[Mgr] = "endCorr" /\ CorrDone(m.wg) /\ GoesTo(Mgr, "verdict")
         /\ SameState /\ SameCalls /\ s'.run = s.run /\ s'.runCtx = s.runCtx /\ s'.conn = 0
         /\ s'.corrCancel = s.corrCancel /\ s'.corrState = s.corrState /\ s'.corrStopping = "no"
         /\ open' = open \ {s.conn}
         /\ m'.conn = m.conn /\ m'.req = m.req /\ m'.wg = None /\ m'.verdict = m.verdict
         /\ UNCHANGED <<loc, snd, corr, emitVars, lifecycle, lost, opened, port, last>>
  <1>1. /\ pc[Mgr] = "endCorr" /\ CorrDone(m.wg) /\ Goto(Mgr, "verdict")
        /\ s' = closeRun([s EXCEPT !.corrStopping = "no"]) /\ open' = open \ {s.conn}
        /\ m' = [m EXCEPT !.wg = None]
        /\ UNCHANGED <<loc, snd, corr, emitVars, lifecycle, lost, opened, port, ops, last>>
    BY DEF endCorr
  <1>2. GoesTo(Mgr, "verdict") /\ TypedPC /\ Control' /\ Left'
    BY <1>1, ManagerGoto DEF ManagerPlaces, emitVars
  <1>3. /\ m' \in ManagerType
        /\ m'.conn = m.conn /\ m'.req = m.req /\ m'.wg = None /\ m'.verdict = m.verdict
    BY <1>1 DEF Typed, TypeOK, ManagerType
  <1> DEFINE x == [s EXCEPT !.corrStopping = "no"]
  <1>4. /\ x \in SessionType /\ x.state = s.state /\ x.seq = s.seq /\ x.gen = s.gen
        /\ x.connCtx = s.connCtx /\ x.run = s.run /\ x.runCtx = s.runCtx
        /\ x.corrCancel = s.corrCancel /\ x.corrState = s.corrState /\ x.corrStopping = "no"
    BY DEF Typed, TypeOK, SessionType
  <1> HIDE DEF x
  <1>5. s' = closeRun(x) BY <1>1 DEF x
  <1>6. /\ s' \in SessionType /\ SameState /\ SameCalls
        /\ s'.run = s.run /\ s'.runCtx = s.runCtx /\ s'.conn = 0
        /\ s'.corrCancel = s.corrCancel /\ s'.corrState = s.corrState /\ s'.corrStopping = "no"
    BY <1>4, <1>5, Constants DEF SessionType, closeRun, SameState, SameCalls
  <1>7. TypeOK' BY <1>1, <1>2, <1>3, <1>6 DEF Typed, TypeOK, TypedPC, PCs, emitVars
  <1> QED BY <1>1, <1>2, <1>3, <1>6, <1>7 DEF Typed

\* The manager goes through the verdict on a run that has ended.
LEMMA VerdictEffect ==
  ASSUME Typed, enterReconnect \/ managerReturn
  PROVE  /\ Typed' /\ pc[Mgr] = "verdict" /\ m' = IdleManager
         /\ SameRun /\ SameCalls /\ SameCorr
         /\ \/ /\ \/ s.state = "disconnected" \/ s.connCtx # "live"
                  \/ m.verdict = "disconnect"
               /\ GoesTo(Mgr, "idle") /\ SameState
            \/ /\ s.state # "disconnected" /\ s.connCtx = "live"
               /\ EmitsThen(Mgr, "reopen") /\ s'.state = "reconnecting" /\ s'.seq = "new"
         /\ UNCHANGED <<loc, snd, corr, emitVars, lifecycle, envVars, port, last>>
  <1>1. /\ pc[Mgr] = "verdict" /\ m' = IdleManager
        /\ UNCHANGED <<loc, snd, corr, emitVars, lifecycle, envVars, port, ops, last>>
    BY DEF enterReconnect, managerReturn
  <1>2. CASE /\ Goto(Mgr, "idle") /\ UNCHANGED s
             /\ \/ s.state = "disconnected" \/ s.connCtx # "live"
                \/ m.verdict = "disconnect"
    <2>1. GoesTo(Mgr, "idle") /\ TypedPC /\ Control' /\ Left'
      BY <1>1, <1>2, ManagerGoto DEF ManagerPlaces, emitVars
    <2>2. TypeOK'
      BY <1>1, <1>2, <2>1, IdleManagerType DEF Typed, TypeOK, TypedPC, PCs, emitVars, envVars
    <2> QED
      BY <1>1, <1>2, <2>1, <2>2 DEF Typed, SameState, SameRun, SameCalls, SameCorr
  <1>3. CASE /\ s' = setStateLocked(s, "reconnecting") /\ EmitThen(Mgr, "reopen")
             /\ s.state # "disconnected" /\ s.connCtx = "live"
    <2>1. EmitsThen(Mgr, "reopen") /\ TypedPC /\ Control' /\ Left'
      BY <1>1, <1>3, ManagerEmit DEF emitVars
    <2>2. "reconnecting" \in States /\ s \in SessionType BY DEF States, Typed, TypeOK
    <2>3. /\ s' \in SessionType /\ s'.state = "reconnecting" /\ s'.seq = "new"
          /\ SameRun /\ SameCalls /\ SameCorr
      BY <1>3, <2>2, SetStateEffect DEF SameRun, SameCalls, SameCorr
    <2>4. TypeOK'
      BY <1>1, <2>1, <2>3, IdleManagerType DEF Typed, TypeOK, TypedPC, PCs, emitVars, envVars
    <2> QED BY <1>1, <1>3, <2>1, <2>3, <2>4 DEF Typed
  <1> QED BY <1>2, <1>3 DEF enterReconnect, managerReturn

LEMMA ReopenEffect ==
  ASSUME Typed, reopen
  PROVE  /\ Typed' /\ pc[Mgr] = "reopen" /\ m'.req = m.req /\ m'.wg = m.wg
         /\ \/ /\ opened' = opened + 1 /\ open' = open \cup {opened'} /\ m'.conn = opened'
               /\ GoesTo(Mgr, "install")
            \/ GoesTo(Mgr, "endConn") /\ m'.conn = m.conn /\ UNCHANGED <<open, opened>>
            \/ m'.conn = m.conn /\ UNCHANGED <<pc, ret, open, opened>>
         /\ UNCHANGED <<s, loc, snd, corr, emitVars, lifecycle, lost, port, last>>
  <1>1. /\ pc[Mgr] = "reopen"
        /\ UNCHANGED <<s, loc, snd, corr, emitVars, lifecycle, lost, port, ops, last>>
    BY DEF reopen
  <1>2. CASE /\ opened < MaxRuns /\ opened' = opened + 1 /\ open' = open \cup {opened + 1}
             /\ m' = [m EXCEPT !.conn = opened + 1, !.tries = 0] /\ Goto(Mgr, "install")
    <2>1. GoesTo(Mgr, "install") /\ TypedPC /\ Control' /\ Left'
      BY <1>1, <1>2, ManagerGoto DEF ManagerPlaces, emitVars
    <2>2. opened + 1 \in 0 .. MaxRuns /\ opened + 1 \in Runs
      BY <1>2, Constants DEF Typed, TypeOK, Runs
    <2>3. m' \in ManagerType /\ m'.conn = opened + 1 /\ m'.req = m.req /\ m'.wg = m.wg
      BY ONLY Typed, <1>2, <2>2, Constants DEF Typed, TypeOK, ManagerType
    <2>4. opened' \in 0 .. MaxRuns /\ open' \subseteq Runs BY <1>2, <2>2 DEF Typed, TypeOK
    <2>5. TypeOK' BY <1>1, <2>1, <2>3, <2>4 DEF Typed, TypeOK, TypedPC, PCs, emitVars
    <2> QED BY <1>1, <1>2, <2>1, <2>3, <2>5 DEF Typed
  <1>3. CASE /\ Goto(Mgr, "endConn") /\ m' = [m EXCEPT !.tries = 0]
             /\ UNCHANGED <<open, opened>>
    <2>1. GoesTo(Mgr, "endConn") /\ TypedPC /\ Control' /\ Left'
      BY <1>1, <1>3, ManagerGoto DEF ManagerPlaces, emitVars
    <2>2. m' \in ManagerType /\ m'.conn = m.conn /\ m'.req = m.req /\ m'.wg = m.wg
      BY ONLY Typed, <1>3, Constants DEF Typed, TypeOK, ManagerType
    <2>3. TypeOK' BY <1>1, <1>3, <2>1, <2>2 DEF Typed, TypeOK, TypedPC, PCs, emitVars
    <2> QED BY <1>1, <1>3, <2>1, <2>2, <2>3 DEF Typed
  <1>4. CASE /\ m' = [m EXCEPT !.tries = m.tries + 1] /\ UNCHANGED <<pc, ret, open, opened>>
             /\ m.tries + 1 # MaxReopenAttempts
    <2>1. m.tries + 1 \in 0 .. MaxReopenAttempts - 1
      BY <1>4, Constants DEF Typed, TypeOK, ManagerType
    <2>2. m' \in ManagerType /\ m'.conn = m.conn /\ m'.req = m.req /\ m'.wg = m.wg
      BY ONLY Typed, <1>4, <2>1 DEF Typed, TypeOK, ManagerType
    <2>3. TypeOK' BY <1>1, <1>4, <2>2 DEF Typed, TypeOK, emitVars
    <2>4. Control' /\ Left'
      <3>1. \A a \in Actors : After(a)' = After(a) BY DEF After
      <3> QED BY <1>1, <1>4, <3>1 DEF Typed, Control, Left, emitVars
    <2> QED BY <1>1, <1>4, <2>2, <2>3, <2>4 DEF Typed
  <1> QED BY <1>2, <1>3, <1>4 DEF reopen

LEMMA EndConnEffect ==
  ASSUME Typed, endConn
  PROVE  /\ Typed' /\ pc[Mgr] \in {"endConn", "verdict"} /\ m' = IdleManager
         /\ EmitsThen(Mgr, "idle") /\ SameRun /\ SameCorr /\ s'.gen = s.gen
         /\ s'.connCtx = IF s.connCtx = "live" THEN "done" ELSE s.connCtx
         /\ s'.state = "disconnected"
         /\ s'.seq = IF s.state = "disconnected" THEN s.seq ELSE "new"
         /\ UNCHANGED <<loc, snd, corr, emitVars, lifecycle, envVars, port, last>>
  <1> DEFINE x == [s EXCEPT !.connCtx = IF s.connCtx = "live" THEN "done" ELSE s.connCtx]
  <1>1. /\ pc[Mgr] \in {"endConn", "verdict"} /\ m' = IdleManager /\ EmitThen(Mgr, "idle")
        /\ s' = IF s.state = "disconnected" THEN x ELSE setStateLocked(x, "disconnected")
        /\ UNCHANGED <<loc, snd, corr, emitVars, lifecycle, envVars, port, ops, last>>
    BY DEF endConn
  <1>2. /\ x \in SessionType /\ x.state = s.state /\ x.seq = s.seq /\ x.gen = s.gen
        /\ x.run = s.run /\ x.runCtx = s.runCtx /\ x.conn = s.conn
        /\ x.connCtx = IF s.connCtx = "live" THEN "done" ELSE s.connCtx
        /\ x.corrCancel = s.corrCancel /\ x.corrStopping = s.corrStopping
        /\ x.corrState = s.corrState
    BY DEF Typed, TypeOK, SessionType
  <1> HIDE DEF x
  <1>3. EmitsThen(Mgr, "idle") /\ TypedPC /\ Control' /\ Left'
    BY <1>1, ManagerEmit DEF emitVars
  <1>4. "disconnected" \in States BY DEF States
  <1>5. /\ s' \in SessionType /\ SameRun /\ SameCorr /\ s'.gen = s.gen
        /\ s'.connCtx = IF s.connCtx = "live" THEN "done" ELSE s.connCtx
        /\ s'.state = "disconnected"
        /\ s'.seq = IF s.state = "disconnected" THEN s.seq ELSE "new"
    <2>1. CASE s.state = "disconnected" BY <1>1, <1>2, <2>1 DEF SameRun, SameCorr
    <2>2. CASE s.state # "disconnected"
      BY <1>1, <1>2, <1>4, <2>2, SetStateEffect DEF SameRun, SameCorr
    <2> QED BY <2>1, <2>2
  <1>6. TypeOK'
    BY <1>1, <1>3, <1>5, IdleManagerType DEF Typed, TypeOK, TypedPC, PCs, emitVars, envVars
  <1> QED BY <1>1, <1>3, <1>5, <1>6 DEF Typed

-----------------------------------------------------------------------------
(* The steps of an operation. *)

CallerPlaces == CallerPC \ Emitting

LEMMA CallerGoto ==
  ASSUME Typed, NEW p \in Callers, NEW l \in CallerPlaces, Goto(p, l), event' = event,
         \A i \in Sends : snd'[i].left = snd[i].left
  PROVE  GoesTo(p, l) /\ TypedPC /\ Control' /\ Left'
  <1>1. p \in Actors /\ l \in PCs \ Emitting
    BY Constants DEF PCs, Emitting, CallerPlaces
  <1>2. GoesTo(p, l) /\ TypedPC /\ Control' BY <1>1, GotoEffect
  <1>3. Left' BY <1>2, LeftKept, Constants DEF GoesTo
  <1> QED BY <1>2, <1>3

LEMMA CallerEmit ==
  ASSUME Typed, NEW p \in Callers, NEW l \in {"idle", "open", "request", "endOp", "spawn"},
         EmitThen(p, l), event' = event,
         \A i \in Sends : snd'[i].left = snd[i].left
  PROVE  EmitsThen(p, l) /\ TypedPC /\ Control' /\ Left'
  <1>1. p \in Actors /\ l \in PCs \ Emitting /\ l \in After(p)
    BY Constants DEF PCs, CallerPC, Emitting, After
  <1>2. EmitsThen(p, l) /\ TypedPC /\ Control' BY <1>1, EmitThenEffect
  <1>3. Left' BY <1>2, LeftKept, Constants DEF EmitsThen
  <1> QED BY <1>2, <1>3

\* CountOp, in a call that mu lets in.
LEMMA OpsType ==
  ASSUME Typed, MayCall, ops' = ops + 1
  PROVE  ops' \in 0 .. MaxCalls
  BY Constants DEF Typed, TypeOK, SessionType, MayCall

\* Only workerCancel and sendCancel change.
SameSession == SameState /\ SameRun /\ SameCalls /\ SameCorr

LEMMA WorkerCancelEffect ==
  ASSUME Typed, NEW x, x = [s EXCEPT !.workerCancel = None]
  PROVE  /\ x \in SessionType /\ x.state = s.state /\ x.seq = s.seq
         /\ x.gen = s.gen /\ x.connCtx = s.connCtx
         /\ x.run = s.run /\ x.runCtx = s.runCtx /\ x.conn = s.conn
         /\ x.corrCancel = s.corrCancel /\ x.corrStopping = s.corrStopping
         /\ x.corrState = s.corrState
  BY DEF Typed, TypeOK, SessionType

LEMMA BeginConfigEffect ==
  ASSUME Typed, NEW p \in Callers, NEW c \in {"config", "reset", "noop"}, beginConfig(p, c)
  PROVE  /\ Typed' /\ pc[p] = "idle" /\ s.state = "connected"
         /\ s'.state = "configuring" /\ s'.seq = "new" /\ SameRun /\ SameCalls /\ SameCorr
         /\ loc'[p].call = c /\ loc'[p].gen = loc[p].gen /\ loc'[p].run = s.run
         /\ loc'[p].slot = loc[p].slot /\ loc'[p].wg = loc[p].wg /\ Others(p)
         /\ EmitsThen(p, IF c = "noop" THEN "endOp" ELSE "request") /\ SameSends
         /\ UNCHANGED <<m, corr, emitVars, lifecycle, envVars, port, last>>
  <1> DEFINE x == [s EXCEPT !.workerCancel = None]
             l == IF c = "noop" THEN "endOp" ELSE "request"
  <1>1. /\ pc[p] = "idle" /\ MayCall /\ s.state = "connected"
        /\ snd' = cancelWorkerLocked(snd) /\ s' = setStateLocked(x, "configuring")
        /\ loc' = [loc EXCEPT ![p].call = c, ![p].run = s.run]
        /\ EmitThen(p, l) /\ ops' = ops + 1
        /\ UNCHANGED <<m, corr, emitVars, lifecycle, envVars, port, last>>
    BY DEF beginConfig, Idle, CountOp
  <1>2. /\ x \in SessionType /\ x.gen = s.gen /\ x.connCtx = s.connCtx
        /\ x.run = s.run /\ x.runCtx = s.runCtx /\ x.conn = s.conn
        /\ x.corrCancel = s.corrCancel /\ x.corrStopping = s.corrStopping
        /\ x.corrState = s.corrState
    BY WorkerCancelEffect
  <1> HIDE DEF x
  <1>3. "configuring" \in States BY DEF States
  <1>4. /\ s' \in SessionType /\ s'.state = "configuring" /\ s'.seq = "new"
        /\ SameRun /\ SameCalls /\ SameCorr
    BY <1>1, <1>2, <1>3, SetStateEffect DEF SameRun, SameCalls, SameCorr
  <1>5. /\ snd' \in [Sends -> SendType] /\ SameSends
        /\ \A i \in Sends : snd'[i].left = snd[i].left
    <2>1. snd \in [Sends -> SendType] BY DEF Typed, TypeOK
    <2> QED BY <1>1, <2>1, CancelEffect DEF SameSends
  <1>6. l \in {"endOp", "request"} OBVIOUS
  <1>7. EmitsThen(p, l) /\ TypedPC /\ Control' /\ Left'
    BY <1>1, <1>5, <1>6, CallerEmit DEF emitVars
  <1>8. s.run \in 0 .. MaxRuns BY DEF Typed, TypeOK, SessionType
  <1>9. /\ loc' \in [Callers -> LocalType]
        /\ loc'[p].call = c /\ loc'[p].gen = loc[p].gen /\ loc'[p].run = s.run
        /\ loc'[p].slot = loc[p].slot /\ loc'[p].wg = loc[p].wg /\ Others(p)
    BY ONLY Typed, <1>1, <1>8 DEF Typed, TypeOK, LocalType, Others
  <1>10. TypeOK'
    BY <1>1, <1>4, <1>5, <1>7, <1>9, OpsType DEF Typed, TypeOK, TypedPC, PCs, emitVars, envVars
  <1> QED BY <1>1, <1>4, <1>5, <1>7, <1>9, <1>10 DEF Typed

LEMMA BeginSendEffect ==
  ASSUME Typed, NEW p \in Callers, NEW i \in Sends, beginSend(p, i)
  PROVE  /\ Typed' /\ pc[p] = "idle" /\ FreeSend(i)
         /\ s.state = "connected" /\ ~RunDone(s.run)
         /\ SameSession /\ GoesTo(p, "gap")
         /\ snd'[i].run = s.run /\ snd'[i].worker = "off"
         /\ \A j \in Sends \ {i} : snd'[j].run = snd[j].run /\ snd'[j].worker = snd[j].worker
         /\ loc'[p].call = "send" /\ loc'[p].gen = loc[p].gen /\ loc'[p].run = loc[p].run
         /\ loc'[p].slot = i /\ loc'[p].wg = loc[p].wg /\ Others(p)
         /\ UNCHANGED <<m, corr, emitVars, lifecycle, envVars, port, last>>
  <1> DEFINE f == cancelWorkerLocked(cancelSend(snd))
             g == [IdleSend EXCEPT !.run = s.run]
  <1>1. /\ pc[p] = "idle" /\ MayCall /\ FreeSend(i) /\ s.state = "connected" /\ ~RunDone(s.run)
        /\ snd' = [f EXCEPT ![i] = g]
        /\ s' = [s EXCEPT !.workerCancel = None]
        /\ loc' = [loc EXCEPT ![p].call = "send", ![p].slot = i]
        /\ Goto(p, "gap") /\ ops' = ops + 1
        /\ UNCHANGED <<m, corr, emitVars, lifecycle, envVars, port, last>>
    BY DEF beginSend, Idle, CountOp
  <1>2. s' \in SessionType /\ SameSession
    BY <1>1, WorkerCancelEffect DEF SameSession, SameState, SameRun, SameCalls, SameCorr
  <1>3. /\ f \in [Sends -> SendType]
        /\ \A j \in Sends : /\ f[j].run = snd[j].run /\ f[j].worker = snd[j].worker
                            /\ f[j].left = snd[j].left
    <2>1. snd \in [Sends -> SendType] BY DEF Typed, TypeOK
    <2> QED BY <2>1, CancelEffect
  <1>4. g \in SendType /\ g.run = s.run /\ g.worker = "off"
    <2>1. s.run \in 0 .. MaxRuns /\ 0 \in 0 .. Msgs BY Constants DEF Typed, TypeOK, SessionType
    <2> QED BY <2>1 DEF SendType, IdleSend
  <1> HIDE DEF f, g
  <1>5. /\ snd' \in [Sends -> SendType] /\ snd'[i].run = s.run /\ snd'[i].worker = "off"
        /\ \A j \in Sends \ {i} : /\ snd'[j].run = snd[j].run /\ snd'[j].worker = snd[j].worker
                                  /\ snd'[j].left = snd[j].left
    BY <1>1, <1>3, <1>4
  <1>6. p \in Actors /\ "gap" \in PCs \ Emitting BY Constants DEF PCs, CallerPC, Emitting
  <1>7. GoesTo(p, "gap") /\ TypedPC /\ Control' BY <1>1, <1>6, GotoEffect DEF emitVars
  <1>8. Left'
    <2>1. \A j \in Sends : pc'[j] = pc[j] BY <1>7, Constants DEF GoesTo
    <2>2. pc[i] = "idle" BY <1>1 DEF FreeSend
    <2> QED BY <1>5, <2>1, <2>2 DEF Typed, Left
  <1>9. /\ loc' \in [Callers -> LocalType]
        /\ loc'[p].call = "send" /\ loc'[p].gen = loc[p].gen /\ loc'[p].run = loc[p].run
        /\ loc'[p].slot = i /\ loc'[p].wg = loc[p].wg /\ Others(p)
    BY ONLY Typed, <1>1 DEF Typed, TypeOK, LocalType, Others
  <1>10. TypeOK'
    BY <1>1, <1>2, <1>5, <1>7, <1>9, OpsType DEF Typed, TypeOK, TypedPC, PCs, emitVars, envVars
  <1> QED BY <1>1, <1>2, <1>5, <1>7, <1>8, <1>9, <1>10 DEF Typed

LEMMA CancelMsgEffect ==
  ASSUME Typed, NEW p \in Callers, CancelMsgSend(p)
  PROVE  /\ Typed' /\ SameSession /\ SameSends
         /\ UNCHANGED <<pc, ret, loc, m, corr, emitVars, lifecycle, envVars, port, last>>
  <1>1. /\ MayCall /\ snd' = cancelWorkerLocked(cancelSend(snd))
        /\ s' = [s EXCEPT !.workerCancel = None] /\ ops' = ops + 1
        /\ UNCHANGED <<pc, ret, loc, m, corr, emitVars, lifecycle, envVars, port, last>>
    BY DEF CancelMsgSend, Idle, CountOp
  <1>2. s' \in SessionType /\ SameSession
    BY <1>1, WorkerCancelEffect DEF SameSession, SameState, SameRun, SameCalls, SameCorr
  <1>3. /\ snd' \in [Sends -> SendType] /\ SameSends
        /\ \A i \in Sends : snd'[i].left = snd[i].left
    <2>1. snd \in [Sends -> SendType] BY DEF Typed, TypeOK
    <2> QED BY <1>1, <2>1, CancelEffect DEF SameSends
  <1>4. TypeOK' BY <1>1, <1>2, <1>3, OpsType DEF Typed, TypeOK, emitVars, envVars
  <1>5. Control' /\ Left'
    <2>1. \A a \in Actors : After(a)' = After(a) BY DEF After
    <2> QED BY <1>1, <1>3, <2>1 DEF Typed, Control, Left, emitVars
  <1> QED BY <1>1, <1>2, <1>3, <1>4, <1>5 DEF Typed

LEMMA CommitEffect ==
  ASSUME Typed, NEW p \in Callers, commitSend(p), loc[p].slot \in Sends
  PROVE  /\ Typed' /\ pc[p] = "gap" /\ SameRun /\ SameCalls /\ SameCorr
         /\ \/ GoesTo(p, "idle") /\ loc'[p] = IdleLocal /\ Others(p) /\ SameState
            \/ /\ s.state = "connected" /\ ~RunDone(snd[loc[p].slot].run)
               /\ s'.state = "sending" /\ s'.seq = "new" /\ EmitsThen(p, "spawn") /\ UNCHANGED loc
         /\ UNCHANGED <<m, snd, corr, emitVars, lifecycle, envVars, port, last>>
  <1> DEFINE i == loc[p].slot
             x == [s EXCEPT !.sendCancel = i, !.workerCancel = i]
  <1>1. /\ pc[p] = "gap"
        /\ \/ Return(p) /\ UNCHANGED s
           \/ /\ s.state = "connected" /\ ~RunDone(snd[i].run)
              /\ s' = setStateLocked(x, "sending") /\ EmitThen(p, "spawn") /\ UNCHANGED loc
        /\ UNCHANGED <<m, snd, corr, emitVars, lifecycle, envVars, port, ops, last>>
    BY DEF commitSend
  <1>2. CASE Return(p) /\ UNCHANGED s
    <2>1. /\ GoesTo(p, "idle") /\ TypedPC /\ Control'
          /\ loc' \in [Callers -> LocalType] /\ loc'[p] = IdleLocal /\ Others(p)
      BY <1>1, <1>2, ReturnEffect DEF emitVars
    <2>2. Left' BY <1>1, <2>1, LeftKept, Constants DEF GoesTo
    <2>3. TypeOK'
      BY <1>1, <1>2, <2>1 DEF Typed, TypeOK, TypedPC, PCs, emitVars, envVars
    <2> QED
      BY <1>1, <1>2, <2>1, <2>2, <2>3 DEF Typed, SameState, SameCalls, SameCorr, SameRun
  <1>3. CASE /\ s.state = "connected" /\ ~RunDone(snd[i].run)
             /\ s' = setStateLocked(x, "sending") /\ EmitThen(p, "spawn") /\ UNCHANGED loc
    <2>1. /\ x \in SessionType /\ x.gen = s.gen /\ x.connCtx = s.connCtx
          /\ x.run = s.run /\ x.runCtx = s.runCtx /\ x.conn = s.conn
          /\ x.corrCancel = s.corrCancel /\ x.corrStopping = s.corrStopping
          /\ x.corrState = s.corrState
      BY DEF Typed, TypeOK, SessionType
    <2> HIDE DEF x
    <2>2. "sending" \in States BY DEF States
    <2>3. /\ s' \in SessionType /\ s'.state = "sending" /\ s'.seq = "new"
          /\ SameRun /\ SameCalls /\ SameCorr
      BY <1>3, <2>1, <2>2, SetStateEffect DEF SameRun, SameCalls, SameCorr
    <2>4. EmitsThen(p, "spawn") /\ TypedPC /\ Control' /\ Left'
      BY <1>1, <1>3, CallerEmit DEF emitVars
    <2>5. TypeOK'
      BY <1>1, <1>3, <2>3, <2>4 DEF Typed, TypeOK, TypedPC, PCs, emitVars, envVars
    <2> QED BY <1>1, <1>3, <2>3, <2>4, <2>5 DEF Typed
  <1> QED BY <1>1, <1>2, <1>3

LEMMA SpawnEffect ==
  ASSUME Typed, NEW p \in Callers, spawnSend(p), NEW i \in Sends, i = loc[p].slot
  PROVE  /\ Typed' /\ pc[p] = "spawn" /\ loc'[p] = IdleLocal /\ Others(p)
         /\ pc'[p] = "idle" /\ At(p)' = "idle" /\ pc'[i] = "step" /\ At(i)' = "step"
         /\ \A a \in Actors \ {p, i} : pc'[a] = pc[a] /\ At(a)' = At(a)
         /\ snd'[i].run = snd[i].run /\ snd'[i].worker = "port"
         /\ \A j \in Sends \ {i} : snd'[j].run = snd[j].run /\ snd'[j].worker = snd[j].worker
         /\ UNCHANGED <<s, m, corr, emitVars, lifecycle, envVars, port, last>>
  <1>1. /\ pc[p] = "spawn" /\ snd' = [snd EXCEPT ![i].worker = "port", ![i].left = Msgs]
        /\ pc' = [pc EXCEPT ![p] = "idle", ![i] = "step"]
        /\ loc' = [loc EXCEPT ![p] = IdleLocal]
        /\ UNCHANGED <<s, ret, m, corr, emitVars, lifecycle, envVars, port, ops, last>>
    BY DEF spawnSend
  <1>2. /\ p \in Actors /\ i \in Actors /\ p # i
        /\ {"idle", "step"} \subseteq PCs \ Emitting
    BY Constants DEF PCs, CallerPC, CoordPC, Emitting
  <1>3. /\ TypedPC /\ pc'[p] = "idle" /\ pc'[i] = "step"
        /\ \A a \in Actors \ {p, i} : pc'[a] = pc[a] /\ At(a)' = At(a)
        /\ At(p)' = "idle" /\ At(i)' = "step"
    BY <1>1, <1>2 DEF Typed, TypeOK, TypedPC, PCs, At
  <1>4. Control'
    <2>1. \A a \in Actors : After(a)' = After(a) BY DEF After
    <2> QED BY <1>1, <1>3, <2>1 DEF Typed, Control, emitVars, Emitting
  <1>5. /\ snd' \in [Sends -> SendType] /\ snd'[i].run = snd[i].run /\ snd'[i].worker = "port"
        /\ snd'[i].left = Msgs
        /\ \A j \in Sends \ {i} : snd'[j] = snd[j]
    <2>1. Msgs \in 0 .. Msgs BY Constants
    <2> DEFINE n == [[snd[i] EXCEPT !.worker = "port"] EXCEPT !.left = Msgs]
    <2>2. snd \in [Sends -> SendType] BY DEF Typed, TypeOK
    <2>3. snd' = [snd EXCEPT ![i] = n] BY ONLY <1>1, <2>2 DEF SendType
    <2>4. n \in SendType /\ n.run = snd[i].run /\ n.worker = "port" /\ n.left = Msgs
      BY ONLY <2>1, <2>2 DEF SendType
    <2> HIDE DEF n
    <2> QED BY ONLY <2>2, <2>3, <2>4
  <1>6. Left' BY <1>2, <1>3, <1>5, Constants DEF Typed, Left
  <1>7. loc' \in [Callers -> LocalType] /\ loc'[p] = IdleLocal /\ Others(p)
    BY <1>1, IdleLocalType DEF Typed, TypeOK, Others
  <1>8. TypeOK' BY <1>1, <1>3, <1>5, <1>7 DEF Typed, TypeOK, TypedPC, PCs, emitVars, envVars
  <1> QED BY <1>1, <1>3, <1>4, <1>5, <1>6, <1>7, <1>8 DEF Typed

LEMMA SendRequestEffect ==
  ASSUME Typed, NEW p \in Callers, sendConfigRequest(p)
  PROVE  /\ Typed' /\ pc[p] = "request"
         /\ GoesTo(p, "endOp") \/ GoesTo(p, "offer")
         /\ loc'[p].call = loc[p].call /\ loc'[p].gen = loc[p].gen /\ loc'[p].run = loc[p].run
         /\ loc'[p].slot = loc[p].slot /\ loc'[p].wg = loc[p].wg /\ Others(p)
         /\ UNCHANGED <<s, m, snd, corr, emitVars, lifecycle, envVars, port, last>>
  <1>1. /\ pc[p] = "request"
        /\ \/ Goto(p, "endOp") /\ UNCHANGED loc
           \/ Goto(p, "offer") /\ loc' = [loc EXCEPT ![p].ch = s.pipe]
        /\ UNCHANGED <<s, m, snd, corr, emitVars, lifecycle, envVars, port, ops, last>>
    BY DEF sendConfigRequest
  <1>2. s.pipe \in 0 .. MaxRuns BY DEF Typed, TypeOK, SessionType
  <1>3. /\ loc' \in [Callers -> LocalType]
        /\ loc'[p].call = loc[p].call /\ loc'[p].gen = loc[p].gen /\ loc'[p].run = loc[p].run
        /\ loc'[p].slot = loc[p].slot /\ loc'[p].wg = loc[p].wg /\ Others(p)
    <2>1. CASE loc' = [loc EXCEPT ![p].ch = s.pipe]
      BY ONLY Typed, <1>2, <2>1 DEF Typed, TypeOK, LocalType, Others
    <2>2. CASE loc' = loc BY <2>2 DEF Typed, TypeOK, Others
    <2> QED BY <1>1, <2>1, <2>2
  <1>4. (GoesTo(p, "endOp") \/ GoesTo(p, "offer")) /\ TypedPC /\ Control' /\ Left'
    <2>1. {"endOp", "offer"} \subseteq CallerPlaces BY DEF CallerPlaces, CallerPC, Emitting
    <2> QED BY <1>1, <2>1, CallerGoto DEF emitVars
  <1>5. TypeOK' BY <1>1, <1>3, <1>4 DEF Typed, TypeOK, TypedPC, PCs, emitVars, envVars
  <1> QED BY <1>1, <1>3, <1>4, <1>5 DEF Typed

LEMMA GiveUpEffect ==
  ASSUME Typed, NEW p \in Callers, giveUpRequest(p)
  PROVE  /\ Typed' /\ pc[p] \in {"offer", "result"} /\ GoesTo(p, "endOp")
         /\ m'.conn = m.conn /\ m'.wg = m.wg /\ m'.verdict = m.verdict
         /\ m'.req = IF m.req = p THEN None ELSE m.req
         /\ UNCHANGED <<s, loc, snd, corr, emitVars, lifecycle, envVars, port, last>>
  <1>1. /\ pc[p] \in {"offer", "result"} /\ Goto(p, "endOp")
        /\ m' = [m EXCEPT !.req = IF m.req = p THEN None ELSE m.req]
        /\ UNCHANGED <<s, loc, snd, corr, emitVars, lifecycle, envVars, port, ops, last>>
    BY DEF giveUpRequest
  <1>2. GoesTo(p, "endOp") /\ TypedPC /\ Control' /\ Left'
    <2>1. "endOp" \in CallerPlaces BY DEF CallerPlaces, CallerPC, Emitting
    <2> QED BY <1>1, <2>1, CallerGoto DEF emitVars
  <1>3. /\ m' \in ManagerType
        /\ m'.conn = m.conn /\ m'.wg = m.wg /\ m'.verdict = m.verdict
        /\ m'.req = IF m.req = p THEN None ELSE m.req
    BY ONLY Typed, <1>1 DEF Typed, TypeOK, ManagerType
  <1>4. TypeOK' BY <1>1, <1>2, <1>3 DEF Typed, TypeOK, TypedPC, PCs, emitVars, envVars
  <1> QED BY <1>1, <1>2, <1>3, <1>4 DEF Typed

\* The end of an operation on run r: the state changes only if the run is still there.
Ends(a, r) ==
  \/ /\ s.run = r /\ s.state \in {"connected", "configuring", "sending"}
     /\ s.connCtx = "done" \/ s.runCtx = "live"
     /\ s'.state = (IF s.connCtx = "done" THEN "disconnected" ELSE "connected")
     /\ s'.seq = "new" /\ SameRun /\ SameCalls /\ SameCorr
     /\ EmitsThen(a, "idle")
  \/ /\ ~EndStateSet(r) /\ UNCHANGED s /\ GoesTo(a, "idle")

LEMMA EndStateEffect ==
  ASSUME Typed, NEW a \in Callers \cup Sends, NEW r, setEndState(a, r, "idle"),
         event' = event, \A i \in Sends : snd'[i].left = snd[i].left
  PROVE  Ends(a, r) /\ s' \in SessionType /\ TypedPC /\ Control' /\ Left'
  <1>1. a \in Actors /\ "idle" \in PCs \ Emitting /\ "idle" \in After(a)
    BY Constants DEF PCs, CallerPC, Emitting, After
  <1>2. CASE EndStateSet(r)
    <2> DEFINE st == IF s.connCtx = "done" THEN "disconnected" ELSE "connected"
    <2>1. s' = setStateLocked(s, st) /\ EmitThen(a, "idle") BY <1>2 DEF setEndState
    <2>2. st \in States /\ s \in SessionType BY DEF States, Typed, TypeOK
    <2>3. /\ s' \in SessionType /\ s'.state = st /\ s'.seq = "new"
          /\ SameRun /\ SameCalls /\ SameCorr
      <3> HIDE DEF st
      <3> QED BY <2>1, <2>2, SetStateEffect DEF SameRun, SameCalls, SameCorr
    <2>4. EmitsThen(a, "idle") /\ TypedPC /\ Control' BY <1>1, <2>1, EmitThenEffect
    <2>5. Left' BY <2>4, LeftKept, Constants DEF EmitsThen
    <2> QED BY <1>2, <2>3, <2>4, <2>5 DEF Ends, EndStateSet
  <1>3. CASE ~EndStateSet(r)
    <2>1. UNCHANGED s /\ Goto(a, "idle") BY <1>3 DEF setEndState
    <2>2. GoesTo(a, "idle") /\ TypedPC /\ Control' BY <1>1, <2>1, GotoEffect
    <2>3. Left' BY <2>2, LeftKept, Constants DEF GoesTo
    <2> QED BY <1>3, <2>1, <2>2, <2>3 DEF Ends, Typed, TypeOK
  <1> QED BY <1>2, <1>3

LEMMA EndConfigEffect ==
  ASSUME Typed, NEW p \in Callers, endConfig(p)
  PROVE  /\ Typed' /\ pc[p] = "endOp" /\ Ends(p, loc[p].run)
         /\ loc'[p] = IdleLocal /\ Others(p)
         /\ UNCHANGED <<m, snd, corr, emitVars, lifecycle, envVars, port, last>>
  <1>1. /\ pc[p] = "endOp" /\ setEndState(p, loc[p].run, "idle")
        /\ loc' = [loc EXCEPT ![p] = IdleLocal]
        /\ UNCHANGED <<m, snd, corr, emitVars, lifecycle, envVars, port, ops, last>>
    BY DEF endConfig
  <1>2. Ends(p, loc[p].run) /\ s' \in SessionType /\ TypedPC /\ Control' /\ Left'
    BY <1>1, EndStateEffect DEF emitVars
  <1>3. loc' \in [Callers -> LocalType] /\ loc'[p] = IdleLocal /\ Others(p)
    BY <1>1, IdleLocalType DEF Typed, TypeOK, Others
  <1>4. TypeOK' BY <1>1, <1>2, <1>3 DEF Typed, TypeOK, TypedPC, PCs, emitVars, envVars
  <1> QED BY <1>1, <1>2, <1>3, <1>4 DEF Typed

LEMMA EndSendEffect ==
  ASSUME Typed, NEW i \in Sends, endSend(i)
  PROVE  /\ Typed' /\ pc[i] = "endOp" /\ Ends(i, snd[i].run)
         /\ UNCHANGED <<loc, m, snd, corr, emitVars, lifecycle, envVars, port, last>>
  <1>1. /\ pc[i] = "endOp" /\ setEndState(i, snd[i].run, "idle")
        /\ UNCHANGED <<loc, m, snd, corr, emitVars, lifecycle, envVars, port, ops, last>>
    BY DEF endSend
  <1>2. Ends(i, snd[i].run) /\ s' \in SessionType /\ TypedPC /\ Control' /\ Left'
    BY <1>1, EndStateEffect DEF emitVars
  <1>3. TypeOK' BY <1>1, <1>2 DEF Typed, TypeOK, TypedPC, PCs, emitVars, envVars
  <1> QED BY <1>1, <1>2, <1>3 DEF Typed

-----------------------------------------------------------------------------
(* The goroutines of a send, and of a correction session. *)

\* A step of the coordinator; it may hand a message to the worker.
LEMMA CoordEffect ==
  ASSUME Typed, NEW i \in Sends,
         coordStep(i) \/ coordReply(i) \/ coordCancelled(i) \/ finishSend(i)
  PROVE  /\ Typed' /\ SameSession
         /\ pc[i] \in {"step", "reply", "finish"}
         /\ \E l \in {"step", "reply", "finish", "endOp"} : GoesTo(i, l)
         /\ \A j \in Sends : /\ snd'[j].run = snd[j].run
                             /\ \/ snd'[j].worker = snd[j].worker
                                \/ snd[j].worker = "loop" /\ snd'[j].worker = "wait"
         /\ UNCHANGED <<loc, m, corr, emitVars, lifecycle, envVars, port, last>>
  <1> DEFINE Works == /\ snd' \in [Sends -> SendType]
                      /\ \A j \in Sends : /\ snd'[j].run = snd[j].run
                                          /\ \/ snd'[j].worker = snd[j].worker
                                             \/ snd[j].worker = "loop" /\ snd'[j].worker = "wait"
             Keeps == s' \in SessionType /\ SameSession
             Rest  == UNCHANGED <<loc, m, corr, emitVars, lifecycle, envVars, port, ops, last>>
  <1>1. /\ i \in Actors
        /\ {"step", "reply", "finish", "endOp"} \subseteq PCs \ Emitting
    BY Constants DEF PCs, CallerPC, CoordPC, Emitting
  <1>2. /\ \E l \in {"step", "reply", "finish", "endOp"} : GoesTo(i, l)
        /\ TypedPC /\ Control' /\ Left' /\ Works /\ Keeps /\ Rest
        /\ pc[i] \in {"step", "reply", "finish"}
    <2>1. CASE coordStep(i)
      <3>1. /\ pc[i] = "step" /\ snd[i].worker = "loop" /\ Goto(i, "reply")
            /\ snd' = [snd EXCEPT ![i].worker = "wait"] /\ s' = s /\ Rest
        BY <2>1 DEF coordStep
      <3>2. GoesTo(i, "reply") /\ TypedPC /\ Control' BY <1>1, <3>1, GotoEffect DEF emitVars
      <3>3. /\ snd' \in [Sends -> SendType] /\ snd'[i].run = snd[i].run
            /\ snd'[i].worker = "wait" /\ snd'[i].left = snd[i].left
            /\ \A j \in Sends \ {i} : snd'[j] = snd[j]
        BY ONLY Typed, <3>1 DEF Typed, TypeOK, SendType
      <3>4. Left' BY <1>1, <3>1, <3>2, <3>3, Constants DEF Typed, Left, GoesTo
      <3>5. Keeps BY <3>1 DEF Typed, TypeOK, SameSession, SameState, SameRun, SameCalls, SameCorr
      <3> QED BY <3>1, <3>2, <3>3, <3>4, <3>5
    <2>2. CASE coordReply(i)
      <3> DEFINE l == IF snd[i].reply = "ok" /\ snd[i].left > 1 THEN "step" ELSE "finish"
      <3>1. /\ pc[i] = "reply" /\ Goto(i, l)
            /\ snd' = [snd EXCEPT ![i].reply = "none", ![i].left = snd[i].left - 1]
            /\ s' = s /\ Rest
        BY <2>2 DEF coordReply
      <3>2. l \in {"step", "finish"} /\ (l = "step" => snd[i].left > 1) OBVIOUS
      <3> HIDE DEF l
      <3>3. GoesTo(i, l) /\ TypedPC /\ Control' BY <1>1, <3>1, <3>2, GotoEffect DEF emitVars
      <3>4. snd[i].left \in 0 .. Msgs /\ snd[i].left # 0
        BY <3>1 DEF Typed, TypeOK, SendType, Left
      <3>5. snd[i].left - 1 \in 0 .. Msgs BY <3>4, Constants
      <3>6. /\ snd' \in [Sends -> SendType] /\ snd'[i].run = snd[i].run
            /\ snd'[i].worker = snd[i].worker /\ snd'[i].left = snd[i].left - 1
            /\ \A j \in Sends \ {i} : snd'[j] = snd[j]
        BY ONLY Typed, <3>1, <3>5 DEF Typed, TypeOK, SendType
      <3>7. Left'
        <4>1. pc'[i] = "step" => snd'[i].left # 0 BY <3>2, <3>3, <3>4, <3>6 DEF GoesTo
        <4>2. pc'[i] # "reply" BY <3>2, <3>3 DEF GoesTo
        <4> QED BY <1>1, <3>3, <3>6, <4>1, <4>2, Constants DEF Typed, Left, GoesTo
      <3>8. Keeps BY <3>1 DEF Typed, TypeOK, SameSession, SameState, SameRun, SameCalls, SameCorr
      <3> QED BY <3>1, <3>2, <3>3, <3>6, <3>7, <3>8
    <2>3. CASE coordCancelled(i)
      <3>1. pc[i] \in {"step", "reply"} /\ Goto(i, "finish") /\ snd' = snd /\ s' = s /\ Rest
        BY <2>3 DEF coordCancelled
      <3>2. GoesTo(i, "finish") /\ TypedPC /\ Control' BY <1>1, <3>1, GotoEffect DEF emitVars
      <3>3. Left' BY <3>1, <3>2, LeftKept, Constants DEF GoesTo
      <3>4. Keeps /\ Works
        BY <3>1 DEF Typed, TypeOK, SameSession, SameState, SameRun, SameCalls, SameCorr
      <3> QED BY <3>1, <3>2, <3>3, <3>4
    <2>4. CASE finishSend(i)
      <3>1. /\ pc[i] = "finish" /\ Goto(i, "endOp") /\ snd' = snd /\ Rest
            /\ s' = [s EXCEPT !.sendCancel = None] \/ s' = s
        BY <2>4 DEF finishSend
      <3>2. GoesTo(i, "endOp") /\ TypedPC /\ Control' BY <1>1, <3>1, GotoEffect DEF emitVars
      <3>3. Left' BY <3>1, <3>2, LeftKept, Constants DEF GoesTo
      <3>4. Keeps
        <4>1. CASE s' = s
          BY <4>1 DEF Typed, TypeOK, SameSession, SameState, SameRun, SameCalls, SameCorr
        <4>2. CASE s' = [s EXCEPT !.sendCancel = None]
          BY ONLY Typed, <4>2
          DEF Typed, TypeOK, SessionType, SameSession, SameState, SameRun, SameCalls, SameCorr
        <4> QED BY <3>1, <4>1, <4>2
      <3>5. Works BY <3>1 DEF Typed, TypeOK
      <3> QED BY <3>1, <3>2, <3>3, <3>4, <3>5
    <2> QED BY <2>1, <2>2, <2>3, <2>4
  <1>3. TypeOK' BY <1>2 DEF Typed, TypeOK, TypedPC, PCs, emitVars, envVars
  <1> QED BY <1>2, <1>3 DEF Typed

\* What the worker does to the port of its run.
Works(i) ==
  \/ snd[i].worker = "port" /\ snd'[i].worker = "off" /\ port' = port
  \/ /\ snd[i].worker = "port" /\ snd'[i].worker = "loop"
     /\ port[snd[i].run] = None /\ port' = [port EXCEPT ![snd[i].run] = i]
  \/ snd[i].worker = "wait" /\ snd'[i].worker = "loop" /\ port' = port
  \/ /\ snd[i].worker = "loop" /\ snd'[i].worker = "off"
     /\ port' = [port EXCEPT ![snd[i].run] = None]

LEMMA WorkerEffect ==
  ASSUME Typed, NEW i \in Sends, WorkerStep(i)
  PROVE  /\ Typed' /\ Works(i)
         /\ \A j \in Sends : snd'[j].run = snd[j].run
         /\ \A j \in Sends \ {i} : snd'[j] = snd[j]
         /\ UNCHANGED <<s, pc, ret, loc, m, corr, emitVars, lifecycle, envVars, last>>
  <1>1. UNCHANGED <<s, pc, ret, loc, m, corr, emitVars, lifecycle, envVars, ops, last>>
    BY DEF WorkerStep, workerPort, workerWaitStep, workerExit
  <1>2. /\ snd' \in [Sends -> SendType] /\ Works(i)
        /\ \A j \in Sends : snd'[j].run = snd[j].run /\ snd'[j].left = snd[j].left
        /\ \A j \in Sends \ {i} : snd'[j] = snd[j]
    <2>1. ASSUME NEW w \in {"off", "loop"}, snd' = [snd EXCEPT ![i].worker = w]
          PROVE  /\ snd' \in [Sends -> SendType] /\ snd'[i].worker = w
                 /\ \A j \in Sends : snd'[j].run = snd[j].run /\ snd'[j].left = snd[j].left
                 /\ \A j \in Sends \ {i} : snd'[j] = snd[j]
      BY ONLY Typed, <2>1 DEF Typed, TypeOK, SendType
    <2>2. CASE workerPort(i) BY <2>1, <2>2 DEF workerPort, Works
    <2>3. CASE workerWaitStep(i)
      <3>1. PICK r \in {"ok", "err"} : snd' = [snd EXCEPT ![i].worker = "loop", ![i].reply = r]
        BY <2>3 DEF workerWaitStep
      <3>2. snd[i].worker = "wait" /\ port' = port BY <2>3 DEF workerWaitStep
      <3> DEFINE c == [[snd[i] EXCEPT !.worker = "loop"] EXCEPT !.reply = r]
      <3>4. snd \in [Sends -> SendType] BY DEF Typed, TypeOK
      <3>5. snd' = [snd EXCEPT ![i] = c] BY ONLY <3>1, <3>4 DEF SendType
      <3>6. c \in SendType /\ c.worker = "loop" /\ c.run = snd[i].run /\ c.left = snd[i].left
        BY ONLY <3>4 DEF SendType
      <3> HIDE DEF c
      <3>3. /\ snd' \in [Sends -> SendType] /\ snd'[i].worker = "loop"
            /\ \A j \in Sends : snd'[j].run = snd[j].run /\ snd'[j].left = snd[j].left
            /\ \A j \in Sends \ {i} : snd'[j] = snd[j]
        BY ONLY <3>4, <3>5, <3>6
      <3> QED BY <3>2, <3>3 DEF Works
    <2>4. CASE workerExit(i) BY <2>1, <2>4 DEF workerExit, Works
    <2> QED BY <2>2, <2>3, <2>4 DEF WorkerStep
  <1>3. port' \in [Runs -> {Mgr, None} \cup Sends \cup Corrs]
    <2>1. port \in [Runs -> {Mgr, None} \cup Sends \cup Corrs] BY DEF Typed, TypeOK
    <2> QED BY <1>2, <2>1, PortType DEF Works
  <1>4. Control' /\ Left'
    <2>1. \A a \in Actors : After(a)' = After(a) BY DEF After
    <2> QED BY <1>1, <1>2, <2>1 DEF Typed, Control, Left, emitVars
  <1>5. TypeOK' BY <1>1, <1>2, <1>3 DEF Typed, TypeOK, emitVars, envVars
  <1> QED BY <1>1, <1>2, <1>4, <1>5 DEF Typed

\* A correction session k starts on the current run.
Starts(k) ==
  /\ CorrDone(k) /\ s'.corrCancel = k /\ s'.corrState = "active"
  /\ corr'[k].pc = "run" /\ corr'[k].ctx = "live" /\ corr'[k].run = s.run
  /\ \A j \in Corrs \ {k} : corr'[j] = corr[j]

LEMMA StartSessionEffect ==
  ASSUME Typed, NEW k \in Corrs, CorrDone(k), NEW x \in SessionType, startSession(x, k)
  PROVE  /\ s' \in SessionType /\ corr' \in [Corrs -> CorrType] /\ Starts(k)
         /\ s'.state = x.state /\ s'.seq = x.seq /\ s'.gen = x.gen /\ s'.connCtx = x.connCtx
         /\ s'.run = x.run /\ s'.runCtx = x.runCtx /\ s'.conn = x.conn
         /\ s'.corrStopping = x.corrStopping
  <1> DEFINE c == [pc |-> "run", ctx |-> "live", run |-> s.run, left |-> MaxWrites]
  <1>1. s' = [x EXCEPT !.corrCancel = k, !.corrState = "active"] /\ corr' = [corr EXCEPT ![k] = c]
    BY DEF startSession
  <1>2. c \in CorrType /\ c.pc = "run" /\ c.ctx = "live" /\ c.run = s.run
    <2>1. s.run \in 0 .. MaxRuns /\ MaxWrites \in 0 .. MaxWrites
      BY Constants DEF Typed, TypeOK, SessionType
    <2> QED BY <2>1 DEF CorrType
  <1> HIDE DEF c
  <1>3. /\ corr' \in [Corrs -> CorrType] /\ corr'[k] = c
        /\ \A j \in Corrs \ {k} : corr'[j] = corr[j]
    BY <1>1, <1>2 DEF Typed, TypeOK
  <1>4. /\ s' \in SessionType /\ s'.corrCancel = k /\ s'.corrState = "active"
        /\ s'.state = x.state /\ s'.seq = x.seq /\ s'.gen = x.gen /\ s'.connCtx = x.connCtx
        /\ s'.run = x.run /\ s'.runCtx = x.runCtx /\ s'.conn = x.conn
        /\ s'.corrStopping = x.corrStopping
    BY <1>1 DEF SessionType
  <1> QED BY <1>2, <1>3, <1>4 DEF Starts

\* stopCorrLocked with a session to stop: goroutine p waits for it at l.
Stops(p, l) ==
  /\ s.corrCancel # None /\ s'.corrCancel = None /\ s'.corrStopping = "yes"
  /\ s'.corrState = s.corrState /\ Cancels(s.corrCancel)
  /\ loc'[p].call = "corr" /\ loc'[p].gen = loc[p].gen /\ loc'[p].run = loc[p].run
  /\ loc'[p].slot = loc[p].slot /\ loc'[p].wg = s.corrCancel /\ Others(p)
  /\ GoesTo(p, l)

LEMMA StopAndWaitEffect ==
  ASSUME Typed, NEW p \in Callers, NEW l \in {"restart", "stopWait"}, StopAndWait(p, l),
         s.corrCancel # None, snd' = snd, event' = event
  PROVE  /\ Stops(p, l) /\ s' \in SessionType /\ corr' \in [Corrs -> CorrType]
         /\ SameState /\ SameRun /\ SameCalls
         /\ loc' \in [Callers -> LocalType] /\ TypedPC /\ Control' /\ Left'
  <1>1. /\ s' = stopCorrLocked(s) /\ corr' = CancelCorr(s.corrCancel)
        /\ loc' = [loc EXCEPT ![p].call = "corr", ![p].wg = s.corrCancel] /\ Goto(p, l)
    BY DEF StopAndWait
  <1>2. s \in SessionType BY DEF Typed, TypeOK
  <1>3. /\ s' \in SessionType /\ SameState /\ SameRun /\ SameCalls
        /\ s'.corrCancel = None /\ s'.corrStopping = "yes" /\ s'.corrState = s.corrState
    BY <1>1, <1>2, StopCorrEffect DEF SameState, SameRun, SameCalls
  <1>4. corr' \in [Corrs -> CorrType] /\ Cancels(s.corrCancel) BY <1>1, CancelCorrEffect
  <1>5. s.corrCancel \in Corrs \cup {None} BY DEF Typed, TypeOK, SessionType
  <1>6. /\ loc' \in [Callers -> LocalType]
        /\ loc'[p].call = "corr" /\ loc'[p].gen = loc[p].gen /\ loc'[p].run = loc[p].run
        /\ loc'[p].slot = loc[p].slot /\ loc'[p].wg = s.corrCancel /\ Others(p)
    <2> DEFINE n == [[loc[p] EXCEPT !.call = "corr"] EXCEPT !.wg = s.corrCancel]
    <2>1. loc \in [Callers -> LocalType] BY DEF Typed, TypeOK
    <2>2. loc' = [loc EXCEPT ![p] = n] BY ONLY <1>1, <2>1 DEF LocalType
    <2>3. /\ n \in LocalType /\ n.call = "corr" /\ n.gen = loc[p].gen
          /\ n.run = loc[p].run /\ n.slot = loc[p].slot /\ n.wg = s.corrCancel
      BY ONLY <1>5, <2>1 DEF LocalType
    <2> HIDE DEF n
    <2> QED BY ONLY <2>1, <2>2, <2>3 DEF Others
  <1>7. GoesTo(p, l) /\ TypedPC /\ Control' /\ Left'
    <2>1. l \in CallerPlaces BY DEF CallerPlaces, CallerPC, Emitting
    <2> QED BY <1>1, <2>1, CallerGoto
  <1> QED BY <1>3, <1>4, <1>6, <1>7 DEF Stops

LEMMA PcsKept ==
  ASSUME Typed, UNCHANGED <<pc, ret, snd, event>>
  PROVE  Control' /\ Left' /\ Stay
  <1>1. \A a \in Actors : After(a)' = After(a) BY DEF After
  <1> QED BY <1>1 DEF Typed, Control, Left, Stay, At

LEMMA StartEffect ==
  ASSUME Typed, NEW p \in Callers, StartCorrections(p)
  PROVE  /\ Typed' /\ pc[p] = "idle" /\ s.corrStopping = "no" /\ CanStart
         /\ SameState /\ SameRun /\ SameCalls
         /\ \/ /\ s.corrCancel = None /\ s'.corrStopping = "no"
               /\ \E k \in Corrs : Starts(k)
               /\ UNCHANGED <<pc, ret, loc>>
            \/ Stops(p, "restart")
         /\ UNCHANGED <<m, snd, emitVars, lifecycle, envVars, port, last>>
  <1>1. /\ pc[p] = "idle" /\ MayCall /\ CanStart /\ s.corrStopping = "no" /\ ops' = ops + 1
        /\ UNCHANGED <<m, snd, emitVars, lifecycle, envVars, port, last>>
    BY DEF StartCorrections, Idle, CountOp
  <1>2. s \in SessionType BY DEF Typed, TypeOK
  <1>3. CASE s.corrCancel = None
    <2>1. /\ UNCHANGED <<pc, ret, loc>>
          /\ \E k \in Corrs : CorrDone(k) /\ startSession(s, k)
      BY <1>3 DEF StartCorrections
    <2>2. PICK k \in Corrs : CorrDone(k) /\ startSession(s, k) BY <2>1
    <2>3. /\ s' \in SessionType /\ corr' \in [Corrs -> CorrType] /\ Starts(k)
          /\ SameState /\ SameRun /\ SameCalls /\ s'.corrStopping = "no"
      BY <1>1, <1>2, <2>2, StartSessionEffect DEF SameState, SameRun, SameCalls
    <2>4. Control' /\ Left' BY <1>1, <2>1, PcsKept DEF emitVars
    <2>5. TypeOK' BY <1>1, <2>1, <2>3, OpsType DEF Typed, TypeOK, emitVars, envVars
    <2> QED BY <1>1, <1>3, <2>1, <2>3, <2>4, <2>5 DEF Typed
  <1>4. CASE s.corrCancel # None
    <2>1. StopAndWait(p, "restart") BY <1>4 DEF StartCorrections
    <2>2. /\ Stops(p, "restart") /\ s' \in SessionType /\ corr' \in [Corrs -> CorrType]
          /\ SameState /\ SameRun /\ SameCalls
          /\ loc' \in [Callers -> LocalType] /\ TypedPC /\ Control' /\ Left'
      BY <1>1, <1>4, <2>1, StopAndWaitEffect DEF emitVars
    <2>3. TypeOK'
      BY <1>1, <2>2, OpsType DEF Typed, TypeOK, TypedPC, PCs, emitVars, envVars
    <2> QED BY <1>1, <2>2, <2>3 DEF Typed
  <1> QED BY <1>3, <1>4

LEMMA StopEffect ==
  ASSUME Typed, NEW p \in Callers, StopCorrections(p)
  PROVE  /\ Typed' /\ pc[p] = "idle" /\ s.corrStopping = "no"
         /\ SameState /\ SameRun /\ SameCalls
         /\ \/ /\ s.corrCancel = None /\ s'.corrCancel = None /\ s'.corrStopping = "no"
               /\ s'.corrState = "stopped" /\ UNCHANGED <<pc, ret, loc, corr>>
            \/ Stops(p, "stopWait")
         /\ UNCHANGED <<m, snd, emitVars, lifecycle, envVars, port, last>>
  <1>1. /\ pc[p] = "idle" /\ MayCall /\ s.corrStopping = "no" /\ ops' = ops + 1
        /\ UNCHANGED <<m, snd, emitVars, lifecycle, envVars, port, last>>
    BY DEF StopCorrections, Idle, CountOp
  <1>2. s \in SessionType BY DEF Typed, TypeOK
  <1>3. CASE s.corrCancel = None
    <2>1. s' = stopCorrLocked(s) /\ UNCHANGED <<pc, ret, loc, corr>>
      BY <1>3 DEF StopCorrections
    <2>2. /\ s' \in SessionType /\ SameState /\ SameRun /\ SameCalls
          /\ s'.corrCancel = None /\ s'.corrStopping = "no" /\ s'.corrState = "stopped"
      BY <1>1, <1>2, <1>3, <2>1, StopCorrEffect DEF SameState, SameRun, SameCalls
    <2>3. Control' /\ Left' BY <1>1, <2>1, PcsKept DEF emitVars
    <2>4. TypeOK' BY <1>1, <2>1, <2>2, OpsType DEF Typed, TypeOK, emitVars, envVars
    <2> QED BY <1>1, <1>3, <2>1, <2>2, <2>3, <2>4 DEF Typed
  <1>4. CASE s.corrCancel # None
    <2>1. StopAndWait(p, "stopWait") BY <1>4 DEF StopCorrections
    <2>2. /\ Stops(p, "stopWait") /\ s' \in SessionType /\ corr' \in [Corrs -> CorrType]
          /\ SameState /\ SameRun /\ SameCalls
          /\ loc' \in [Callers -> LocalType] /\ TypedPC /\ Control' /\ Left'
      BY <1>1, <1>4, <2>1, StopAndWaitEffect DEF emitVars
    <2>3. TypeOK'
      BY <1>1, <2>2, OpsType DEF Typed, TypeOK, TypedPC, PCs, emitVars, envVars
    <2> QED BY <1>1, <2>2, <2>3 DEF Typed
  <1> QED BY <1>3, <1>4

\* The session that a call has stopped is gone.
LEMMA AfterStopEffect ==
  ASSUME Typed, NEW p \in Callers, restart(p) \/ stopWait(p)
  PROVE  /\ Typed' /\ pc[p] \in {"restart", "stopWait"} /\ CorrDone(loc[p].wg)
         /\ GoesTo(p, "idle") /\ loc'[p] = IdleLocal /\ Others(p)
         /\ SameState /\ SameRun /\ SameCalls /\ s'.corrStopping = "no"
         /\ \/ CanStart /\ \E k \in Corrs : Starts(k)
            \/ s'.corrCancel = s.corrCancel /\ s'.corrState = s.corrState /\ corr' = corr
         /\ UNCHANGED <<m, snd, emitVars, lifecycle, envVars, port, last>>
  <1> DEFINE x == [s EXCEPT !.corrStopping = "no"]
  <1>1. /\ pc[p] \in {"restart", "stopWait"} /\ CorrDone(loc[p].wg) /\ Return(p)
        /\ \/ CanStart /\ \E k \in Corrs : CorrDone(k) /\ startSession(x, k)
           \/ s' = x /\ corr' = corr
        /\ UNCHANGED <<m, snd, emitVars, lifecycle, envVars, port, ops, last>>
    BY DEF restart, stopWait
  <1>2. /\ x \in SessionType /\ x.state = s.state /\ x.seq = s.seq /\ x.gen = s.gen
        /\ x.connCtx = s.connCtx /\ x.run = s.run /\ x.runCtx = s.runCtx /\ x.conn = s.conn
        /\ x.corrCancel = s.corrCancel /\ x.corrStopping = "no" /\ x.corrState = s.corrState
    BY DEF Typed, TypeOK, SessionType
  <1> HIDE DEF x
  <1>3. /\ GoesTo(p, "idle") /\ TypedPC /\ Control'
        /\ loc' \in [Callers -> LocalType] /\ loc'[p] = IdleLocal /\ Others(p)
    BY <1>1, ReturnEffect DEF emitVars
  <1>4. Left' BY <1>1, <1>3, LeftKept, Constants DEF GoesTo
  <1>5. /\ s' \in SessionType /\ corr' \in [Corrs -> CorrType]
        /\ SameState /\ SameRun /\ SameCalls /\ s'.corrStopping = "no"
        /\ \/ CanStart /\ \E k \in Corrs : Starts(k)
           \/ s'.corrCancel = s.corrCancel /\ s'.corrState = s.corrState /\ corr' = corr
    <2>1. ASSUME NEW k \in Corrs, CanStart, CorrDone(k), startSession(x, k)
          PROVE <1>5
      BY <1>2, <2>1, StartSessionEffect DEF SameState, SameRun, SameCalls
    <2>2. ASSUME s' = x, corr' = corr
          PROVE <1>5
      BY <1>2, <2>2 DEF Typed, TypeOK, SameState, SameRun, SameCalls
    <2> QED BY <1>1, <2>1, <2>2
  <1>6. TypeOK' BY <1>1, <1>3, <1>5 DEF Typed, TypeOK, TypedPC, PCs, emitVars, envVars
  <1> QED BY <1>1, <1>3, <1>4, <1>5, <1>6 DEF Typed

\* What the goroutines of session k do.
CorrDoes(k) ==
  \/ /\ corr[k].pc = "run" /\ corr'[k].pc = "write"
     /\ corr'[k].ctx = corr[k].ctx /\ corr'[k].run = corr[k].run
     /\ port[corr[k].run] = None /\ port' = [port EXCEPT ![corr[k].run] = k] /\ s' = s
  \/ /\ corr[k].pc = "write" /\ corr'[k].pc = "run"
     /\ corr'[k].ctx = corr[k].ctx /\ corr'[k].run = corr[k].run
     /\ port' = [port EXCEPT ![corr[k].run] = None] /\ s' = s
  \/ /\ corr[k].pc = "run" /\ corr'[k] = corr[k] /\ port' = port
     /\ s.corrState = "stopped" /\ s'.corrState = "active"
  \/ /\ corr[k].pc = "run" /\ corr'[k].pc = "off" /\ port' = port
     /\ s'.corrState \in {"stopped", "failed"}

LEMMA CorrEffect ==
  ASSUME Typed, NEW k \in Corrs, CorrStep(k)
  PROVE  /\ Typed' /\ CorrDoes(k) /\ SameState /\ SameRun /\ SameCalls
         /\ s'.corrCancel = s.corrCancel /\ s'.corrStopping = s.corrStopping
         /\ \A j \in Corrs \ {k} : corr'[j] = corr[j]
         /\ UNCHANGED <<pc, ret, loc, m, snd, emitVars, lifecycle, envVars, last>>
  <1> DEFINE Keeps == /\ s' \in SessionType /\ SameState /\ SameRun /\ SameCalls
                      /\ s'.corrCancel = s.corrCancel /\ s'.corrStopping = s.corrStopping
             Others1 == \A j \in Corrs \ {k} : corr'[j] = corr[j]
  <1>1. UNCHANGED <<pc, ret, loc, m, snd, emitVars, lifecycle, envVars, ops, last>>
    BY DEF CorrStep, corrWrite, corrWritten, corrReport, corrExit
  <1>2. s' = s => Keeps BY DEF Typed, TypeOK, SameState, SameRun, SameCalls
  <1>3. ASSUME NEW t \in {"stopped", "active", "failed"}, s' = [s EXCEPT !.corrState = t]
        PROVE  Keeps /\ s'.corrState = t
    BY ONLY Typed, <1>3 DEF Typed, TypeOK, SessionType, SameState, SameRun, SameCalls
  <1>4. Keeps /\ CorrDoes(k) /\ corr' \in [Corrs -> CorrType] /\ Others1
    <2>1. CASE corrWrite(k)
      <3>1. /\ corr[k].pc = "run" /\ corr[k].left > 0 /\ port[corr[k].run] = None /\ s' = s
            /\ port' = [port EXCEPT ![corr[k].run] = k]
            /\ corr' = [corr EXCEPT ![k].pc = "write", ![k].left = corr[k].left - 1]
        BY <2>1 DEF corrWrite
      <3>2. corr[k].left - 1 \in 0 .. MaxWrites
        BY <3>1, Constants DEF Typed, TypeOK, CorrType
      <3>3. /\ corr' \in [Corrs -> CorrType] /\ corr'[k].pc = "write"
            /\ corr'[k].ctx = corr[k].ctx /\ corr'[k].run = corr[k].run /\ Others1
        BY ONLY Typed, <3>1, <3>2 DEF Typed, TypeOK, CorrType
      <3> QED BY <1>2, <3>1, <3>3 DEF CorrDoes
    <2>2. CASE corrWritten(k)
      <3>1. /\ corr[k].pc = "write" /\ s' = s
            /\ port' = [port EXCEPT ![corr[k].run] = None]
            /\ corr' = [corr EXCEPT ![k].pc = "run"]
        BY <2>2 DEF corrWritten
      <3>2. /\ corr' \in [Corrs -> CorrType] /\ corr'[k].pc = "run"
            /\ corr'[k].ctx = corr[k].ctx /\ corr'[k].run = corr[k].run /\ Others1
        BY ONLY Typed, <3>1 DEF Typed, TypeOK, CorrType
      <3> QED BY <1>2, <3>1, <3>2 DEF CorrDoes
    <2>3. CASE corrReport(k) BY <1>3, <2>3 DEF corrReport, CorrDoes, Typed, TypeOK
    <2>4. CASE corrExit(k)
      <3>1. /\ corr[k].pc = "run" /\ corr' = [corr EXCEPT ![k] = IdleCorr] /\ port' = port
            /\ \E t \in {"stopped", "failed"} : s' = [s EXCEPT !.corrState = t]
        BY <2>4 DEF corrExit
      <3>2. IdleCorr \in CorrType /\ IdleCorr.pc = "off" BY Constants DEF IdleCorr, CorrType
      <3>3. corr' \in [Corrs -> CorrType] /\ corr'[k] = IdleCorr /\ Others1
        BY <3>1, <3>2 DEF Typed, TypeOK
      <3>4. Keeps /\ s'.corrState \in {"stopped", "failed"} BY <1>3, <3>1
      <3> QED BY <3>1, <3>2, <3>3, <3>4 DEF CorrDoes
    <2> QED BY <2>1, <2>2, <2>3, <2>4 DEF CorrStep
  <1>5. port' \in [Runs -> {Mgr, None} \cup Sends \cup Corrs]
    <2>1. port \in [Runs -> {Mgr, None} \cup Sends \cup Corrs] BY DEF Typed, TypeOK
    <2> QED BY <1>4, <2>1, PortType DEF CorrDoes
  <1>6. Control' /\ Left' BY <1>1, PcsKept DEF emitVars
  <1>7. TypeOK' BY <1>1, <1>4, <1>5 DEF Typed, TypeOK, emitVars, envVars
  <1> QED BY <1>1, <1>4, <1>6, <1>7 DEF Typed

-----------------------------------------------------------------------------
(* Publishing, and the loss of the transport. *)

LEMMA EmitEffect ==
  ASSUME Typed, NEW a \in Actors, emitStateChange(a)
  PROVE  /\ Typed' /\ pc[a] = "emit" /\ Stay /\ ret[a] \in After(a)
         /\ s'.state = s.state /\ SameRun /\ SameCalls /\ SameCorr
         /\ \/ /\ emitting # None \/ s.seq = "old"
               /\ Returns(a) /\ s' = s /\ UNCHANGED emitVars
            \/ /\ emitting = None /\ emitting' = a /\ event'[a] = s.state
               /\ s'.seq = "old" /\ pc'[a] = "publish" /\ published' = published
               /\ \A b \in Actors \ {a} : pc'[b] = pc[b] /\ event'[b] = event[b]
         /\ UNCHANGED <<loc, m, snd, corr, lifecycle, envVars, port, last>>
  <1>1. /\ pc[a] = "emit" /\ pc[a] \in Emitting
        /\ UNCHANGED <<loc, m, snd, corr, lifecycle, envVars, port, ops, last>>
    BY DEF emitStateChange, Emitting
  <1>2. CASE emitting # None \/ s.seq = "old"
    <2>1. EmitReturn(a) /\ UNCHANGED <<s, emitVars>> BY <1>2 DEF emitStateChange
    <2>2. Returns(a) /\ TypedPC /\ ret[a] \in After(a) /\ Control'
      BY <1>1, <2>1, EmitReturnEffect DEF emitVars
    <2>3. Left'
      <3>1. ret[a] \notin {"step", "reply"} BY <2>2 DEF After
      <3> QED BY <1>1, <2>2, <3>1, LeftKept, Constants DEF Returns
    <2>4. TypeOK' BY <1>1, <2>1, <2>2 DEF Typed, TypeOK, TypedPC, PCs, emitVars, envVars
    <2> QED
      BY <1>1, <1>2, <2>1, <2>2, <2>3, <2>4 DEF Typed, Returns, SameRun, SameCalls, SameCorr
  <1>3. CASE ~(emitting # None \/ s.seq = "old")
    <2>1. /\ emitting' = a /\ event' = [event EXCEPT ![a] = s.state]
          /\ s' = [s EXCEPT !.seq = "old"] /\ Goto(a, "publish") /\ published' = published
      BY <1>3 DEF emitStateChange
    <2>2. /\ pc' = [pc EXCEPT ![a] = "publish"] /\ ret' = ret
          /\ "publish" \in PCs
      BY <2>1 DEF Goto, PCs, CallerPC
    <2>3. /\ TypedPC /\ Stay /\ pc'[a] = "publish"
          /\ \A b \in Actors \ {a} : pc'[b] = pc[b]
      BY <1>1, <2>2 DEF Typed, TypeOK, PCs, TypedPC, Stay, At, Emitting
    <2>4. /\ s' \in SessionType /\ s'.state = s.state /\ s'.seq = "old"
          /\ SameRun /\ SameCalls /\ SameCorr /\ s.state \in States
      BY ONLY Typed, <2>1 DEF Typed, TypeOK, SessionType, SameRun, SameCalls, SameCorr
    <2>5. /\ event' \in [Actors -> States \cup {None}] /\ event'[a] = s.state
          /\ \A b \in Actors \ {a} : event'[b] = event[b]
      BY <2>1, <2>4 DEF Typed, TypeOK
    <2>6. ret[a] \in After(a) BY <1>1 DEF Typed, Control
    <2>7. Control'
      <3>1. \A b \in Actors : After(b)' = After(b) BY DEF After
      <3> QED BY <2>2, <2>3, <2>4, <2>5, <2>6, <3>1 DEF Typed, Control, Emitting
    <2>8. Left' BY <1>1, <2>3, LeftKept, Constants
    <2>9. TypeOK'
      BY <1>1, <2>1, <2>3, <2>4, <2>5 DEF Typed, TypeOK, TypedPC, PCs, envVars
    <2> QED BY <1>1, <1>3, <2>1, <2>3, <2>4, <2>5, <2>6, <2>7, <2>8, <2>9 DEF Typed
  <1> QED BY <1>2, <1>3

LEMMA PublishEffect ==
  ASSUME Typed, NEW a \in Actors, publish(a)
  PROVE  /\ Typed' /\ pc[a] = "publish" /\ Stay /\ ret[a] \in After(a)
         /\ s'.state = s.state /\ SameRun /\ SameCalls /\ SameCorr /\ published' = event[a]
         /\ \/ s.seq = "old" /\ Returns(a) /\ s' = s /\ emitting' = None
            \/ /\ s.seq = "new" /\ s'.seq = "old" /\ event'[a] = s.state
               /\ UNCHANGED <<pc, ret, emitting>>
         /\ UNCHANGED <<loc, m, snd, corr, lifecycle, envVars, port, last>>
  <1>1. /\ pc[a] = "publish" /\ pc[a] \in Emitting /\ published' = event[a]
        /\ UNCHANGED <<loc, m, snd, corr, lifecycle, envVars, port, ops, last>>
    BY DEF publish, Emitting
  <1>2. published' \in States BY <1>1 DEF Typed, Control
  <1>3. CASE s.seq = "old"
    <2>1. /\ emitting' = None /\ event' = [event EXCEPT ![a] = None]
          /\ EmitReturn(a) /\ UNCHANGED s
      BY <1>3 DEF publish
    <2>2. event' \in [Actors -> States \cup {None}] /\ \A b \in Actors \ {a} : event'[b] = event[b]
      BY <2>1 DEF Typed, TypeOK
    <2>3. Returns(a) /\ TypedPC /\ ret[a] \in After(a) /\ Control'
      BY <1>1, <2>1, <2>2, EmitReturnEffect
    <2>4. Left'
      <3>1. ret[a] \notin {"step", "reply"} BY <2>3 DEF After
      <3> QED BY <1>1, <2>3, <3>1, LeftKept, Constants DEF Returns
    <2>5. TypeOK'
      BY <1>1, <1>2, <2>1, <2>2, <2>3 DEF Typed, TypeOK, TypedPC, PCs, envVars
    <2> QED
      BY <1>1, <1>3, <2>1, <2>3, <2>4, <2>5 DEF Typed, Returns, SameRun, SameCalls, SameCorr
  <1>4. CASE s.seq # "old"
    <2>1. /\ event' = [event EXCEPT ![a] = s.state] /\ s' = [s EXCEPT !.seq = "old"]
          /\ UNCHANGED <<pc, ret, emitting>>
      BY <1>4 DEF publish
    <2>2. /\ s' \in SessionType /\ s'.state = s.state /\ s'.seq = "old"
          /\ SameRun /\ SameCalls /\ SameCorr /\ s.state \in States /\ s.seq \in {"old", "new"}
      BY ONLY Typed, <2>1 DEF Typed, TypeOK, SessionType, SameRun, SameCalls, SameCorr
    <2>3. /\ event' \in [Actors -> States \cup {None}] /\ event'[a] = s.state
          /\ \A b \in Actors \ {a} : event'[b] = event[b]
      BY <2>1, <2>2 DEF Typed, TypeOK
    <2>4. Control' /\ Left' /\ Stay /\ ret[a] \in After(a)
      <3>1. \A b \in Actors : After(b)' = After(b) BY DEF After
      <3> QED
        BY <1>1, <2>1, <2>2, <2>3, <3>1 DEF Typed, Control, Left, Stay, At
    <2>5. TypeOK' BY <1>1, <1>2, <2>1, <2>2, <2>3 DEF Typed, TypeOK, envVars
    <2> QED BY <1>1, <1>4, <2>1, <2>2, <2>3, <2>4, <2>5 DEF Typed
  <1> QED BY <1>3, <1>4

LEMMA LostEffect ==
  ASSUME Typed, TransportLost
  PROVE  /\ Typed'
         /\ UNCHANGED <<s, pc, ret, loc, m, snd, corr, emitVars, lifecycle, open, opened,
                        port, last>>
  <1>1. /\ s.conn \in open /\ lost' = lost \cup {s.conn}
        /\ UNCHANGED <<s, pc, ret, loc, m, snd, corr, emitVars, lifecycle, open, opened,
                       port, ops, last>>
    BY DEF TransportLost
  <1>2. Control' /\ Left' BY <1>1, PcsKept DEF emitVars
  <1>3. lost' \subseteq Runs BY <1>1 DEF Typed, TypeOK
  <1>4. TypeOK' BY <1>1, <1>3 DEF Typed, TypeOK, emitVars
  <1> QED BY <1>1, <1>2, <1>4 DEF Typed

-----------------------------------------------------------------------------
(* Local variables go with the place: what a call, the manager and a send have in    *)
(* hand while they are there.                                                    *)

LocalOK(p) ==
  /\ At(p) = "idle" => loc[p].call = "none" /\ loc[p].run = 0
  /\ loc[p].slot # None <=> At(p) \in {"gap", "spawn"}
  /\ loc[p].wg # None <=> At(p) \in {"closeCorr", "restart", "stopWait"}
  /\ At(p) \in LifecyclePC <=> loc[p].call \in {"connect", "disconnect"}
  /\ At(p) \in {"open", "handover"} => loc[p].call = "connect"
  /\ At(p) \in LifecyclePC \ {"handover"} => loc[p].run = 0

SlotInv ==
  /\ \A p \in Callers, i \in Sends : loc[p].slot = i => pc[i] = "idle" /\ snd[i].worker = "off"
  /\ \A p, q \in Callers : p # q /\ loc[p].slot # None => loc[p].slot # loc[q].slot

RequestInv ==
  \A p \in Callers : m.req = p => At(p) = "result" /\ At(Mgr) \in {"cfgPort", "cfg"}

ManagerLocal ==
  /\ m.conn # 0 <=> At(Mgr) = "install"
  /\ m.wg # None <=> At(Mgr) = "endCorr"

Places == (\A p \in Callers : LocalOK(p)) /\ SlotInv /\ RequestInv /\ ManagerLocal

SlotsIdle == \A i \in Sends : pc[i] = "idle" => pc'[i] = "idle"

LEMMA IdleOK ==
  ASSUME NEW p \in Callers, At(p)' = "idle", loc'[p] = IdleLocal
  PROVE  LocalOK(p)' /\ loc'[p].slot = None
  BY IdleLocalType DEF LocalOK, LifecyclePC

\* Nobody goes anywhere.
LEMMA PlacesKept ==
  ASSUME Typed, Places, Stay, SlotsIdle, loc' = loc, SameSends, SameJobs
  PROVE  Places'
  <1>1. \A a \in Actors : At(a)' = At(a) BY DEF Stay
  <1>2. \A p \in Callers : LocalOK(p)'
    <2> TAKE p \in Callers
    <2>1. At(p)' = At(p) /\ LocalOK(p) BY <1>1, Constants DEF Places
    <2> QED BY <2>1 DEF LocalOK
  <1>3. SlotInv' BY DEF Places, SlotInv, SlotsIdle, SameSends
  <1>4. RequestInv' /\ ManagerLocal'
    BY <1>1, Constants DEF Places, RequestInv, ManagerLocal, SameJobs
  <1> QED BY <1>2, <1>3, <1>4 DEF Places

\* Caller p goes on at l.
LEMMA CallerMoves ==
  ASSUME Typed, Places, NEW p \in Callers, NEW l, Move(p, l), SlotsIdle, Others(p), SameSends,
         LocalOK(p)', loc'[p].slot \in {loc[p].slot, None},
         m'.conn = m.conn, m'.wg = m.wg,
         \/ m'.req = m.req /\ At(p) # "result"
         \/ m'.req = IF m.req = p THEN None ELSE m.req
  PROVE  Places'
  <1>1. \A q \in Callers \ {p} : At(q)' = At(q) BY Constants DEF Move
  <1>2. \A q \in Callers : LocalOK(q)'
    <2>1. ASSUME NEW q \in Callers \ {p} PROVE LocalOK(q)'
      <3>1. At(q)' = At(q) /\ LocalOK(q) /\ loc'[q] = loc[q] BY <1>1 DEF Places, Others
      <3> QED BY <3>1 DEF LocalOK
    <2> QED BY <2>1
  <1>3. SlotInv' BY Constants DEF Places, SlotInv, SlotsIdle, SameSends, Others
  <1>4. At(Mgr)' = At(Mgr) BY Constants DEF Move
  <1>5. RequestInv'
    <2>1. \A q \in Callers : m'.req = q => m.req = q /\ q # p
      BY Constants DEF Places, RequestInv
    <2> QED BY <1>1, <1>4, <2>1 DEF Places, RequestInv
  <1>6. ManagerLocal' BY <1>4 DEF Places, ManagerLocal
  <1> QED BY <1>2, <1>3, <1>5, <1>6 DEF Places

\* The manager goes on at l.
LEMMA ManagerMoves ==
  ASSUME Typed, Places, NEW l, Move(Mgr, l), SlotsIdle, loc' = loc, SameSends,
         ManagerLocal', m'.req \in {m.req, None},
         At(Mgr) \in {"cfgPort", "cfg"} => l \in {"cfgPort", "cfg"}
  PROVE  Places'
  <1>1. At(Mgr)' = l /\ \A q \in Callers : At(q)' = At(q) BY Constants DEF Move
  <1>2. \A q \in Callers : LocalOK(q)'
    <2> TAKE q \in Callers
    <2>1. At(q)' = At(q) /\ LocalOK(q) BY <1>1 DEF Places
    <2> QED BY <2>1 DEF LocalOK
  <1>3. SlotInv' BY DEF Places, SlotInv, SlotsIdle, SameSends
  <1>4. RequestInv' BY <1>1, Constants DEF Places, RequestInv
  <1> QED BY <1>2, <1>3, <1>4 DEF Places

\* Coordinator i, which is not waiting to be used, goes on at l.
LEMMA CoordMoves ==
  ASSUME Typed, Places, NEW i \in Sends, NEW l, Move(i, l), pc[i] # "idle",
         \A j \in Sends \ {i} : pc'[j] = pc[j], loc' = loc, m' = m,
         \A j \in Sends : snd'[j].worker = "off" <=> snd[j].worker = "off"
  PROVE  Places'
  <1>1. At(Mgr)' = At(Mgr) /\ \A q \in Callers : At(q)' = At(q) BY Constants DEF Move
  <1>2. \A q \in Callers : LocalOK(q)'
    <2> TAKE q \in Callers
    <2>1. At(q)' = At(q) /\ LocalOK(q) BY <1>1 DEF Places
    <2> QED BY <2>1 DEF LocalOK
  <1>3. SlotInv' BY DEF Places, SlotInv
  <1>4. RequestInv' /\ ManagerLocal' BY <1>1 DEF Places, RequestInv, ManagerLocal
  <1> QED BY <1>2, <1>3, <1>4 DEF Places

LEMMA PlacesLifecycle ==
  ASSUME Typed, Places, NEW p \in Callers,
         \/ \E c \in {"connect", "disconnect"} : reserveLifecycle(p, c)
         \/ LifecycleStep(p)
  PROVE  Places'
  <1>0. pc[p] \notin Emitting => At(p) = pc[p] BY DEF At, Emitting
  <1>1. LocalOK(p) BY DEF Places
  <1>2. ASSUME NEW c \in {"connect", "disconnect"}, reserveLifecycle(p, c)
        PROVE  Places'
    <2>1. /\ pc[p] = "idle" /\ At(p)' = "lock" /\ loc'[p].call = c
          /\ loc'[p].run = loc[p].run /\ loc'[p].slot = loc[p].slot /\ loc'[p].wg = loc[p].wg
      BY <1>2, ReserveEffect DEF GoesTo, Move
    <2>2. LocalOK(p)' BY <1>0, <1>1, <2>1 DEF LocalOK, LifecyclePC, Emitting
    <2>3. /\ Move(p, "lock") /\ SlotsIdle /\ Others(p) /\ SameSends /\ m' = m
          /\ At(p) = "idle"
      BY <1>0, <1>2, ReserveEffect, Constants DEF GoesTo, SlotsIdle, SameSends, Emitting
    <2> QED BY <2>1, <2>2, <2>3, CallerMoves
  <1>3. CASE beginLifecycle(p)
    <2>1. CASE Superseded(p)
      <3>1. /\ Move(p, "idle") /\ SlotsIdle /\ Others(p) /\ SameSends /\ m' = m
            /\ At(p) = "lock" /\ loc'[p] = IdleLocal
        BY <1>0, <1>3, <2>1, BeginEffect, Constants DEF GoesTo, SlotsIdle, SameSends, Emitting
      <3>2. LocalOK(p)' /\ loc'[p].slot = None BY <3>1, IdleOK DEF Move
      <3> QED BY <3>1, <3>2, CallerMoves
    <2>2. CASE ~Superseded(p) /\ s.corrCancel = None
      <3>1. /\ Move(p, "closeWait") /\ SlotsIdle /\ Others(p) /\ SameSends /\ m' = m
            /\ At(p) = "lock" /\ loc' = loc
        BY <1>0, <1>3, <2>2, BeginEffect, Constants
        DEF GoesTo, SlotsIdle, SameSends, Emitting, Others
      <3>2. LocalOK(p)' BY <1>1, <3>1 DEF LocalOK, LifecyclePC, Move
      <3> QED BY <3>1, <3>2, CallerMoves
    <2>3. CASE ~Superseded(p) /\ s.corrCancel # None
      <3>1. /\ Move(p, "closeCorr") /\ SlotsIdle /\ Others(p) /\ SameSends /\ m' = m
            /\ At(p) = "lock"
            /\ loc'[p].call = loc[p].call /\ loc'[p].gen = loc[p].gen
            /\ loc'[p].run = loc[p].run /\ loc'[p].slot = loc[p].slot
            /\ loc'[p].wg # None
        BY <1>0, <1>3, <2>3, BeginEffect, Constants
        DEF GoesTo, SlotsIdle, SameSends, Emitting, Others
      <3>2. LocalOK(p)' BY <1>1, <3>1 DEF LocalOK, LifecyclePC, Move
      <3> QED BY <3>1, <3>2, CallerMoves
    <2> QED BY <2>1, <2>2, <2>3
  <1>4. CASE closeCorr(p)
    <2>1. /\ Move(p, "closeWait") /\ SlotsIdle /\ Others(p) /\ SameSends /\ m' = m
          /\ At(p) = "closeCorr"
          /\ loc'[p].call = loc[p].call /\ loc'[p].run = loc[p].run
          /\ loc'[p].slot = loc[p].slot /\ loc'[p].wg = None
      BY <1>0, <1>4, CloseCorrEffect, Constants DEF GoesTo, SlotsIdle, SameSends, Emitting
    <2>2. LocalOK(p)' BY <1>1, <2>1 DEF LocalOK, LifecyclePC, Move
    <2> QED BY <2>1, <2>2, CallerMoves
  <1>5. CASE closeWait(p)
    <2>1. /\ SlotsIdle /\ SameSends /\ m' = m /\ At(p) = "closeWait"
      BY <1>0, <1>5, CloseWaitEffect, Constants
      DEF GoesTo, EmitsThen, SlotsIdle, SameSends, Emitting
    <2>2. CASE Move(p, "open") /\ loc' = loc /\ loc[p].call = "connect"
      <3>1. LocalOK(p)' BY <1>1, <2>1, <2>2 DEF LocalOK, LifecyclePC, Move
      <3>2. Others(p) BY <2>2 DEF Others
      <3> QED BY <2>1, <2>2, <3>1, <3>2, CallerMoves
    <2>3. CASE Move(p, "idle") /\ loc'[p] = IdleLocal /\ Others(p)
      <3>1. LocalOK(p)' /\ loc'[p].slot = None BY <2>3, IdleOK DEF Move
      <3> QED BY <2>1, <2>3, <3>1, CallerMoves
    <2> QED BY <1>5, <2>2, <2>3, CloseWaitEffect DEF GoesTo, EmitsThen
  <1>6. CASE Open(p)
    <2>1. /\ Move(p, "handover") /\ SlotsIdle /\ Others(p) /\ SameSends /\ m' = m
          /\ At(p) = "open"
          /\ loc'[p].call = loc[p].call /\ loc'[p].slot = loc[p].slot /\ loc'[p].wg = loc[p].wg
      BY <1>0, <1>6, OpenEffect, Constants DEF GoesTo, SlotsIdle, SameSends, Emitting
    <2>2. LocalOK(p)' BY <1>1, <2>1 DEF LocalOK, LifecyclePC, Move
    <2> QED BY <2>1, <2>2, CallerMoves
  <1>7. CASE handover(p)
    <2>1. /\ loc'[p] = IdleLocal /\ Others(p) /\ SameSends /\ SlotsIdle /\ At(p) = "handover"
          /\ \/ Move(p, "idle") /\ m' = m
             \/ /\ \A a \in Actors \ {p, Mgr} : At(a)' = At(a)
                /\ At(p)' = "idle" /\ At(Mgr)' = "install"
                /\ loc[p].run # 0 /\ m'.conn = loc[p].run /\ m'.req = None /\ m'.wg = None
      BY <1>0, <1>7, HandoverEffect, Constants
      DEF GoesTo, EmitsThen, SlotsIdle, SameSends, Emitting
    <2>2. At(p)' = "idle" BY <2>1 DEF Move
    <2>3. LocalOK(p)' /\ loc'[p].slot = None BY <2>1, <2>2, IdleOK
    <2>4. CASE Move(p, "idle") /\ m' = m BY <2>1, <2>3, <2>4, CallerMoves
    <2>5. CASE /\ \A a \in Actors \ {p, Mgr} : At(a)' = At(a)
               /\ At(p)' = "idle" /\ At(Mgr)' = "install"
               /\ loc[p].run # 0 /\ m'.conn = loc[p].run /\ m'.req = None /\ m'.wg = None
      <3>1. \A q \in Callers : LocalOK(q)'
        <4>1. ASSUME NEW q \in Callers \ {p} PROVE LocalOK(q)'
          <5>1. At(q)' = At(q) /\ LocalOK(q) /\ loc'[q] = loc[q]
            BY <2>1, <2>5, Constants DEF Places, Others
          <5> QED BY <5>1 DEF LocalOK
        <4> QED BY <2>3, <4>1
      <3>2. SlotInv' BY <2>1, <2>3, Constants DEF Places, SlotInv, SlotsIdle, SameSends, Others
      <3>3. RequestInv' /\ ManagerLocal' BY <2>5, Constants DEF RequestInv, ManagerLocal
      <3> QED BY <3>1, <3>2, <3>3 DEF Places
    <2> QED BY <2>1, <2>4, <2>5
  <1> QED BY <1>2, <1>3, <1>4, <1>5, <1>6, <1>7 DEF LifecycleStep

LEMMA PlacesCaller ==
  ASSUME Typed, Places, NEW p \in Callers,
         \/ \E c \in {"config", "reset", "noop"} : beginConfig(p, c)
         \/ CancelMsgSend(p) \/ StartCorrections(p) \/ StopCorrections(p)
         \/ ConfigStep(p) \/ restart(p) \/ stopWait(p)
  PROVE  Places'
  <1>0. pc[p] \notin Emitting => At(p) = pc[p] BY DEF At, Emitting
  <1>1. LocalOK(p) BY DEF Places
  <1>2. ASSUME NEW c \in {"config", "reset", "noop"}, beginConfig(p, c) PROVE Places'
    <2> DEFINE l == IF c = "noop" THEN "endOp" ELSE "request"
    <2>1. /\ Move(p, l) /\ SlotsIdle /\ Others(p) /\ SameSends /\ m' = m
          /\ At(p) = "idle" /\ loc'[p].call = c
          /\ loc'[p].slot = loc[p].slot /\ loc'[p].wg = loc[p].wg
      BY <1>0, <1>2, BeginConfigEffect, Constants
      DEF EmitsThen, SlotsIdle, SameSends, Emitting
    <2>2. l \in {"endOp", "request"} OBVIOUS
    <2> HIDE DEF l
    <2>3. LocalOK(p)' BY <1>1, <2>1, <2>2 DEF LocalOK, LifecyclePC, Move
    <2> QED BY <2>1, <2>3, CallerMoves
  <1>3. CASE CancelMsgSend(p)
    <2>1. UNCHANGED <<pc, ret, loc, m>> /\ SameSends BY <1>3, CancelMsgEffect
    <2> QED BY <2>1, PlacesKept DEF Stay, At, SlotsIdle, SameJobs
  <1>4. ASSUME NEW l \in {"restart", "stopWait"}, Stops(p, l), pc[p] = "idle", m' = m, snd' = snd
        PROVE  Places'
    <2>1. /\ Move(p, l) /\ SlotsIdle /\ Others(p) /\ SameSends
          /\ At(p) = "idle" /\ loc'[p].call = "corr" /\ loc'[p].run = loc[p].run
          /\ loc'[p].slot = loc[p].slot /\ loc'[p].wg # None
      BY <1>0, <1>4, Constants DEF Stops, GoesTo, SlotsIdle, SameSends, Emitting
    <2>2. LocalOK(p)' BY <1>1, <2>1 DEF LocalOK, LifecyclePC, Move
    <2> QED BY <1>4, <2>1, <2>2, CallerMoves
  <1>5. UNCHANGED <<pc, ret, loc, m, snd>> => Places'
    BY PlacesKept DEF Stay, At, SlotsIdle, SameSends, SameJobs
  <1>6. CASE StartCorrections(p) BY <1>4, <1>5, <1>6, StartEffect
  <1>7. CASE StopCorrections(p) BY <1>4, <1>5, <1>7, StopEffect
  <1>8. CASE sendConfigRequest(p)
    <2>1. /\ SlotsIdle /\ Others(p) /\ SameSends /\ m' = m
          /\ At(p) = "request" /\ loc'[p].call = loc[p].call /\ loc'[p].run = loc[p].run
          /\ loc'[p].slot = loc[p].slot /\ loc'[p].wg = loc[p].wg
          /\ Move(p, "endOp") \/ Move(p, "offer")
      BY <1>0, <1>8, SendRequestEffect, Constants DEF GoesTo, SlotsIdle, SameSends, Emitting
    <2>2. LocalOK(p)' BY <1>1, <2>1 DEF LocalOK, LifecyclePC, Move
    <2> QED BY <2>1, <2>2, CallerMoves
  <1>9. CASE giveUpRequest(p)
    <2>1. /\ Move(p, "endOp") /\ SlotsIdle /\ Others(p) /\ SameSends /\ loc' = loc
          /\ At(p) \in {"offer", "result"}
          /\ m'.conn = m.conn /\ m'.wg = m.wg /\ m'.req = IF m.req = p THEN None ELSE m.req
      BY <1>0, <1>9, GiveUpEffect, Constants
      DEF GoesTo, SlotsIdle, SameSends, Emitting, Others
    <2>2. LocalOK(p)' BY <1>1, <2>1 DEF LocalOK, LifecyclePC, Move
    <2> QED BY <2>1, <2>2, CallerMoves
  <1>10. CASE endConfig(p)
    <2>1. /\ Move(p, "idle") /\ SlotsIdle /\ Others(p) /\ SameSends /\ m' = m
          /\ At(p) = "endOp" /\ loc'[p] = IdleLocal
      BY <1>0, <1>10, EndConfigEffect, Constants
      DEF Ends, GoesTo, EmitsThen, SlotsIdle, SameSends, Emitting
    <2>2. LocalOK(p)' /\ loc'[p].slot = None BY <2>1, IdleOK DEF Move
    <2> QED BY <2>1, <2>2, CallerMoves
  <1>11. CASE restart(p) \/ stopWait(p)
    <2>1. /\ Move(p, "idle") /\ SlotsIdle /\ Others(p) /\ SameSends /\ m' = m
          /\ At(p) \in {"restart", "stopWait"} /\ loc'[p] = IdleLocal
      BY <1>0, <1>11, AfterStopEffect, Constants DEF GoesTo, SlotsIdle, SameSends, Emitting
    <2>2. LocalOK(p)' /\ loc'[p].slot = None BY <2>1, IdleOK DEF Move
    <2> QED BY <2>1, <2>2, CallerMoves
  <1> QED
    BY <1>2, <1>3, <1>6, <1>7, <1>8, <1>9, <1>10, <1>11 DEF ConfigStep

LEMMA PlacesSend ==
  ASSUME Typed, Places, NEW p \in Callers,
         (\E i \in Sends : beginSend(p, i)) \/ commitSend(p) \/ spawnSend(p)
  PROVE  Typed' /\ Places'
  <1>0. pc[p] \notin Emitting => At(p) = pc[p] BY DEF At, Emitting
  <1>1. LocalOK(p) BY DEF Places
  <1>2. ASSUME NEW i \in Sends, beginSend(p, i) PROVE Typed' /\ Places'
    <2>1. /\ Typed' /\ Move(p, "gap") /\ Others(p) /\ m' = m /\ SlotsIdle
          /\ At(p) = "idle" /\ FreeSend(i)
          /\ loc'[p].call = "send" /\ loc'[p].run = loc[p].run
          /\ loc'[p].slot = i /\ loc'[p].wg = loc[p].wg
          /\ \A j \in Sends : snd'[j].worker = "off" <=> snd[j].worker = "off"
      BY <1>0, <1>2, BeginSendEffect, Constants DEF GoesTo, SlotsIdle, Emitting, FreeSend
    <2>2. LocalOK(p)' BY <1>1, <2>1, Constants DEF LocalOK, LifecyclePC, Move
    <2>3. \A q \in Callers : LocalOK(q)'
      <3>1. ASSUME NEW q \in Callers \ {p} PROVE LocalOK(q)'
        <4>1. At(q)' = At(q) /\ LocalOK(q) /\ loc'[q] = loc[q]
          BY <2>1, Constants DEF Places, Others, Move
        <4> QED BY <4>1 DEF LocalOK
      <3> QED BY <2>2, <3>1
    <2>4. SlotInv'
      <3>1. pc[i] = "idle" /\ snd[i].worker = "off" /\ \A q \in Callers : loc[q].slot # i
        BY <2>1 DEF FreeSend
      <3> QED BY <2>1, <3>1, Constants DEF Places, SlotInv, SlotsIdle, Others
    <2>5. RequestInv' /\ ManagerLocal'
      BY <2>1, Constants DEF Places, RequestInv, ManagerLocal, Move
    <2> QED BY <2>1, <2>3, <2>4, <2>5 DEF Places
  <1>3. CASE commitSend(p)
    <2>1. pc[p] = "gap" /\ At(p) = "gap" BY <1>0, <1>3 DEF commitSend, Emitting
    <2>2. loc[p].slot \in Sends BY <1>1, <2>1 DEF LocalOK, Typed, TypeOK, LocalType
    <2>3. /\ Typed' /\ SlotsIdle /\ SameSends /\ m' = m
          /\ \/ Move(p, "idle") /\ loc'[p] = IdleLocal /\ Others(p)
             \/ Move(p, "spawn") /\ loc' = loc
      BY <1>3, <2>2, CommitEffect, Constants DEF GoesTo, EmitsThen, SlotsIdle, SameSends
    <2>4. CASE Move(p, "idle") /\ loc'[p] = IdleLocal /\ Others(p)
      <3>1. LocalOK(p)' /\ loc'[p].slot = None BY <2>4, IdleOK DEF Move
      <3> QED BY <2>1, <2>3, <2>4, <3>1, CallerMoves
    <2>5. CASE Move(p, "spawn") /\ loc' = loc
      <3>1. LocalOK(p)' BY <1>1, <2>1, <2>5 DEF LocalOK, LifecyclePC, Move
      <3>2. Others(p) BY <2>5 DEF Others
      <3> QED BY <2>1, <2>3, <2>5, <3>1, <3>2, CallerMoves
    <2> QED BY <2>3, <2>4, <2>5
  <1>4. CASE spawnSend(p)
    <2>1. pc[p] = "spawn" /\ At(p) = "spawn" BY <1>0, <1>4 DEF spawnSend, Emitting
    <2>2. loc[p].slot \in Sends BY <1>1, <2>1 DEF LocalOK, Typed, TypeOK, LocalType
    <2>3. PICK i \in Sends : i = loc[p].slot BY <2>2
    <2>4. /\ Typed' /\ loc'[p] = IdleLocal /\ Others(p) /\ m' = m
          /\ At(p)' = "idle" /\ pc'[i] = "step"
          /\ \A a \in Actors \ {p, i} : pc'[a] = pc[a] /\ At(a)' = At(a)
          /\ \A j \in Sends \ {i} : snd'[j].worker = snd[j].worker
      BY <1>4, <2>3, SpawnEffect
    <2>5. LocalOK(p)' /\ loc'[p].slot = None BY <2>4, IdleOK
    <2>6. \A q \in Callers : LocalOK(q)'
      <3>1. ASSUME NEW q \in Callers \ {p} PROVE LocalOK(q)'
        <4>1. At(q)' = At(q) /\ LocalOK(q) /\ loc'[q] = loc[q]
          BY <2>4, Constants DEF Places, Others
        <4> QED BY <4>1 DEF LocalOK
      <3> QED BY <2>5, <3>1
    <2>7. SlotInv'
      <3>1. \A q \in Callers \ {p} : loc[q].slot # i BY <2>2, <2>3, Constants DEF Places, SlotInv
      <3>2. \A j \in Sends \ {i} : pc'[j] = pc[j] BY <2>4, Constants
      <3> QED BY <2>4, <2>5, <3>1, <3>2, Constants DEF Places, SlotInv, Others
    <2>8. At(Mgr)' = At(Mgr) /\ \A q \in Callers \ {p} : At(q)' = At(q) BY <2>4, Constants
    <2>9. RequestInv' /\ ManagerLocal'
      BY <2>1, <2>4, <2>8 DEF Places, RequestInv, ManagerLocal
    <2> QED BY <2>4, <2>6, <2>7, <2>9 DEF Places
  <1> QED BY <1>2, <1>3, <1>4

LEMMA PlacesManager ==
  ASSUME Typed, Places, ManagerStep
  PROVE  Places'
  <1>0. pc[Mgr] \notin Emitting => At(Mgr) = pc[Mgr] BY DEF At, Emitting
  <1>1. ManagerLocal BY DEF Places
  <1>i. IdleManager.conn = 0 /\ IdleManager.req = None /\ IdleManager.wg = None
    BY IdleManagerType
  <1>2. CASE runConn
    <2>1. /\ Move(Mgr, "probePort") /\ SlotsIdle /\ loc' = loc /\ SameSends
          /\ At(Mgr) = "install" /\ m'.req = m.req /\ m'.conn = 0 /\ m'.wg = m.wg
      BY <1>0, <1>2, RunConnEffect, Constants DEF GoesTo, SlotsIdle, SameSends, Emitting
    <2>2. ManagerLocal' BY <1>1, <2>1 DEF ManagerLocal, Move
    <2> QED BY <2>1, <2>2, ManagerMoves
  <1>3. CASE probePort \/ probe \/ probeDone \/ streamDied
    <2>1. /\ SlotsIdle /\ loc' = loc /\ SameSends /\ SameJobs
          /\ At(Mgr) \in {"probePort", "probe", "probeDone", "loop"}
          /\ \E l \in {"probe", "probeDone", "loop", "endRun"} : Move(Mgr, l)
      BY <1>0, <1>3, ProbePortEffect, ProbeEffect, ProbeDoneEffect, StreamDiedEffect, Constants
      DEF GoesTo, EmitsThen, SlotsIdle, SameSends, Emitting
    <2>2. PICK l \in {"probe", "probeDone", "loop", "endRun"} : Move(Mgr, l) BY <2>1
    <2>3. ManagerLocal' BY <1>1, <2>1, <2>2 DEF ManagerLocal, Move, SameJobs
    <2> QED BY <2>1, <2>2, <2>3, ManagerMoves DEF SameJobs
  <1>4. ASSUME NEW p \in Callers, takeRequest(p) PROVE Places'
    <2>1. /\ At(Mgr) = "loop" /\ At(p) = "offer"
          /\ At(Mgr)' = "cfgPort" /\ At(p)' = "result"
          /\ \A a \in Actors \ {p, Mgr} : pc'[a] = pc[a] /\ At(a)' = At(a)
          /\ m'.conn = m.conn /\ m'.wg = m.wg /\ m'.req = p
          /\ loc' = loc /\ SameSends /\ SlotsIdle
      BY <1>0, <1>4, TakeRequestEffect, Constants DEF SlotsIdle, SameSends, Emitting, At
    <2>2. \A q \in Callers : LocalOK(q)'
      <3>1. ASSUME NEW q \in Callers \ {p} PROVE LocalOK(q)'
        <4>1. At(q)' = At(q) /\ LocalOK(q) BY <2>1, Constants DEF Places
        <4> QED BY <2>1, <4>1 DEF LocalOK
      <3>2. LocalOK(p)' BY <2>1 DEF Places, LocalOK, LifecyclePC
      <3> QED BY <3>1, <3>2
    <2>3. SlotInv' BY <2>1 DEF Places, SlotInv, SlotsIdle, SameSends
    <2>4. RequestInv' /\ ManagerLocal' BY <1>1, <2>1 DEF RequestInv, ManagerLocal
    <2> QED BY <2>2, <2>3, <2>4 DEF Places
  <1>5. ASSUME NEW l \in {"loop", "endRun"}, Answers(l), loc' = loc, snd' = snd,
               m'.conn = m.conn, m'.wg = m.wg, m'.req = None, At(Mgr) \in {"cfgPort", "cfg"}
        PROVE  Places'
    <2>1. \A q \in Callers : LocalOK(q)'
      <3>1. ASSUME NEW q \in Callers, q # m.req PROVE LocalOK(q)'
        <4>1. At(q)' = At(q) /\ LocalOK(q) BY <1>5, <3>1, Constants DEF Places, Answers
        <4> QED BY <1>5, <4>1 DEF LocalOK
      <3>2. ASSUME NEW q \in Callers, q = m.req PROVE LocalOK(q)'
        <4>1. At(q) = "result" /\ At(q)' = "endOp" /\ LocalOK(q)
          BY <1>5, <3>2 DEF Answers, Places, RequestInv
        <4> QED BY <1>5, <4>1 DEF LocalOK, LifecyclePC
      <3> QED BY <3>1, <3>2
    <2>2. \A i \in Sends : pc'[i] = pc[i]
      <3>1. m.req \in Callers \cup {None} BY DEF Typed, TypeOK, ManagerType
      <3> QED BY <1>5, <3>1, Constants DEF Answers
    <2>3. SlotInv' BY <1>5, <2>2 DEF Places, SlotInv
    <2>4. At(Mgr)' = l BY <1>5 DEF Answers
    <2>5. RequestInv' /\ ManagerLocal'
      BY <1>1, <1>5, <2>4, Constants DEF RequestInv, ManagerLocal
    <2> QED BY <2>1, <2>3, <2>5 DEF Places
  <1>6. CASE configPort
    <2>1. At(Mgr) = "cfgPort" BY <1>0, <1>6, ConfigPortEffect DEF Emitting
    <2>2. CASE Move(Mgr, "cfg") /\ SlotsIdle /\ m' = m /\ loc' = loc /\ SameSends
      <3>1. ManagerLocal' BY <1>1, <2>1, <2>2 DEF ManagerLocal, Move
      <3> QED BY <2>1, <2>2, <3>1, ManagerMoves
    <2> QED
      BY <1>5, <1>6, <2>1, <2>2, ConfigPortEffect, Constants DEF GoesTo, SlotsIdle, SameSends
  <1>7. CASE configDone
    <2>1. At(Mgr) = "cfg" BY <1>0, <1>7, ConfigDoneEffect DEF Emitting
    <2> QED BY <1>5, <1>7, <2>1, ConfigDoneEffect
  <1>8. CASE endRun
    <2>1. /\ SlotsIdle /\ loc' = loc /\ SameSends /\ At(Mgr) = "endRun"
          /\ m'.req = m.req /\ m'.conn = m.conn
          /\ \/ Move(Mgr, "verdict") /\ m'.wg = m.wg
             \/ Move(Mgr, "endCorr") /\ m'.wg # None
      BY <1>0, <1>8, EndRunEffect, Constants DEF GoesTo, SlotsIdle, Emitting
    <2>2. ManagerLocal' BY <1>1, <2>1 DEF ManagerLocal, Move
    <2> QED BY <2>1, <2>2, ManagerMoves
  <1>9. CASE endCorr
    <2>1. /\ Move(Mgr, "verdict") /\ SlotsIdle /\ loc' = loc /\ SameSends
          /\ At(Mgr) = "endCorr" /\ m'.req = m.req /\ m'.conn = m.conn /\ m'.wg = None
      BY <1>0, <1>9, EndCorrEffect, Constants DEF GoesTo, SlotsIdle, SameSends, Emitting
    <2>2. ManagerLocal' BY <1>1, <2>1 DEF ManagerLocal, Move
    <2> QED BY <2>1, <2>2, ManagerMoves
  <1>10. CASE enterReconnect \/ managerReturn
    <2>1. /\ SlotsIdle /\ loc' = loc /\ SameSends /\ At(Mgr) = "verdict" /\ m' = IdleManager
          /\ Move(Mgr, "idle") \/ Move(Mgr, "reopen")
      BY <1>0, <1>10, VerdictEffect, Constants
      DEF GoesTo, EmitsThen, SlotsIdle, SameSends, Emitting
    <2>2. ManagerLocal' BY <1>i, <2>1 DEF ManagerLocal, Move
    <2> QED BY <1>i, <2>1, <2>2, ManagerMoves
  <1>11. CASE reopen
    <2>1. /\ loc' = loc /\ SameSends /\ At(Mgr) = "reopen" /\ m'.req = m.req /\ m'.wg = m.wg
          /\ \/ Move(Mgr, "install") /\ m'.conn # 0 /\ SlotsIdle
             \/ Move(Mgr, "endConn") /\ m'.conn = m.conn /\ SlotsIdle
             \/ m'.conn = m.conn /\ UNCHANGED <<pc, ret>>
      BY <1>0, <1>11, ReopenEffect, Constants
      DEF GoesTo, SlotsIdle, SameSends, Emitting, Typed, TypeOK
    <2>2. CASE UNCHANGED <<pc, ret>> /\ m'.conn = m.conn
      <3>1. Stay /\ SlotsIdle BY <2>2 DEF Stay, At, SlotsIdle
      <3> QED BY <2>1, <2>2, <3>1, PlacesKept DEF SameJobs
    <2>3. CASE Move(Mgr, "install") /\ m'.conn # 0 /\ SlotsIdle
      <3>1. ManagerLocal' BY <1>1, <2>1, <2>3 DEF ManagerLocal, Move
      <3> QED BY <2>1, <2>3, <3>1, ManagerMoves
    <2>4. CASE Move(Mgr, "endConn") /\ m'.conn = m.conn /\ SlotsIdle
      <3>1. ManagerLocal' BY <1>1, <2>1, <2>4 DEF ManagerLocal, Move
      <3> QED BY <2>1, <2>4, <3>1, ManagerMoves
    <2> QED BY <2>1, <2>2, <2>3, <2>4
  <1>12. CASE endConn
    <2>1. /\ Move(Mgr, "idle") /\ SlotsIdle /\ loc' = loc /\ SameSends
          /\ At(Mgr) \in {"endConn", "verdict"} /\ m' = IdleManager
      BY <1>0, <1>12, EndConnEffect, Constants DEF EmitsThen, SlotsIdle, SameSends, Emitting
    <2>2. ManagerLocal' BY <1>i, <2>1 DEF ManagerLocal, Move
    <2> QED BY <1>i, <2>1, <2>2, ManagerMoves
  <1> QED
    BY <1>2, <1>3, <1>4, <1>6, <1>7, <1>8, <1>9, <1>10, <1>11, <1>12 DEF ManagerStep

LEMMA PlacesOther ==
  ASSUME Typed, Places,
         \/ \E i \in Sends : CoordStep(i) \/ WorkerStep(i)
         \/ \E k \in Corrs : CorrStep(k)
         \/ \E a \in Actors : emitStateChange(a) \/ publish(a)
         \/ TransportLost
  PROVE  Typed' /\ Places'
  <1>0. \A i \in Sends : pc[i] \notin Emitting => At(i) = pc[i] BY DEF At, Emitting
  <1>1. ASSUME NEW i \in Sends, CoordStep(i) PROVE Typed' /\ Places'
    <2>1. CASE coordStep(i) \/ coordReply(i) \/ coordCancelled(i) \/ finishSend(i)
      <3>1. /\ Typed' /\ pc[i] # "idle" /\ loc' = loc /\ m' = m
            /\ \A j \in Sends : snd'[j].worker = "off" <=> snd[j].worker = "off"
            /\ \E l \in {"step", "reply", "finish", "endOp"} : GoesTo(i, l)
        BY <2>1, CoordEffect
      <3>2. PICK l \in {"step", "reply", "finish", "endOp"} : GoesTo(i, l) BY <3>1
      <3>3. Move(i, l) /\ \A j \in Sends \ {i} : pc'[j] = pc[j] BY <3>2, Constants DEF GoesTo
      <3> QED BY <3>1, <3>3, CoordMoves
    <2>2. CASE endSend(i)
      <3>1. /\ Typed' /\ pc[i] = "endOp" /\ loc' = loc /\ m' = m /\ snd' = snd
            /\ Move(i, "idle") /\ \A j \in Sends \ {i} : pc'[j] = pc[j]
        BY <2>2, EndSendEffect, Constants DEF Ends, GoesTo, EmitsThen
      <3> QED BY <3>1, CoordMoves
    <2> QED BY <1>1, <2>1, <2>2 DEF CoordStep
  <1>2. ASSUME NEW i \in Sends, WorkerStep(i) PROVE Typed' /\ Places'
    <2>1. /\ Typed' /\ UNCHANGED <<pc, ret, loc, m>> /\ snd[i].worker # "off"
          /\ \A j \in Sends \ {i} : snd'[j] = snd[j]
      BY <1>2, WorkerEffect DEF Works
    <2>2. Stay BY <2>1 DEF Stay, At
    <2>3. \A p \in Callers : LocalOK(p)'
      <3> TAKE p \in Callers
      <3>1. At(p)' = At(p) /\ LocalOK(p) BY <2>2, Constants DEF Stay, Places
      <3> QED BY <2>1, <3>1 DEF LocalOK
    <2>4. SlotInv'
      <3>1. \A p \in Callers : loc[p].slot # i BY <2>1 DEF Places, SlotInv
      <3> QED BY <2>1, <3>1 DEF Places, SlotInv
    <2>5. RequestInv' /\ ManagerLocal'
      BY <2>1, <2>2, Constants DEF Places, RequestInv, ManagerLocal, Stay
    <2> QED BY <2>1, <2>3, <2>4, <2>5 DEF Places
  <1>3. ASSUME NEW k \in Corrs, CorrStep(k) PROVE Typed' /\ Places'
    <2>1. Typed' /\ UNCHANGED <<pc, ret, loc, m, snd>> BY <1>3, CorrEffect
    <2> QED BY <2>1, PlacesKept DEF Stay, At, SlotsIdle, SameSends, SameJobs
  <1>4. ASSUME NEW a \in Actors, emitStateChange(a) \/ publish(a) PROVE Typed' /\ Places'
    <2>1. /\ Typed' /\ Stay /\ UNCHANGED <<loc, m, snd>> /\ pc[a] \in Emitting
          /\ \A b \in Actors \ {a} : pc'[b] = pc[b]
      BY <1>4, EmitEffect, PublishEffect DEF Returns, Emitting
    <2>2. SlotsIdle BY <2>1, Constants DEF SlotsIdle, Emitting
    <2> QED BY <2>1, <2>2, PlacesKept DEF SameSends, SameJobs
  <1>5. CASE TransportLost
    <2>1. Typed' /\ UNCHANGED <<pc, ret, loc, m, snd>> BY <1>5, LostEffect
    <2> QED BY <2>1, PlacesKept DEF Stay, At, SlotsIdle, SameSends, SameJobs
  <1> QED BY <1>1, <1>2, <1>3, <1>4, <1>5

LEMMA PlacesInit == Init => Typed /\ Places
  <1> SUFFICES ASSUME Init PROVE Typed /\ Places OBVIOUS
  <1>1. \A a \in Actors : pc[a] = "idle" /\ At(a) = "idle" BY DEF Init, At
  <1>2. \A p \in Callers : loc[p] = IdleLocal BY DEF Init
  <1>3. TypeOK
    <2>1. s \in SessionType
      BY Constants DEF Init, SessionType, States
    <2>2. pc \in [Actors -> PCs] /\ ret \in [Actors -> PCs] BY DEF Init, PCs, CallerPC
    <2>3. loc \in [Callers -> LocalType] BY IdleLocalType DEF Init
    <2>4. m \in ManagerType BY IdleManagerType DEF Init
    <2>5. IdleSend \in SendType /\ IdleCorr \in CorrType
      BY Constants DEF IdleSend, IdleCorr, SendType, CorrType
    <2>6. snd \in [Sends -> SendType] /\ corr \in [Corrs -> CorrType] BY <2>5 DEF Init
    <2>7. /\ emitting \in Actors \cup {None} /\ event \in [Actors -> States \cup {None}]
          /\ published \in States /\ lifecycle \in Callers \cup {None}
          /\ open \subseteq Runs /\ lost \subseteq Runs
          /\ port \in [Runs -> {Mgr, None} \cup Sends \cup Corrs]
          /\ opened \in 0 .. MaxRuns /\ ops \in 0 .. MaxCalls /\ last \in {"connect", "disconnect"}
      BY Constants DEF Init, States
    <2> QED BY <2>1, <2>2, <2>3, <2>4, <2>6, <2>7 DEF TypeOK, PCs
  <1>4. Control /\ Left BY <1>1, Constants DEF Control, Left, Emitting
  <1>5. \A p \in Callers : LocalOK(p)
    <2> TAKE p \in Callers
    <2>1. At(p) = "idle" /\ loc[p] = IdleLocal BY <1>1, <1>2, Constants
    <2> QED BY <2>1, IdleLocalType DEF LocalOK, LifecyclePC
  <1>6. SlotInv BY <1>2, IdleLocalType, Constants DEF SlotInv
  <1>7. RequestInv /\ ManagerLocal
    BY <1>1, IdleManagerType, Constants DEF Init, RequestInv, ManagerLocal
  <1> QED BY <1>3, <1>4, <1>5, <1>6, <1>7 DEF Typed, Places

LEMMA TypedManager ==
  ASSUME Typed, ManagerStep
  PROVE  Typed'
  BY RunConnEffect, ProbePortEffect, ProbeEffect, ProbeDoneEffect, StreamDiedEffect,
     ConfigPortEffect, ConfigDoneEffect, EndRunEffect, EndCorrEffect, VerdictEffect,
     ReopenEffect, EndConnEffect, TakeRequestEffect
  DEF ManagerStep

LEMMA PlacesStep ==
  ASSUME Typed, Places, [Next]_vars
  PROVE  Typed' /\ Places'
  <1>1. ASSUME NEW p \in Callers,
               \/ \E c \in {"connect", "disconnect"} : reserveLifecycle(p, c)
               \/ LifecycleStep(p)
        PROVE  Typed' /\ Places'
    BY <1>1, PlacesLifecycle, ReserveEffect, BeginEffect, CloseCorrEffect, CloseWaitEffect,
       OpenEffect, HandoverEffect
    DEF LifecycleStep
  <1>2. ASSUME NEW p \in Callers,
               \/ \E c \in {"config", "reset", "noop"} : beginConfig(p, c)
               \/ CancelMsgSend(p) \/ StartCorrections(p) \/ StopCorrections(p)
               \/ ConfigStep(p) \/ restart(p) \/ stopWait(p)
        PROVE  Typed' /\ Places'
    BY <1>2, PlacesCaller, BeginConfigEffect, CancelMsgEffect, StartEffect, StopEffect,
       SendRequestEffect, GiveUpEffect, EndConfigEffect, AfterStopEffect
    DEF ConfigStep
  <1>3. ASSUME NEW p \in Callers,
               (\E i \in Sends : beginSend(p, i)) \/ commitSend(p) \/ spawnSend(p)
        PROVE  Typed' /\ Places'
    BY <1>3, PlacesSend
  <1>4. CASE ManagerStep BY <1>4, PlacesManager, TypedManager
  <1>5. CASE UNCHANGED vars
    <2>1. UNCHANGED <<s, pc, ret, loc, m, snd, corr, emitVars, lifecycle, envVars, port, ops, last>>
      BY <1>5 DEF vars
    <2>2. Typed' BY <2>1 DEF Typed, TypeOK, Control, Left, emitVars, envVars
    <2>3. Places' BY <2>1, PlacesKept DEF Stay, At, SlotsIdle, SameSends, SameJobs
    <2> QED BY <2>2, <2>3
  <1> QED BY <1>1, <1>2, <1>3, <1>4, <1>5, PlacesOther DEF Next, Call

\* The state is of its type, in every state of the program.
THEOREM TypeCorrect == Spec => []TypeOK
  <1>1. Init => Typed /\ Places BY PlacesInit
  <1>2. (Typed /\ Places) /\ [Next]_vars => (Typed /\ Places)' BY PlacesStep
  <1>3. Typed => TypeOK BY DEF Typed
  <1> QED BY <1>1, <1>2, <1>3, PTL DEF Spec

-----------------------------------------------------------------------------
(* The calls of Connect and Disconnect, the manager, and what they leave open.   *)

Latest(p)  == At(p) \in LifecyclePC /\ loc[p].gen = s.gen
Closing(p) == At(p) \in {"closeCorr", "closeWait"}
OnOpen(p)  == At(p) \in {"open", "handover"} /\ loc[p].gen = s.gen

\* The latest call is known by its number; one that closes holds lifecycleMu, and when
\* it is superseded its successor waits for it.
CallsInv ==
  /\ \A p \in Callers : At(p) \in LifecyclePC => loc[p].gen <= s.gen
  /\ \A p, q \in Callers : At(p) \in LifecyclePC /\ At(q) \in LifecyclePC
                           /\ loc[p].gen = loc[q].gen => p = q
  /\ \A p \in Callers : Latest(p) => loc[p].call = last
  /\ \A p \in Callers : Closing(p) <=> lifecycle = p
  /\ \A p \in Callers : Closing(p) /\ ~Latest(p)
       => \E q \in Callers : At(q) = "lock" /\ Latest(q)

\* Where the manager has a run, and which transport is the run's.
RunPC == {"probePort", "probe", "probeDone", "loop", "cfgPort", "cfg", "endRun"}
RunInv ==
  /\ s.runCtx = "live" <=> At(Mgr) \in RunPC
  /\ s.runCtx = "live" => s.conn = s.run
  /\ s.conn # 0 => At(Mgr) \in RunPC \cup {"endCorr"} /\ s.conn = s.run

\* A manager that is there has a context, which is done once the state is Disconnected.
ManagerInv ==
  /\ \A p \in Callers : Closing(p) => s.connCtx # "live" /\ s.state = "disconnected"
  /\ \A p \in Callers : OnOpen(p) =>
       pc[Mgr] = "idle" /\ s.state = "connecting" /\ s.connCtx # "live"
  /\ pc[Mgr] # "idle" =>
       /\ s.connCtx # "none" /\ (s.connCtx = "done" <=> s.state = "disconnected")
       /\ At(Mgr) \in {"endRun", "endCorr", "verdict"} /\ m.verdict = "disconnect"
            => s.connCtx = "done"
       /\ At(Mgr) = "idle" => s.connCtx = "done"

LastInv ==
  \/ \E p \in Callers : Latest(p)
  \/ /\ last = "disconnect" => pc[Mgr] = "idle"
     /\ pc[Mgr] = "idle" => s.state = "disconnected"

\* What is open is in somebody's hands.
OpenInv ==
  \A r \in open : \/ r = s.conn \/ r = m.conn
                  \/ \E p \in Callers : At(p) = "handover" /\ loc[p].run = r

ConnInv == CallsInv /\ RunInv /\ ManagerInv /\ LastInv /\ OpenInv

\* No lifecycle call goes on.
CallersQuiet ==
  /\ \A p \in Callers :
       \/ /\ At(p)' = At(p) /\ loc'[p].gen = loc[p].gen /\ loc'[p].call = loc[p].call
          /\ loc'[p].run = loc[p].run
       \/ \E l \in PCs \ LifecyclePC : At(p)' = l /\ At(p) \notin LifecyclePC
  /\ s'.gen = s.gen /\ lifecycle' = lifecycle /\ last' = last

LEMMA CallersSame ==
  ASSUME CallersQuiet, NEW p \in Callers
  PROVE  /\ At(p) \in LifecyclePC =>
              /\ At(p)' = At(p) /\ loc'[p].gen = loc[p].gen /\ loc'[p].call = loc[p].call
              /\ loc'[p].run = loc[p].run
         /\ \A x : At(p)' = x /\ x \in LifecyclePC => At(p) = x
         /\ (Latest(p))' <=> Latest(p)
         /\ (Closing(p))' <=> Closing(p)
         /\ (OnOpen(p))' <=> OnOpen(p)
  BY DEF CallersQuiet, Latest, Closing, OnOpen, LifecyclePC

LEMMA CallsKept ==
  ASSUME CallsInv, CallersQuiet
  PROVE  CallsInv'
  <1>1. \A p \in Callers : At(p)' \in LifecyclePC =>
           /\ At(p) \in LifecyclePC
           /\ At(p)' = At(p) /\ loc'[p].gen = loc[p].gen /\ loc'[p].call = loc[p].call
    BY CallersSame
  <1>2. s'.gen = s.gen /\ lifecycle' = lifecycle /\ last' = last BY DEF CallersQuiet
  <1>3. \A p \in Callers : At(p)' \in LifecyclePC => loc'[p].gen <= s'.gen
    BY <1>1, <1>2 DEF CallsInv
  <1>4. \A p, q \in Callers : At(p)' \in LifecyclePC /\ At(q)' \in LifecyclePC
                              /\ loc'[p].gen = loc'[q].gen => p = q
    BY <1>1 DEF CallsInv
  <1>5. \A p \in Callers : (Latest(p))' => loc'[p].call = last'
    BY <1>1, <1>2, CallersSame DEF CallsInv, Latest
  <1>6. \A p \in Callers : (Closing(p))' <=> lifecycle' = p BY <1>2, CallersSame DEF CallsInv
  <1>7. \A p \in Callers : (Closing(p))' /\ ~(Latest(p))'
          => \E q \in Callers : At(q)' = "lock" /\ (Latest(q))'
    <2> TAKE p \in Callers
    <2> HAVE (Closing(p))' /\ ~(Latest(p))'
    <2>1. PICK q \in Callers : At(q) = "lock" /\ Latest(q) BY CallersSame DEF CallsInv
    <2>2. At(q)' = "lock" BY <2>1, CallersSame DEF Latest
    <2>3. (Latest(q))' BY <2>1, CallersSame
    <2> QED BY <2>2, <2>3
  <1> QED BY <1>3, <1>4, <1>5, <1>6, <1>7 DEF CallsInv

Busy == {"connected", "configuring", "sending"}

\* No call of Connect or Disconnect goes on, and the manager stays on its run.
Quiet ==
  /\ CallersQuiet /\ SameRun /\ s'.connCtx = s.connCtx /\ open' = open /\ m'.conn = m.conn
  /\ \/ s'.state = s.state
     \/ /\ s.state \in Busy
        /\ s'.state \in Busy \/ (s'.state = "disconnected" /\ s.connCtx = "done")
     \/ /\ s.state # "disconnected" /\ s'.state # "disconnected" /\ pc[Mgr] # "idle"
        /\ s.connCtx # "done"
  /\ \/ /\ At(Mgr)' = At(Mgr) /\ m'.verdict = m.verdict
        /\ pc[Mgr] = "idle" => pc'[Mgr] = "idle"
        /\ pc'[Mgr] = "idle" => pc[Mgr] = "idle" \/ At(Mgr) = "idle"
     \/ /\ pc[Mgr] # "idle" /\ pc'[Mgr] # "idle"
        /\ At(Mgr) \in RunPC \ {"endRun"}
        /\ \E l \in RunPC : At(Mgr)' = l /\ (l = "endRun" => (m'.verdict = "disconnect" => s.connCtx = "done"))

LEMMA ConnQuiet ==
  ASSUME ConnInv, Quiet
  PROVE  ConnInv'
  <1>1. CallersQuiet BY DEF Quiet
  <1>2. CallsInv' BY <1>1, CallsKept DEF ConnInv
  <1>3. RunInv' BY DEF ConnInv, RunInv, Quiet, SameRun
  <1>4. ManagerInv'
    <2>1. \A p \in Callers : (Closing(p))' => s'.connCtx # "live" /\ s'.state = "disconnected"
      BY <1>1, CallersSame DEF ConnInv, ManagerInv, Quiet, Busy
    <2>2. \A p \in Callers : (OnOpen(p))' =>
             pc'[Mgr] = "idle" /\ s'.state = "connecting" /\ s'.connCtx # "live"
      BY <1>1, CallersSame DEF ConnInv, ManagerInv, Quiet, Busy
    <2>3. pc'[Mgr] # "idle" => pc[Mgr] # "idle" BY DEF Quiet
    <2>4. ASSUME pc'[Mgr] # "idle"
          PROVE  /\ s'.connCtx # "none" /\ (s'.connCtx = "done" <=> s'.state = "disconnected")
                 /\ \A l \in {"endRun", "endCorr", "verdict"} :
                      At(Mgr)' = l /\ m'.verdict = "disconnect" => s'.connCtx = "done"
                 /\ At(Mgr)' = "idle" => s'.connCtx = "done"
      BY <2>3, <2>4 DEF ConnInv, ManagerInv, Quiet, Busy, RunPC
    <2> QED BY <2>1, <2>2, <2>4 DEF ManagerInv
  <1>5. LastInv'
    <2>1. CASE \E p \in Callers : Latest(p) BY <1>1, <2>1, CallersSame DEF LastInv
    <2>2. CASE ~\E p \in Callers : Latest(p)
      <3>1. last' = "disconnect" => pc'[Mgr] = "idle"
        BY <2>2 DEF ConnInv, LastInv, Quiet, CallersQuiet
      <3>2. ASSUME pc'[Mgr] = "idle" PROVE s'.state = "disconnected"
        <4>1. CASE pc[Mgr] = "idle"
          BY <2>2, <3>2, <4>1 DEF ConnInv, LastInv, Quiet, Busy
        <4>2. CASE pc[Mgr] # "idle"
          BY <3>2, <4>2 DEF ConnInv, ManagerInv, Quiet, Busy
        <4> QED BY <4>1, <4>2
      <3> QED BY <3>1, <3>2 DEF LastInv
    <2> QED BY <2>1, <2>2
  <1>6. OpenInv'
    <2> SUFFICES ASSUME NEW r \in open
                 PROVE  \/ r = s'.conn \/ r = m'.conn
                        \/ \E p \in Callers : At(p)' = "handover" /\ loc'[p].run = r
      BY DEF OpenInv, Quiet
    <2>1. s'.conn = s.conn /\ m'.conn = m.conn BY DEF Quiet, SameRun
    <2>2. CASE \E p \in Callers : At(p) = "handover" /\ loc[p].run = r
      <3>1. PICK p \in Callers : At(p) = "handover" /\ loc[p].run = r BY <2>2
      <3>2. At(p)' = "handover" /\ loc'[p].run = r BY <1>1, <3>1, CallersSame DEF LifecyclePC
      <3> QED BY <3>2
    <2> QED BY <2>1, <2>2 DEF ConnInv, OpenInv
  <1> QED BY <1>2, <1>3, <1>4, <1>5, <1>6 DEF ConnInv

\* What the second line of a goroutine's step says of the calls and the manager.
StaysQuiet(a) ==
  /\ \E l \in PCs \ LifecyclePC : Move(a, l) /\ At(a) \notin LifecyclePC
  /\ pc'[Mgr] = pc[Mgr] /\ lifecycle' = lifecycle /\ last' = last
  /\ \A p \in Callers \ {a} : loc'[p] = loc[p]

LEMMA MoveQuiet ==
  ASSUME Typed, NEW a \in Callers \cup Sends, StaysQuiet(a), s'.gen = s.gen
  PROVE  CallersQuiet /\ At(Mgr)' = At(Mgr)
  <1>1. a # Mgr BY Constants
  <1>2. At(Mgr)' = At(Mgr) BY <1>1, Constants DEF StaysQuiet, Move
  <1>3. \A p \in Callers \ {a} : At(p)' = At(p) /\ loc'[p] = loc[p]
    BY Constants DEF StaysQuiet, Move
  <1>4. \E l \in PCs \ LifecyclePC : At(a)' = l /\ At(a) \notin LifecyclePC
    BY DEF StaysQuiet, Move
  <1> QED BY <1>2, <1>3, <1>4 DEF CallersQuiet, StaysQuiet

LEMMA StayQuiet ==
  ASSUME \A a \in Actors : At(a)' = At(a), s'.gen = s.gen,
         UNCHANGED <<loc, lifecycle, last>>
  PROVE  CallersQuiet /\ At(Mgr)' = At(Mgr)
  BY Constants DEF CallersQuiet

LEMMA QuietConfig ==
  ASSUME Typed, Places, NEW p \in Callers,
         (\E c \in {"config", "reset", "noop"} : beginConfig(p, c)) \/ ConfigStep(p)
  PROVE  Quiet
  <1>0. pc[p] \notin Emitting => At(p) = pc[p] BY DEF At, Emitting
  <1>p. {"idle", "endOp", "request", "offer"} \subseteq PCs \ LifecyclePC
    BY DEF PCs, CallerPC, LifecyclePC
  <1>1. ASSUME NEW c \in {"config", "reset", "noop"}, beginConfig(p, c) PROVE Quiet
    <2>1. /\ At(p) = "idle" /\ \E l \in {"endOp", "request"} : Move(p, l)
          /\ pc'[Mgr] = pc[Mgr] /\ UNCHANGED <<m, open, lifecycle, last>> /\ Others(p)
          /\ SameRun /\ SameCalls /\ s.state = "connected" /\ s'.state = "configuring"
      BY <1>0, <1>1, BeginConfigEffect, Constants DEF EmitsThen, Emitting, envVars
    <2>2. StaysQuiet(p) BY <1>p, <2>1 DEF StaysQuiet, Others, LifecyclePC
    <2> QED BY <2>1, <2>2, MoveQuiet DEF Quiet, SameCalls, Busy
  <1>2. CASE sendConfigRequest(p)
    <2>1. /\ At(p) = "request" /\ \E l \in {"endOp", "offer"} : Move(p, l)
          /\ pc'[Mgr] = pc[Mgr] /\ UNCHANGED <<s, m, open, lifecycle, last>> /\ Others(p)
      BY <1>0, <1>2, SendRequestEffect, Constants DEF GoesTo, Emitting, envVars
    <2>2. StaysQuiet(p) BY <1>p, <2>1 DEF StaysQuiet, Others, LifecyclePC
    <2> QED BY <2>1, <2>2, MoveQuiet DEF Quiet, SameRun
  <1>3. CASE giveUpRequest(p)
    <2>1. /\ At(p) \in {"offer", "result"} /\ Move(p, "endOp")
          /\ m'.conn = m.conn /\ m'.verdict = m.verdict
          /\ pc'[Mgr] = pc[Mgr] /\ UNCHANGED <<s, open, lifecycle, last, loc>>
      BY <1>0, <1>3, GiveUpEffect, Constants DEF GoesTo, Emitting, envVars
    <2>2. StaysQuiet(p) BY <1>p, <2>1 DEF StaysQuiet, LifecyclePC
    <2> QED BY <2>1, <2>2, MoveQuiet DEF Quiet, SameRun
  <1>4. CASE endConfig(p)
    <2>1. /\ At(p) = "endOp" /\ Move(p, "idle")
          /\ pc'[Mgr] = pc[Mgr] /\ UNCHANGED <<m, open, lifecycle, last>> /\ Others(p)
          /\ Ends(p, loc[p].run)
      BY <1>0, <1>4, EndConfigEffect, Constants DEF Ends, GoesTo, EmitsThen, Emitting, envVars
    <2>2. StaysQuiet(p) BY <1>p, <2>1 DEF StaysQuiet, Others, LifecyclePC
    <2>3. s'.gen = s.gen BY <2>1 DEF Ends, SameCalls
    <2> QED BY <2>1, <2>2, <2>3, MoveQuiet DEF Quiet, Ends, SameRun, SameCalls, Busy
  <1> QED BY <1>1, <1>2, <1>3, <1>4 DEF ConfigStep

LEMMA QuietSend ==
  ASSUME Typed, Places, NEW p \in Callers,
         (\E i \in Sends : beginSend(p, i)) \/ commitSend(p) \/ spawnSend(p) \/ CancelMsgSend(p)
  PROVE  Quiet
  <1>0. pc[p] \notin Emitting => At(p) = pc[p] BY DEF At, Emitting
  <1>1. LocalOK(p) BY DEF Places
  <1>p. {"idle", "gap", "spawn"} \subseteq PCs \ LifecyclePC BY DEF PCs, CallerPC, LifecyclePC
  <1>2. ASSUME NEW i \in Sends, beginSend(p, i) PROVE Quiet
    <2>1. /\ At(p) = "idle" /\ Move(p, "gap") /\ SameSession
          /\ pc'[Mgr] = pc[Mgr] /\ UNCHANGED <<m, open, lifecycle, last>> /\ Others(p)
      BY <1>0, <1>2, BeginSendEffect, Constants DEF GoesTo, Emitting, envVars
    <2>2. StaysQuiet(p) BY <1>p, <2>1 DEF StaysQuiet, Others, LifecyclePC
    <2> QED BY <2>1, <2>2, MoveQuiet DEF Quiet, SameSession, SameState, SameCalls
  <1>3. CASE commitSend(p)
    <2>1. pc[p] = "gap" /\ At(p) = "gap" BY <1>0, <1>3 DEF commitSend, Emitting
    <2>2. loc[p].slot \in Sends BY <1>1, <2>1 DEF LocalOK, Typed, TypeOK, LocalType
    <2>3. /\ \E l \in {"idle", "spawn"} : Move(p, l)
          /\ pc'[Mgr] = pc[Mgr] /\ UNCHANGED <<m, open, lifecycle, last>> /\ Others(p)
          /\ SameRun /\ SameCalls
          /\ SameState \/ (s.state = "connected" /\ s'.state = "sending")
      BY <1>3, <2>2, CommitEffect, Constants DEF GoesTo, EmitsThen, Others, envVars
    <2>4. StaysQuiet(p) BY <1>p, <2>1, <2>3 DEF StaysQuiet, Others, LifecyclePC
    <2> QED BY <2>3, <2>4, MoveQuiet DEF Quiet, SameState, SameCalls, Busy
  <1>4. CASE spawnSend(p)
    <2>1. pc[p] = "spawn" /\ At(p) = "spawn" BY <1>0, <1>4 DEF spawnSend, Emitting
    <2>2. loc[p].slot \in Sends BY <1>1, <2>1 DEF LocalOK, Typed, TypeOK, LocalType
    <2>3. PICK i \in Sends : i = loc[p].slot BY <2>2
    <2>4. /\ At(p)' = "idle" /\ \A q \in Callers \ {p} : At(q)' = At(q) /\ loc'[q] = loc[q]
          /\ pc'[Mgr] = pc[Mgr] /\ At(Mgr)' = At(Mgr)
          /\ UNCHANGED <<s, m, open, lifecycle, last>>
      BY <1>4, <2>3, SpawnEffect, Constants DEF Others, envVars
    <2>5. CallersQuiet BY <1>p, <2>1, <2>4 DEF CallersQuiet, LifecyclePC
    <2> QED BY <2>4, <2>5 DEF Quiet, SameRun
  <1>5. CASE CancelMsgSend(p)
    <2>1. SameSession /\ UNCHANGED <<pc, ret, loc, m, open, lifecycle, last>>
      BY <1>5, CancelMsgEffect DEF envVars
    <2>2. \A a \in Actors : At(a)' = At(a) BY <2>1 DEF At
    <2> QED BY <2>1, <2>2, StayQuiet DEF Quiet, SameSession, SameState, SameCalls
  <1> QED BY <1>2, <1>3, <1>4, <1>5

LEMMA QuietCorrections ==
  ASSUME Typed, Places, NEW p \in Callers,
         StartCorrections(p) \/ StopCorrections(p) \/ restart(p) \/ stopWait(p)
  PROVE  Quiet
  <1>0. pc[p] \notin Emitting => At(p) = pc[p] BY DEF At, Emitting
  <1>p. {"idle", "restart", "stopWait"} \subseteq PCs \ LifecyclePC
    BY DEF PCs, CallerPC, LifecyclePC
  <1>1. CASE StartCorrections(p) \/ StopCorrections(p)
    <2>1. /\ At(p) = "idle" /\ SameState /\ SameRun /\ SameCalls
          /\ UNCHANGED <<m, open, lifecycle, last>>
          /\ UNCHANGED <<pc, ret, loc>> \/ \E l \in {"restart", "stopWait"} : Stops(p, l)
      BY <1>0, <1>1, StartEffect, StopEffect DEF Emitting, envVars
    <2>2. CASE UNCHANGED <<pc, ret, loc>>
      <3>1. \A a \in Actors : At(a)' = At(a) BY <2>2 DEF At
      <3> QED BY <2>1, <2>2, <3>1, StayQuiet DEF Quiet, SameState, SameCalls
    <2>3. ASSUME NEW l \in {"restart", "stopWait"}, Stops(p, l) PROVE Quiet
      <3>1. Move(p, l) /\ pc'[Mgr] = pc[Mgr] /\ Others(p)
        BY <2>3, Constants DEF Stops, GoesTo
      <3>2. StaysQuiet(p) BY <1>p, <2>1, <3>1 DEF StaysQuiet, Others, LifecyclePC
      <3> QED BY <2>1, <3>1, <3>2, MoveQuiet DEF Quiet, SameState, SameCalls
    <2> QED BY <2>1, <2>2, <2>3
  <1>2. CASE restart(p) \/ stopWait(p)
    <2>1. /\ At(p) \in {"restart", "stopWait"} /\ SameState /\ SameRun /\ SameCalls
          /\ Move(p, "idle") /\ pc'[Mgr] = pc[Mgr] /\ Others(p)
          /\ UNCHANGED <<m, open, lifecycle, last>>
      BY <1>0, <1>2, AfterStopEffect, Constants DEF GoesTo, Emitting, envVars
    <2>2. StaysQuiet(p) BY <1>p, <2>1 DEF StaysQuiet, Others, LifecyclePC
    <2> QED BY <2>1, <2>2, MoveQuiet DEF Quiet, SameState, SameCalls
  <1> QED BY <1>1, <1>2

LEMMA QuietOther ==
  ASSUME Typed,
         \/ \E i \in Sends : CoordStep(i) \/ WorkerStep(i)
         \/ \E k \in Corrs : CorrStep(k)
         \/ \E a \in Actors : emitStateChange(a) \/ publish(a)
         \/ TransportLost
  PROVE  Quiet
  <1>1. ASSUME NEW i \in Sends, CoordStep(i) PROVE Quiet
    <2>0. {"idle", "step", "reply", "finish", "endOp"} \subseteq PCs \ LifecyclePC
      BY DEF PCs, CallerPC, CoordPC, LifecyclePC
    <2>1. CASE coordStep(i) \/ coordReply(i) \/ coordCancelled(i) \/ finishSend(i)
      <3>1. /\ At(i) \in {"step", "reply", "finish"} /\ SameSession
            /\ \E l \in {"step", "reply", "finish", "endOp"} : Move(i, l)
            /\ pc'[Mgr] = pc[Mgr] /\ UNCHANGED <<loc, m, open, lifecycle, last>>
        BY <2>1, CoordEffect, Constants DEF GoesTo, At, envVars
      <3>2. StaysQuiet(i) BY <2>0, <3>1 DEF StaysQuiet, LifecyclePC
      <3> QED BY <3>1, <3>2, MoveQuiet DEF Quiet, SameSession, SameState, SameCalls
    <2>2. CASE endSend(i)
      <3>1. /\ At(i) = "endOp" /\ Move(i, "idle") /\ Ends(i, snd[i].run)
            /\ pc'[Mgr] = pc[Mgr] /\ UNCHANGED <<loc, m, open, lifecycle, last>>
        BY <2>2, EndSendEffect, Constants DEF Ends, GoesTo, EmitsThen, At, envVars
      <3>2. StaysQuiet(i) BY <2>0, <3>1 DEF StaysQuiet, LifecyclePC
      <3>3. s'.gen = s.gen BY <3>1 DEF Ends, SameCalls
      <3> QED BY <3>1, <3>2, <3>3, MoveQuiet DEF Quiet, Ends, SameRun, SameCalls, Busy
    <2> QED BY <1>1, <2>1, <2>2 DEF CoordStep
  <1>2. ASSUME NEW a \in Actors, emitStateChange(a) \/ publish(a) PROVE Quiet
    <2>1. /\ \A b \in Actors : At(b)' = At(b)
          /\ UNCHANGED <<loc, m, lifecycle, open, last>>
          /\ s'.state = s.state /\ SameRun /\ SameCalls
      BY <1>2, EmitEffect, PublishEffect DEF Stay, envVars
    <2>2. /\ pc[a] \in Emitting /\ \A b \in Actors \ {a} : pc'[b] = pc[b]
          /\ pc'[a] = ret[a] \/ pc'[a] = "publish"
      BY <1>2, EmitEffect, PublishEffect DEF Returns, Emitting
    <2>3. /\ pc[Mgr] = "idle" => pc'[Mgr] = "idle"
          /\ pc'[Mgr] = "idle" => pc[Mgr] = "idle" \/ At(Mgr) = "idle"
      BY <2>2, Constants DEF At, Emitting
    <2> QED BY <2>1, <2>3, StayQuiet DEF Quiet, SameCalls
  <1>3. CASE \/ \E i \in Sends : WorkerStep(i)
             \/ \E k \in Corrs : CorrStep(k)
             \/ TransportLost
    <2>1. /\ UNCHANGED <<pc, ret, loc, m, lifecycle, open, last>>
          /\ SameState /\ SameRun /\ SameCalls
      BY <1>3, WorkerEffect, CorrEffect, LostEffect DEF envVars, SameState, SameRun, SameCalls
    <2>2. \A a \in Actors : At(a)' = At(a) BY <2>1 DEF At
    <2> QED BY <2>1, <2>2, StayQuiet DEF Quiet, SameState, SameCalls
  <1> QED BY <1>1, <1>2, <1>3

\* On its run, the manager learns that it is done from the context.
LEMMA RunDoneCtx ==
  ASSUME ConnInv, At(Mgr) \in RunPC, RunDone(s.run)
  PROVE  s.connCtx = "done"
  BY DEF ConnInv, RunInv, RunDone

LEMMA QuietManager ==
  ASSUME Typed, Places, ConnInv,
         \/ probePort \/ probe \/ probeDone \/ streamDied \/ configPort \/ configDone
         \/ \E p \in Callers : takeRequest(p)
  PROVE  Quiet
  <1>0. pc[Mgr] \notin Emitting => At(Mgr) = pc[Mgr] BY DEF At, Emitting
  <1>p. {"endOp", "result"} \subseteq PCs \ LifecyclePC BY DEF PCs, CallerPC, LifecyclePC
  <1>1. CASE probePort \/ probe \/ streamDied
    <2>1. /\ pc[Mgr] \in {"probePort", "probe", "loop"}
          /\ \E l \in {"probe", "probeDone", "endRun"} :
               /\ GoesTo(Mgr, l)
               /\ l = "endRun" => (m'.verdict = "disconnect" => RunDone(s.run))
          /\ m'.conn = m.conn /\ UNCHANGED <<s, loc, open, lifecycle, last>>
      BY <1>1, ProbePortEffect, ProbeEffect, StreamDiedEffect DEF SameJobs, envVars
    <2>2. PICK l \in {"probe", "probeDone", "endRun"} :
               /\ GoesTo(Mgr, l)
               /\ l = "endRun" => (m'.verdict = "disconnect" => RunDone(s.run))
      BY <2>1
    <2>3. /\ pc'[Mgr] = l /\ At(Mgr)' = l /\ \A p \in Callers : At(p)' = At(p)
      BY <2>2, Constants DEF GoesTo, Move
    <2>4. At(Mgr) \in RunPC \ {"endRun"} BY <1>0, <2>1 DEF RunPC, Emitting
    <2>5. l = "endRun" => (m'.verdict = "disconnect" => s.connCtx = "done")
      BY <2>2, <2>4, RunDoneCtx
    <2>6. CallersQuiet BY <2>1, <2>3 DEF CallersQuiet
    <2> QED BY <2>1, <2>3, <2>4, <2>5, <2>6 DEF Quiet, SameRun, RunPC
  <1>2. CASE probeDone
    <2>1. /\ pc[Mgr] = "probeDone" /\ At(Mgr) = "probeDone" /\ m'.conn = m.conn
          /\ SameRun /\ SameCalls /\ UNCHANGED <<loc, open, lifecycle, last>>
      BY <1>0, <1>2, ProbeDoneEffect DEF SameJobs, envVars, Emitting
    <2>2. ASSUME NEW l \in {"loop", "endRun"}, Move(Mgr, l), pc'[Mgr] # "idle",
                 l = "endRun" => s.connCtx = "done",
                 \/ s'.state = s.state
                 \/ /\ s.state # "disconnected" /\ s'.state # "disconnected"
                    /\ s.connCtx # "done"
          PROVE  Quiet
      <3>1. At(Mgr)' = l /\ \A p \in Callers : At(p)' = At(p) BY <2>2, Constants DEF Move
      <3>2. CallersQuiet BY <2>1, <3>1 DEF CallersQuiet, SameCalls
      <3> QED BY <2>1, <2>2, <3>1, <3>2 DEF Quiet, SameCalls, RunPC
    <2>3. CASE /\ s.state = "disconnected" \/ s.connCtx = "done"
               /\ GoesTo(Mgr, "endRun") /\ SameState
      <3>1. s.connCtx = "done" BY <2>1, <2>3 DEF ConnInv, ManagerInv
      <3> QED BY <2>2, <2>3, <3>1 DEF GoesTo, SameState
    <2>4. CASE /\ s.state # "disconnected" /\ s.connCtx # "done" /\ s'.state = "connected"
               /\ EmitsThen(Mgr, "loop")
      BY <2>2, <2>4 DEF EmitsThen
    <2> QED BY <1>2, <2>3, <2>4, ProbeDoneEffect
  <1>3. ASSUME NEW p \in Callers, takeRequest(p) PROVE Quiet
    <2>1. /\ pc[Mgr] = "loop" /\ At(Mgr) = "loop" /\ At(p) = "offer" /\ pc'[Mgr] = "cfgPort"
          /\ At(Mgr)' = "cfgPort" /\ At(p)' = "result"
          /\ \A q \in Callers \ {p} : At(q)' = At(q)
          /\ m'.conn = m.conn /\ UNCHANGED <<s, loc, open, lifecycle, last>>
      BY <1>0, <1>3, TakeRequestEffect, Constants DEF envVars, Emitting, At
    <2>2. CallersQuiet BY <1>p, <2>1 DEF CallersQuiet, LifecyclePC
    <2> QED BY <2>1, <2>2 DEF Quiet, SameRun, RunPC
  <1>4. ASSUME NEW l \in {"loop", "endRun"}, Answers(l), At(Mgr) \in {"cfgPort", "cfg"},
               pc[Mgr] # "idle", SameState, SameRun, SameCalls, m'.conn = m.conn,
               l = "endRun" => s.connCtx = "done",
               UNCHANGED <<loc, open, lifecycle, last>>
        PROVE  Quiet
    <2>1. At(Mgr)' = l /\ pc'[Mgr] = l BY <1>4 DEF Answers
    <2>2. \A p \in Callers : \/ At(p)' = At(p)
                             \/ At(p) = "result" /\ At(p)' = "endOp"
      BY <1>4, Constants DEF Answers, Places, RequestInv
    <2>3. CallersQuiet BY <1>p, <1>4, <2>2 DEF CallersQuiet, LifecyclePC, SameCalls
    <2> QED BY <1>4, <2>1, <2>3 DEF Quiet, SameState, SameCalls, RunPC
  <1>5. CASE configPort
    <2>1. /\ pc[Mgr] = "cfgPort" /\ At(Mgr) = "cfgPort" /\ At(Mgr) \in RunPC
          /\ m'.conn = m.conn /\ SameState /\ SameRun /\ SameCalls
          /\ UNCHANGED <<loc, open, lifecycle, last>>
      BY <1>0, <1>5, ConfigPortEffect DEF envVars, Emitting, RunPC
    <2>2. CASE RunDone(s.run) /\ Answers("endRun") BY <1>4, <2>1, <2>2, RunDoneCtx
    <2>3. CASE GoesTo(Mgr, "cfg")
      <3>1. /\ At(Mgr)' = "cfg" /\ pc'[Mgr] = "cfg" /\ \A p \in Callers : At(p)' = At(p)
        BY <2>3, Constants DEF GoesTo, Move
      <3>2. CallersQuiet BY <2>1, <3>1 DEF CallersQuiet, SameCalls
      <3> QED BY <2>1, <3>1, <3>2 DEF Quiet, SameState, SameCalls, RunPC
    <2> QED BY <1>5, <2>2, <2>3, ConfigPortEffect
  <1>6. CASE configDone
    <2>1. /\ pc[Mgr] = "cfg" /\ At(Mgr) = "cfg" /\ Answers("loop")
          /\ m'.conn = m.conn /\ SameState /\ SameRun /\ SameCalls
          /\ UNCHANGED <<loc, open, lifecycle, last>>
      BY <1>0, <1>6, ConfigDoneEffect
      DEF envVars, Emitting, SameState, SameRun, SameCalls
    <2> QED BY <1>4, <2>1
  <1> QED BY <1>1, <1>2, <1>3, <1>5, <1>6

\* The manager alone moves: what is left to show.
LEMMA ManagerConn ==
  ASSUME Typed, Places, ConnInv, NEW l, Move(Mgr, l), s'.gen = s.gen,
         UNCHANGED <<loc, lifecycle, last>>, pc[Mgr] # "idle",
         RunInv', OpenInv',
         s'.connCtx # "none", s'.connCtx = "done" <=> s'.state = "disconnected",
         s.state = "disconnected" => s'.state = "disconnected",
         s'.connCtx = "live" => s.connCtx = "live",
         pc'[Mgr] = "idle" => s'.connCtx = "done",
         l \in {"endRun", "endCorr", "verdict"}
           => (m'.verdict = "disconnect" => s'.connCtx = "done"),
         l = "idle" => s'.connCtx = "done"
  PROVE  ConnInv'
  <1>1. At(Mgr)' = l /\ \A p \in Callers : At(p)' = At(p) BY Constants DEF Move
  <1>2. CallersQuiet BY <1>1 DEF CallersQuiet
  <1>3. CallsInv' BY <1>2, CallsKept DEF ConnInv
  <1>4. s'.connCtx # "none" /\ (s'.connCtx = "done" <=> s'.state = "disconnected") OBVIOUS
  <1>5. ManagerInv'
    <2>1. \A p \in Callers : (Closing(p))' => s'.connCtx # "live" /\ s'.state = "disconnected"
      BY <1>2, CallersSame DEF ConnInv, ManagerInv
    <2>2. \A p \in Callers : ~(OnOpen(p))' BY <1>2, CallersSame DEF ConnInv, ManagerInv
    <2>3. \A x \in {"endRun", "endCorr", "verdict"} :
            At(Mgr)' = x /\ m'.verdict = "disconnect" => s'.connCtx = "done"
      BY <1>1
    <2>4. At(Mgr)' = "idle" => s'.connCtx = "done" BY <1>1
    <2> QED BY <1>4, <2>1, <2>2, <2>3, <2>4 DEF ManagerInv
  <1>6. LastInv'
    <2>1. CASE \E p \in Callers : Latest(p) BY <1>2, <2>1, CallersSame DEF LastInv
    <2>2. CASE ~\E p \in Callers : Latest(p)
      <3>1. last # "disconnect" BY <2>2 DEF ConnInv, LastInv
      <3>2. pc'[Mgr] = "idle" => s'.state = "disconnected" BY <1>4
      <3> QED BY <3>1, <3>2 DEF LastInv
    <2> QED BY <2>1, <2>2
  <1> QED BY <1>3, <1>5, <1>6 DEF ConnInv

LEMMA ConnManager ==
  ASSUME Typed, Places, ConnInv, ManagerStep
  PROVE  ConnInv'
  <1>0. pc[Mgr] \notin Emitting => At(Mgr) = pc[Mgr] BY DEF At, Emitting
  <1>1. ManagerLocal BY DEF Places
  <1>i. IdleManager.conn = 0 /\ IdleManager.verdict = "none" BY DEF IdleManager
  <1>2. pc[Mgr] # "idle" => /\ s.connCtx # "none"
                            /\ (s.connCtx = "done" <=> s.state = "disconnected")
    BY DEF ConnInv, ManagerInv
  <1>3. CASE \/ probePort \/ probe \/ probeDone \/ streamDied \/ configPort \/ configDone
             \/ \E p \in Callers : takeRequest(p)
    BY <1>3, QuietManager, ConnQuiet
  <1>4. ASSUME NEW l \in PCs, Move(Mgr, l), UNCHANGED <<loc, lifecycle, last>>,
               \A r \in open' : r \in open /\ r # s.conn,
               m'.conn = m.conn, s'.conn = 0
        PROVE  OpenInv'
    <2>1. \A p \in Callers : At(p)' = At(p) BY <1>4, Constants DEF Move
    <2> QED BY <1>4, <2>1 DEF ConnInv, OpenInv
  <1>5. CASE runConn
    <2>1. /\ pc[Mgr] = "install" /\ At(Mgr) = "install" /\ Move(Mgr, "probePort")
          /\ pc'[Mgr] = "probePort" /\ SameState /\ SameCalls
          /\ s'.run = m.conn /\ s'.conn = m.conn /\ s'.runCtx = "live" /\ m'.conn = 0
          /\ UNCHANGED <<loc, lifecycle, last, open>>
      BY <1>0, <1>5, RunConnEffect DEF GoesTo, envVars, Emitting
    <2>2. At(Mgr)' = "probePort" /\ \A p \in Callers : At(p)' = At(p)
      BY <2>1, Constants DEF Move
    <2>3. RunInv' BY <2>1, <2>2 DEF RunInv, RunPC
    <2>4. s.conn = 0 BY <2>1 DEF ConnInv, RunInv, RunPC
    <2>5. OpenInv'
      <3>1. \A r \in open : r # 0 BY Constants DEF Typed, TypeOK
      <3> QED BY <2>1, <2>2, <2>4, <3>1 DEF ConnInv, OpenInv
    <2> QED BY <1>2, <2>1, <2>3, <2>5, ManagerConn DEF SameState, SameCalls
  <1>6. CASE endRun
    <2>1. /\ pc[Mgr] = "endRun" /\ At(Mgr) = "endRun" /\ SameState /\ SameCalls
          /\ s'.run = s.run /\ s'.runCtx = "done" /\ m'.conn = m.conn /\ m'.verdict = m.verdict
          /\ \/ s'.conn = 0 /\ open' = open \ {s.conn} /\ GoesTo(Mgr, "verdict")
             \/ s'.conn = s.conn /\ open' = open /\ GoesTo(Mgr, "endCorr")
          /\ UNCHANGED <<loc, lifecycle, last>>
      BY <1>0, <1>6, EndRunEffect DEF Emitting
    <2>2. m.verdict = "disconnect" => s.connCtx = "done" BY <2>1 DEF ConnInv, ManagerInv
    <2>3. CASE s'.conn = 0 /\ open' = open \ {s.conn} /\ GoesTo(Mgr, "verdict")
      <3>1. Move(Mgr, "verdict") /\ pc'[Mgr] = "verdict" /\ At(Mgr)' = "verdict"
        BY <2>3 DEF GoesTo, Move
      <3>2. RunInv' BY <2>1, <2>3, <3>1 DEF RunInv, RunPC
      <3>3. OpenInv' BY <1>4, <2>1, <2>3, <3>1 DEF PCs, ManagerPC
      <3> QED BY <1>2, <2>1, <2>2, <3>1, <3>2, <3>3, ManagerConn DEF SameState, SameCalls
    <2>4. CASE s'.conn = s.conn /\ open' = open /\ GoesTo(Mgr, "endCorr")
      <3>1. Move(Mgr, "endCorr") /\ pc'[Mgr] = "endCorr" /\ At(Mgr)' = "endCorr"
            /\ \A p \in Callers : At(p)' = At(p)
        BY <2>4, Constants DEF GoesTo, Move
      <3>2. RunInv' BY <2>1, <2>4, <3>1 DEF ConnInv, RunInv, RunPC
      <3>3. OpenInv' BY <2>1, <2>4, <3>1 DEF ConnInv, OpenInv
      <3> QED BY <1>2, <2>1, <2>2, <3>1, <3>2, <3>3, ManagerConn DEF SameState, SameCalls
    <2> QED BY <2>1, <2>3, <2>4
  <1>7. CASE endCorr
    <2>1. /\ pc[Mgr] = "endCorr" /\ At(Mgr) = "endCorr" /\ SameState /\ SameCalls
          /\ s'.run = s.run /\ s'.runCtx = s.runCtx /\ s'.conn = 0
          /\ m'.conn = m.conn /\ m'.verdict = m.verdict
          /\ open' = open \ {s.conn} /\ Move(Mgr, "verdict") /\ pc'[Mgr] = "verdict"
          /\ UNCHANGED <<loc, lifecycle, last>>
      BY <1>0, <1>7, EndCorrEffect DEF Emitting, GoesTo
    <2>2. m.verdict = "disconnect" => s.connCtx = "done" BY <2>1 DEF ConnInv, ManagerInv
    <2>3. At(Mgr)' = "verdict" BY <2>1 DEF Move
    <2>4. RunInv' BY <2>1, <2>3 DEF ConnInv, RunInv, RunPC
    <2>5. OpenInv' BY <1>4, <2>1 DEF PCs, ManagerPC
    <2> QED BY <1>2, <2>1, <2>2, <2>4, <2>5, ManagerConn DEF SameState, SameCalls
  <1>8. ASSUME NEW l \in PCs \ RunPC, Move(Mgr, l), At(Mgr) \in {"verdict", "reopen", "endConn"},
               SameRun, UNCHANGED <<loc, lifecycle, last, open>>, m'.conn = m.conn
        PROVE  RunInv' /\ OpenInv' /\ s.conn = 0
    <2>1. At(Mgr)' = l /\ \A p \in Callers : At(p)' = At(p) BY <1>8, Constants DEF Move
    <2>2. s.runCtx # "live" /\ s.conn = 0 BY <1>8 DEF ConnInv, RunInv, RunPC
    <2>3. RunInv' BY <1>8, <2>1, <2>2 DEF RunInv, SameRun
    <2>4. OpenInv' BY <1>8, <2>1 DEF ConnInv, OpenInv, SameRun
    <2> QED BY <2>2, <2>3, <2>4
  <1>9. CASE enterReconnect \/ managerReturn
    <2>1. /\ pc[Mgr] = "verdict" /\ At(Mgr) = "verdict" /\ m' = IdleManager
          /\ SameRun /\ SameCalls /\ UNCHANGED <<loc, lifecycle, last, open>>
      BY <1>0, <1>9, VerdictEffect DEF Emitting, envVars
    <2>2. m'.conn = m.conn /\ m'.verdict # "disconnect" BY <1>1, <1>i, <2>1 DEF ManagerLocal
    <2>3. m.verdict = "disconnect" => s.connCtx = "done" BY <2>1 DEF ConnInv, ManagerInv
    <2>4. s.connCtx \in {"none", "live", "done"} BY DEF Typed, TypeOK, SessionType
    <2>5. CASE /\ s.state = "disconnected" \/ s.connCtx # "live" \/ m.verdict = "disconnect"
               /\ GoesTo(Mgr, "idle") /\ SameState
      <3>1. Move(Mgr, "idle") BY <2>5 DEF GoesTo
      <3>2. RunInv' /\ OpenInv' BY <1>8, <2>1, <2>2, <3>1 DEF PCs, ManagerPC, RunPC
      <3>3. s.connCtx = "done" BY <1>2, <2>1, <2>3, <2>4, <2>5
      <3> QED BY <1>2, <2>1, <2>5, <3>1, <3>2, <3>3, ManagerConn DEF SameState, SameCalls
    <2>6. CASE /\ s.state # "disconnected" /\ s.connCtx = "live"
               /\ EmitsThen(Mgr, "reopen") /\ s'.state = "reconnecting"
      <3>1. Move(Mgr, "reopen") /\ pc'[Mgr] = "emit" BY <2>6 DEF EmitsThen
      <3>2. RunInv' /\ OpenInv' BY <1>8, <2>1, <2>2, <3>1 DEF PCs, ManagerPC, RunPC
      <3> QED BY <1>2, <2>1, <2>6, <3>1, <3>2, ManagerConn DEF SameCalls
    <2> QED BY <1>9, <2>5, <2>6, VerdictEffect
  <1>10. CASE reopen
    <2>1. /\ pc[Mgr] = "reopen" /\ At(Mgr) = "reopen" /\ UNCHANGED <<s, loc, lifecycle, last>>
      BY <1>0, <1>10, ReopenEffect DEF Emitting
    <2>2. m.conn = 0 BY <1>1, <2>1 DEF ManagerLocal
    <2>3. CASE /\ open' = open \cup {opened'} /\ m'.conn = opened' /\ GoesTo(Mgr, "install")
      <3>1. /\ Move(Mgr, "install") /\ pc'[Mgr] = "install" /\ At(Mgr)' = "install"
            /\ \A p \in Callers : At(p)' = At(p)
        BY <2>3, Constants DEF GoesTo, Move
      <3>2. s.runCtx # "live" /\ s.conn = 0 BY <2>1 DEF ConnInv, RunInv, RunPC
      <3>3. RunInv' BY <2>1, <3>1, <3>2 DEF RunInv, RunPC
      <3>4. \A r \in open : r # 0 BY Constants DEF Typed, TypeOK
      <3>5. OpenInv' BY <2>1, <2>2, <2>3, <3>1, <3>2, <3>4 DEF ConnInv, OpenInv
      <3> QED BY <1>2, <2>1, <3>1, <3>3, <3>5, ManagerConn
    <2>4. CASE GoesTo(Mgr, "endConn") /\ m'.conn = m.conn /\ open' = open
      <3>1. Move(Mgr, "endConn") /\ pc'[Mgr] = "endConn" BY <2>4 DEF GoesTo
      <3>2. RunInv' /\ OpenInv'
        BY <1>8, <2>1, <2>4, <3>1 DEF PCs, ManagerPC, RunPC, SameRun
      <3> QED BY <1>2, <2>1, <3>1, <3>2, ManagerConn
    <2>5. CASE m'.conn = m.conn /\ UNCHANGED <<pc, ret, open>>
      <3>1. Move(Mgr, "reopen") /\ pc'[Mgr] = "reopen" BY <2>1, <2>5 DEF Move, At
      <3>2. RunInv' /\ OpenInv'
        BY <1>8, <2>1, <2>5, <3>1 DEF PCs, ManagerPC, RunPC, SameRun
      <3> QED BY <1>2, <2>1, <3>1, <3>2, ManagerConn
    <2> QED BY <1>10, <2>3, <2>4, <2>5, ReopenEffect
  <1>11. CASE endConn
    <2>1. /\ pc[Mgr] \in {"endConn", "verdict"} /\ At(Mgr) \in {"endConn", "verdict"}
          /\ m' = IdleManager /\ Move(Mgr, "idle") /\ SameRun /\ s'.gen = s.gen
          /\ pc'[Mgr] = "emit"
          /\ s'.connCtx = (IF s.connCtx = "live" THEN "done" ELSE s.connCtx)
          /\ s'.state = "disconnected" /\ UNCHANGED <<loc, lifecycle, last, open>>
      BY <1>0, <1>11, EndConnEffect DEF Emitting, envVars, EmitsThen
    <2>2. m'.conn = m.conn /\ m'.verdict # "disconnect" BY <1>1, <1>i, <2>1 DEF ManagerLocal
    <2>3. RunInv' /\ OpenInv' BY <1>8, <2>1, <2>2 DEF PCs, ManagerPC, RunPC
    <2>4. s'.connCtx = "done"
      <3>1. s.connCtx \in {"none", "live", "done"} BY DEF Typed, TypeOK, SessionType
      <3> QED BY <1>2, <2>1, <3>1
    <2> QED BY <2>1, <2>3, <2>4, ManagerConn
  <1> QED BY <1>3, <1>5, <1>6, <1>7, <1>9, <1>10, <1>11 DEF ManagerStep

\* The numbers of calls.
LEMMA GenType ==
  ASSUME Typed
  PROVE  s.gen \in Nat /\ \A p \in Callers : loc[p].gen \in Nat
  <1>1. s \in SessionType /\ loc \in [Callers -> LocalType] BY DEF Typed, TypeOK
  <1> QED BY <1>1 DEF SessionType, LocalType

\* A new call is the latest.
LEMMA ConnReserve ==
  ASSUME Typed, Places, ConnInv, NEW p \in Callers,
         NEW c \in {"connect", "disconnect"}, reserveLifecycle(p, c)
  PROVE  ConnInv'
  <1>1. /\ pc[p] = "idle" /\ At(p) = "idle" /\ At(p)' = "lock"
        /\ pc'[Mgr] = pc[Mgr] /\ At(Mgr)' = At(Mgr)
        /\ \A q \in Callers \ {p} : At(q)' = At(q) /\ loc'[q] = loc[q]
    BY ReserveEffect, Constants DEF GoesTo, Move, Others, At
  <1>2. /\ s'.state = s.state /\ SameRun /\ s'.gen = s.gen + 1 /\ s'.connCtx = s.connCtx
        /\ loc'[p].call = c /\ loc'[p].gen = s.gen + 1 /\ last' = c
        /\ UNCHANGED <<m, lifecycle, open>>
    BY ReserveEffect DEF SameState, envVars
  <1>3. s.gen \in Nat /\ \A q \in Callers : loc[q].gen \in Nat BY GenType
  <1>4. \A q \in Callers \ {p} : At(q) \in LifecyclePC => loc[q].gen < s.gen + 1
    BY <1>3 DEF ConnInv, CallsInv
  <1>5. At(p)' \in LifecyclePC BY <1>1 DEF LifecyclePC
  <1>6. (Latest(p))' BY <1>2, <1>5 DEF Latest
  <1>7. \A q \in Callers \ {p} : ~(Latest(q))' BY <1>1, <1>2, <1>3, <1>4 DEF Latest
  <1>8. CallsInv'
    <2>1. \A q \in Callers : At(q)' \in LifecyclePC => loc'[q].gen <= s'.gen
      BY <1>1, <1>2, <1>3, <1>4
    <2>2. \A q, r \in Callers : At(q)' \in LifecyclePC /\ At(r)' \in LifecyclePC
                                /\ loc'[q].gen = loc'[r].gen => q = r
      BY <1>1, <1>2, <1>3, <1>4 DEF ConnInv, CallsInv
    <2>3. \A q \in Callers : (Latest(q))' => loc'[q].call = last' BY <1>2, <1>7
    <2>4. \A q \in Callers : (Closing(q))' <=> lifecycle' = q
      BY <1>1, <1>2 DEF ConnInv, CallsInv, Closing
    <2>5. \A q \in Callers : (Closing(q))' /\ ~(Latest(q))'
            => \E r \in Callers : At(r)' = "lock" /\ (Latest(r))'
      BY <1>1, <1>6
    <2> QED BY <2>1, <2>2, <2>3, <2>4, <2>5 DEF CallsInv
  <1>9. RunInv' BY <1>1, <1>2 DEF ConnInv, RunInv, SameRun
  <1>10. ManagerInv'
    <2>1. \A q \in Callers : (Closing(q))' => s'.connCtx # "live" /\ s'.state = "disconnected"
      BY <1>1, <1>2 DEF ConnInv, ManagerInv, Closing
    <2>2. \A q \in Callers : ~(OnOpen(q))'
      <3>1. ~(OnOpen(p))' BY <1>1 DEF OnOpen
      <3>2. \A q \in Callers : (OnOpen(q))' => (Latest(q))' BY DEF OnOpen, Latest, LifecyclePC
      <3> QED BY <1>7, <3>1, <3>2
    <2>3. \A x \in {"endRun", "endCorr", "verdict", "idle"} : At(Mgr)' = x <=> At(Mgr) = x
      BY <1>1
    <2> QED BY <1>1, <1>2, <2>1, <2>2, <2>3 DEF ConnInv, ManagerInv
  <1>11. LastInv' BY <1>6 DEF LastInv
  <1>12. OpenInv'
    <2> SUFFICES ASSUME NEW r \in open
                 PROVE  \/ r = s'.conn \/ r = m'.conn
                        \/ \E q \in Callers : At(q)' = "handover" /\ loc'[q].run = r
      BY <1>2 DEF OpenInv
    <2>1. CASE \E q \in Callers : At(q) = "handover" /\ loc[q].run = r
      <3>1. PICK q \in Callers : At(q) = "handover" /\ loc[q].run = r BY <2>1
      <3>2. At(q)' = "handover" /\ loc'[q].run = r BY <1>1, <3>1
      <3> QED BY <3>2
    <2> QED BY <1>2, <2>1 DEF ConnInv, OpenInv, SameRun
  <1> QED BY <1>8, <1>9, <1>10, <1>11, <1>12 DEF ConnInv

\* A superseded call returns.
LEMMA ConnSuperseded ==
  ASSUME Typed, ConnInv, NEW p \in Callers, ~Latest(p), At(p) \in {"lock", "handover"},
         At(p)' = "idle", pc'[Mgr] = pc[Mgr], At(Mgr)' = At(Mgr),
         \A q \in Callers \ {p} : At(q)' = At(q) /\ loc'[q] = loc[q],
         s'.state = s.state, SameRun, SameCalls, m' = m, lifecycle' = lifecycle, last' = last,
         \A r \in open' : r \in open /\ (At(p) = "handover" => r # loc[p].run)
  PROVE  ConnInv'
  <1>1. \A q \in Callers : (Latest(q))' <=> Latest(q) BY DEF Latest, SameCalls, LifecyclePC
  <1>2. \A q \in Callers : (Closing(q))' <=> Closing(q) BY DEF Closing
  <1>3. \A q \in Callers : (OnOpen(q))' <=> OnOpen(q)
    <2>1. ~OnOpen(p) BY DEF OnOpen, Latest, LifecyclePC
    <2> QED BY <2>1 DEF OnOpen, SameCalls
  <1>4. CallsInv'
    <2>1. \A q \in Callers : At(q)' \in LifecyclePC => q # p BY DEF LifecyclePC
    <2>2. \A q \in Callers : At(q)' \in LifecyclePC => loc'[q].gen <= s'.gen
      BY <2>1 DEF ConnInv, CallsInv, SameCalls
    <2>3. \A q, r \in Callers : At(q)' \in LifecyclePC /\ At(r)' \in LifecyclePC
                                /\ loc'[q].gen = loc'[r].gen => q = r
      BY <2>1 DEF ConnInv, CallsInv
    <2>4. \A q \in Callers : (Latest(q))' => loc'[q].call = last'
      BY <1>1 DEF ConnInv, CallsInv
    <2>5. \A q \in Callers : (Closing(q))' <=> lifecycle' = q
      BY <1>2 DEF ConnInv, CallsInv
    <2>6. \A q \in Callers : (Closing(q))' /\ ~(Latest(q))'
            => \E r \in Callers : At(r)' = "lock" /\ (Latest(r))'
      <3> TAKE q \in Callers
      <3> HAVE (Closing(q))' /\ ~(Latest(q))'
      <3>1. PICK r \in Callers : At(r) = "lock" /\ Latest(r)
        BY <1>1, <1>2 DEF ConnInv, CallsInv
      <3> QED BY <1>1, <3>1
    <2> QED BY <2>2, <2>3, <2>4, <2>5, <2>6 DEF CallsInv
  <1>5. RunInv' BY DEF ConnInv, RunInv, SameRun
  <1>6. ManagerInv'
    <2>1. \A x \in {"endRun", "endCorr", "verdict", "idle"} : At(Mgr)' = x <=> At(Mgr) = x
      OBVIOUS
    <2>2. \A q \in Callers : (Closing(q))' => s'.connCtx # "live" /\ s'.state = "disconnected"
      BY <1>2 DEF ConnInv, ManagerInv, SameCalls
    <2>3. \A q \in Callers : (OnOpen(q))' =>
             pc'[Mgr] = "idle" /\ s'.state = "connecting" /\ s'.connCtx # "live"
      BY <1>3 DEF ConnInv, ManagerInv, SameCalls
    <2> QED BY <2>1, <2>2, <2>3 DEF ConnInv, ManagerInv, SameCalls
  <1>7. LastInv' BY <1>1 DEF ConnInv, LastInv
  <1>8. OpenInv'
    <2> SUFFICES ASSUME NEW r \in open'
                 PROVE  \/ r = s'.conn \/ r = m'.conn
                        \/ \E q \in Callers : At(q)' = "handover" /\ loc'[q].run = r
      BY DEF OpenInv
    <2>1. r \in open OBVIOUS
    <2>2. CASE \E q \in Callers : At(q) = "handover" /\ loc[q].run = r
      <3>1. PICK q \in Callers : At(q) = "handover" /\ loc[q].run = r BY <2>2
      <3>2. q # p BY <3>1
      <3>3. At(q)' = "handover" /\ loc'[q].run = r BY <3>1, <3>2
      <3> QED BY <3>3
    <2> QED BY <2>1, <2>2 DEF ConnInv, OpenInv, SameRun
  <1> QED BY <1>4, <1>5, <1>6, <1>7, <1>8 DEF ConnInv

\* Lifecycle call p, which is the latest or has passed lifecycleMu, goes on at l.
CallGoes(p, l) ==
  /\ At(p) \in LifecyclePC /\ At(p)' = l /\ l # "lock"
  /\ \A q \in Callers \ {p} : At(q)' = At(q) /\ loc'[q] = loc[q]
  /\ s'.gen = s.gen /\ last' = last
  /\ l \in LifecyclePC => loc'[p].gen = loc[p].gen /\ loc'[p].call = loc[p].call
  /\ l \in {"closeCorr", "closeWait"} =>
       lifecycle' = p /\ At(p) \in {"lock", "closeCorr", "closeWait"}
  /\ l \notin {"closeCorr", "closeWait"} =>
       lifecycle' = IF At(p) \in {"closeCorr", "closeWait"} THEN None ELSE lifecycle
  /\ At(p) = "lock" => lifecycle = None /\ Latest(p)

LEMMA CallMoves ==
  ASSUME CallsInv, NEW p \in Callers, NEW l, CallGoes(p, l)
  PROVE  /\ CallsInv'
         /\ \A q \in Callers \ {p} : (Latest(q))' <=> Latest(q)
         /\ l \in LifecyclePC => ((Latest(p))' <=> Latest(p))
         /\ \A q \in Callers \ {p} : (Closing(q))' <=> Closing(q)
         /\ \A q \in Callers \ {p} : (OnOpen(q))' <=> OnOpen(q)
  <1>1. \A q \in Callers \ {p} : (Latest(q))' <=> Latest(q) BY DEF CallGoes, Latest
  <1>2. l \in LifecyclePC => ((Latest(p))' <=> Latest(p)) BY DEF CallGoes, Latest
  <1>3. \A q \in Callers \ {p} : /\ (Closing(q))' <=> Closing(q)
                                 /\ (OnOpen(q))' <=> OnOpen(q)
    BY DEF CallGoes, Closing, OnOpen
  <1>4. \A q \in Callers : At(q)' \in LifecyclePC =>
          At(q) \in LifecyclePC /\ loc'[q].gen = loc[q].gen /\ loc'[q].call = loc[q].call
    BY DEF CallGoes
  <1>5. \A q \in Callers : At(q)' \in LifecyclePC => loc'[q].gen <= s'.gen
    BY <1>4 DEF CallGoes, CallsInv
  <1>6. \A q, r \in Callers : At(q)' \in LifecyclePC /\ At(r)' \in LifecyclePC
                              /\ loc'[q].gen = loc'[r].gen => q = r
    BY <1>4 DEF CallsInv
  <1>7. \A q \in Callers : (Latest(q))' => loc'[q].call = last'
    <2> TAKE q \in Callers
    <2> HAVE (Latest(q))'
    <2>1. At(q)' \in LifecyclePC BY DEF Latest
    <2>2. Latest(q) BY <1>1, <1>2, <2>1 DEF CallGoes
    <2> QED BY <1>4, <2>1, <2>2 DEF CallsInv, CallGoes
  <1>8. (Closing(p))' <=> l \in {"closeCorr", "closeWait"} BY DEF Closing, CallGoes
  <1>9. \A q \in Callers : (Closing(q))' <=> lifecycle' = q
    <2>1. \A q \in Callers : q # None BY Constants
    <2>2. Closing(p) <=> At(p) \in {"closeCorr", "closeWait"} BY DEF Closing
    <2>3. At(p) \in {"lock", "closeCorr", "closeWait"} => lifecycle \in {None, p}
      BY <2>2 DEF CallGoes, CallsInv
    <2> QED BY <1>3, <1>8, <2>1, <2>2, <2>3 DEF CallGoes, CallsInv
  <1>10. \A q \in Callers : (Closing(q))' /\ ~(Latest(q))'
           => \E r \in Callers : At(r)' = "lock" /\ (Latest(r))'
    <2> TAKE q \in Callers
    <2> HAVE (Closing(q))' /\ ~(Latest(q))'
    <2>0. \A r \in Callers : r # None BY Constants
    <2>1. Closing(q) /\ ~Latest(q) /\ At(p) # "lock"
      <3>1. CASE q = p
        <4>1. l \in {"closeCorr", "closeWait"} BY <1>8, <3>1
        <4>2. ~Latest(q) BY <1>2, <3>1, <4>1 DEF LifecyclePC
        <4> QED BY <3>1, <4>1, <4>2 DEF CallGoes, Closing
      <3>2. CASE q # p
        <4>1. Closing(q) /\ ~Latest(q) BY <1>1, <1>3, <3>2
        <4>2. lifecycle = q BY <4>1 DEF CallsInv
        <4> QED BY <2>0, <4>1, <4>2 DEF CallGoes
      <3> QED BY <3>1, <3>2
    <2>2. PICK r \in Callers : At(r) = "lock" /\ Latest(r) BY <2>1 DEF CallsInv
    <2>3. r # p BY <2>1, <2>2
    <2> QED BY <1>1, <2>2, <2>3 DEF CallGoes
  <1> QED BY <1>1, <1>2, <1>3, <1>5, <1>6, <1>7, <1>9, <1>10 DEF CallsInv

\* The rest of the invariant where a lifecycle call goes on and the manager does not.
LEMMA CallConn ==
  ASSUME Typed, ConnInv, NEW p \in Callers, NEW l, CallGoes(p, l),
         pc'[Mgr] = pc[Mgr], At(Mgr)' = At(Mgr), m' = m, s'.run = s.run, s'.runCtx = s.runCtx,
         s'.conn = s.conn \/ (s'.conn = 0 /\ pc[Mgr] = "idle"),
         l \in {"closeCorr", "closeWait"} => s'.connCtx # "live" /\ s'.state = "disconnected",
         \/ s'.state = s.state /\ s'.connCtx = s.connCtx
         \/ /\ Latest(p)
            /\ \/ pc[Mgr] = "idle"
               \/ /\ s'.state = "disconnected"
                  /\ s'.connCtx = IF s.connCtx = "live" THEN "done" ELSE s.connCtx,
         l \in {"open", "handover"} /\ Latest(p) =>
           pc[Mgr] = "idle" /\ s'.state = "connecting" /\ s'.connCtx # "live",
         l \notin LifecyclePC /\ Latest(p) => pc[Mgr] = "idle" /\ s'.state = "disconnected",
         OpenInv'
  PROVE  ConnInv'
  <1>1. /\ CallsInv'
        /\ \A q \in Callers \ {p} : (Latest(q))' <=> Latest(q)
        /\ l \in LifecyclePC => ((Latest(p))' <=> Latest(p))
        /\ \A q \in Callers \ {p} : (Closing(q))' <=> Closing(q)
        /\ \A q \in Callers \ {p} : (OnOpen(q))' <=> OnOpen(q)
    BY CallMoves DEF ConnInv
  <1>i. pc[Mgr] = "idle" => At(Mgr) = "idle" BY DEF At
  <1>2. RunInv' BY <1>i DEF ConnInv, RunInv, RunPC
  <1>3. At(p)' = l /\ At(p) \in LifecyclePC BY DEF CallGoes
  <1>4. \A q \in Callers \ {p} : OnOpen(q) => ~Latest(p)
    BY <1>3 DEF OnOpen, Latest, LifecyclePC, ConnInv, CallsInv
  <1>5. ManagerInv'
    <2>1. \A q \in Callers : (Closing(q))' => s'.connCtx # "live" /\ s'.state = "disconnected"
      <3>1. CASE l \in {"closeCorr", "closeWait"} BY <3>1
      <3>2. CASE l \notin {"closeCorr", "closeWait"}
        <4> SUFFICES ASSUME NEW q \in Callers, (Closing(q))'
                     PROVE  s'.connCtx # "live" /\ s'.state = "disconnected"
          OBVIOUS
        <4>1. q # p BY <1>3, <3>2 DEF Closing
        <4>2. Closing(q) BY <1>1, <4>1
        <4>3. lifecycle' = q BY <1>1 DEF CallsInv
        <4>4. s.connCtx # "live" /\ s.state = "disconnected" BY <4>2 DEF ConnInv, ManagerInv
        <4>5. At(p) \notin {"lock", "closeCorr", "closeWait"}
          <5>1. lifecycle = q /\ q # None BY <4>2, Constants DEF ConnInv, CallsInv
          <5>2. At(p) # "lock" BY <5>1 DEF CallGoes
          <5>3. ~Closing(p) BY <4>1, <5>1 DEF ConnInv, CallsInv
          <5> QED BY <5>2, <5>3 DEF Closing
        <4>6. ~Latest(p) \/ OnOpen(p) BY <1>3, <4>5 DEF Latest, OnOpen, LifecyclePC
        <4>7. ~OnOpen(p) BY <4>4 DEF ConnInv, ManagerInv
        <4> QED BY <4>4, <4>6, <4>7
      <3> QED BY <3>1, <3>2
    <2>2. \A q \in Callers : (OnOpen(q))' =>
             pc'[Mgr] = "idle" /\ s'.state = "connecting" /\ s'.connCtx # "live"
      <3>1. ASSUME (OnOpen(p))'
            PROVE  pc'[Mgr] = "idle" /\ s'.state = "connecting" /\ s'.connCtx # "live"
        <4>1. l \in {"open", "handover"} BY <1>3, <3>1 DEF OnOpen
        <4>2. (Latest(p))' BY <3>1 DEF OnOpen, Latest, LifecyclePC
        <4> QED BY <1>1, <4>1, <4>2 DEF LifecyclePC
      <3>2. ASSUME NEW q \in Callers \ {p}, (OnOpen(q))'
            PROVE  pc'[Mgr] = "idle" /\ s'.state = "connecting" /\ s'.connCtx # "live"
        BY <1>1, <1>4, <3>2 DEF ConnInv, ManagerInv
      <3> QED BY <3>1, <3>2
    <2>3. ASSUME pc'[Mgr] # "idle"
          PROVE  /\ s'.connCtx # "none" /\ (s'.connCtx = "done" <=> s'.state = "disconnected")
                 /\ \A x \in {"endRun", "endCorr", "verdict"} :
                      At(Mgr)' = x /\ m'.verdict = "disconnect" => s'.connCtx = "done"
                 /\ At(Mgr)' = "idle" => s'.connCtx = "done"
      <3>1. s.connCtx \in {"none", "live", "done"} BY DEF Typed, TypeOK, SessionType
      <3> QED BY <2>3, <3>1 DEF ConnInv, ManagerInv
    <2> QED BY <2>1, <2>2, <2>3 DEF ManagerInv
  <1>6. LastInv'
    <2>1. CASE \E q \in Callers \ {p} : Latest(q) BY <1>1, <2>1 DEF LastInv
    <2>2. CASE Latest(p)
      <3>1. CASE l \in LifecyclePC BY <1>1, <2>2, <3>1 DEF LastInv
      <3>2. CASE l \notin LifecyclePC BY <2>2, <3>2 DEF LastInv
      <3> QED BY <3>1, <3>2
    <2>3. CASE ~\E q \in Callers : Latest(q)
      <3>1. last' = last BY DEF CallGoes
      <3> QED BY <2>3, <3>1 DEF ConnInv, LastInv
    <2> QED BY <2>1, <2>2, <2>3
  <1> QED BY <1>1, <1>2, <1>5, <1>6 DEF ConnInv

LEMMA ConnLifecycle ==
  ASSUME Typed, Places, ConnInv, NEW p \in Callers, LifecycleStep(p)
  PROVE  ConnInv'
  <1>0. pc[p] \notin Emitting => At(p) = pc[p] BY DEF At, Emitting
  <1>1. LocalOK(p) BY DEF Places
  <1>m. p # Mgr /\ p \in Actors /\ Mgr \in Actors BY Constants
  <1>2. ASSUME NEW l, Move(p, l), Others(p), pc'[Mgr] = pc[Mgr]
        PROVE  /\ At(p)' = l /\ At(Mgr)' = At(Mgr)
               /\ \A q \in Callers \ {p} : At(q)' = At(q) /\ loc'[q] = loc[q]
    BY <1>2, <1>m, Constants DEF Move, Others
  <1>3. ASSUME \A q \in Callers \ {p} : At(q)' = At(q) /\ loc'[q] = loc[q],
               At(p) # "handover", m' = m,
               \/ open' = open /\ s'.conn = s.conn
               \/ open' = open \ {s.conn}
        PROVE  OpenInv'
    <2> SUFFICES ASSUME NEW r \in open'
                 PROVE  \/ r = s'.conn \/ r = m'.conn
                        \/ \E q \in Callers : At(q)' = "handover" /\ loc'[q].run = r
      BY DEF OpenInv
    <2>1. r \in open BY <1>3
    <2>2. CASE \E q \in Callers : At(q) = "handover" /\ loc[q].run = r
      <3>1. PICK q \in Callers : At(q) = "handover" /\ loc[q].run = r BY <2>2
      <3>2. q # p BY <1>3, <3>1
      <3>3. At(q)' = "handover" /\ loc'[q].run = r BY <1>3, <3>1, <3>2
      <3> QED BY <3>3
    <2> QED BY <1>3, <2>1, <2>2 DEF ConnInv, OpenInv
  <1>4. CASE beginLifecycle(p)
    <2>1. /\ pc[p] = "lock" /\ At(p) = "lock" /\ lifecycle = None
          /\ UNCHANGED <<m, open, last>>
      BY <1>0, <1>4, BeginEffect DEF Emitting, envVars
    <2>2. CASE Superseded(p) /\ GoesTo(p, "idle") /\ Others(p) /\ UNCHANGED <<s, lifecycle>>
      <3>1. Move(p, "idle") /\ pc'[Mgr] = pc[Mgr] BY <1>m, <2>2 DEF GoesTo
      <3>2. ~Latest(p) BY <2>2 DEF Superseded, Latest
      <3> QED BY <1>2, <2>1, <2>2, <3>1, <3>2, ConnSuperseded DEF SameRun, SameCalls
    <2>3. ASSUME NEW l \in {"closeCorr", "closeWait"}, GoesTo(p, l), Others(p),
                 ~Superseded(p), lifecycle' = p,
                 loc'[p].call = loc[p].call, loc'[p].gen = loc[p].gen,
                 s'.state = "disconnected", SameRun, s'.gen = s.gen,
                 s'.connCtx = IF s.connCtx = "live" THEN "done" ELSE s.connCtx
          PROVE  ConnInv'
      <3>1. Move(p, l) /\ pc'[Mgr] = pc[Mgr] BY <1>m, <2>3 DEF GoesTo
      <3>2. Latest(p) BY <2>1, <2>3 DEF Superseded, Latest, LifecyclePC
      <3>3. CallGoes(p, l) BY <1>2, <2>1, <2>3, <3>1, <3>2 DEF CallGoes, LifecyclePC
      <3>4. OpenInv' BY <1>2, <1>3, <2>1, <2>3, <3>1 DEF SameRun
      <3>5. s.connCtx \in {"none", "live", "done"} BY DEF Typed, TypeOK, SessionType
      <3> QED
        BY <1>2, <2>1, <2>3, <3>1, <3>2, <3>3, <3>4, <3>5, CallConn DEF SameRun, LifecyclePC
    <2>4. CASE ~Superseded(p)
      <3>1. PICK l \in {"closeCorr", "closeWait"} :
              /\ GoesTo(p, l) /\ Others(p)
              /\ loc'[p].call = loc[p].call /\ loc'[p].gen = loc[p].gen
        BY <1>4, <2>4, BeginEffect DEF Others
      <3>2. /\ lifecycle' = p /\ s'.state = "disconnected" /\ SameRun /\ s'.gen = s.gen
            /\ s'.connCtx = IF s.connCtx = "live" THEN "done" ELSE s.connCtx
        BY <1>4, <2>4, BeginEffect
      <3> QED BY <2>3, <2>4, <3>1, <3>2
    <2> QED BY <1>4, <2>2, <2>4, BeginEffect
  <1>5. CASE closeCorr(p)
    <2>1. /\ pc[p] = "closeCorr" /\ At(p) = "closeCorr" /\ UNCHANGED <<m, open, last, lifecycle>>
          /\ Move(p, "closeWait") /\ pc'[Mgr] = pc[Mgr] /\ Others(p)
          /\ SameState /\ SameRun /\ SameCalls
          /\ loc'[p].call = loc[p].call /\ loc'[p].gen = loc[p].gen
      BY <1>0, <1>5, <1>m, CloseCorrEffect DEF Emitting, envVars, GoesTo
    <2>2. Closing(p) BY <2>1 DEF Closing
    <2>3. lifecycle = p /\ s.connCtx # "live" /\ s.state = "disconnected"
      BY <2>2 DEF ConnInv, CallsInv, ManagerInv
    <2>4. CallGoes(p, "closeWait")
      BY <1>2, <2>1, <2>3 DEF CallGoes, LifecyclePC, SameCalls
    <2>5. OpenInv' BY <1>2, <1>3, <2>1 DEF SameRun
    <2> QED
      BY <1>2, <2>1, <2>3, <2>4, <2>5, CallConn DEF SameState, SameRun, SameCalls, LifecyclePC
  <1>6. CASE closeWait(p)
    <2>1. /\ pc[p] = "closeWait" /\ At(p) = "closeWait" /\ UNCHANGED <<m, last>>
          /\ open' = open \ {s.conn} /\ lifecycle' = None
          /\ s'.run = s.run /\ s'.runCtx = s.runCtx /\ s'.conn = 0 /\ SameCalls
          /\ ConnWg = {}
      BY <1>0, <1>6, CloseWaitEffect DEF Emitting
    <2>2. pc[Mgr] = "idle" BY <2>1 DEF ConnWg
    <2>3. Closing(p) BY <2>1 DEF Closing
    <2>4. lifecycle = p /\ s.connCtx # "live" /\ s.state = "disconnected"
      BY <2>3 DEF ConnInv, CallsInv, ManagerInv
    <2>5. Latest(p) <=> ~Superseded(p) BY <2>1 DEF Latest, Superseded, LifecyclePC
    <2>6. ASSUME NEW l \in {"idle", "open"}, Move(p, l), Others(p), pc'[Mgr] = pc[Mgr],
                 \/ s'.state = s.state
                 \/ s'.state = "connecting" /\ Latest(p),
                 l = "open" => s'.state = "connecting" /\ loc' = loc,
                 l = "idle" => s'.state = s.state
          PROVE  ConnInv'
      <3>1. CallGoes(p, l) BY <1>2, <2>1, <2>4, <2>6 DEF CallGoes, LifecyclePC, SameCalls
      <3>2. OpenInv' BY <1>2, <1>3, <2>1, <2>6
      <3>3. l \notin {"closeCorr", "closeWait"} /\ l # "handover" /\ s'.connCtx = s.connCtx
        BY <2>1 DEF SameCalls
      <3>4. l \notin LifecyclePC => s'.state = "disconnected"
        BY <2>4, <2>6 DEF LifecyclePC
      <3>5. \/ s'.state = s.state /\ s'.connCtx = s.connCtx
            \/ Latest(p) /\ pc[Mgr] = "idle"
        BY <2>2, <2>6, <3>3
      <3>6. At(Mgr)' = At(Mgr) BY <1>2, <2>6
      <3>7. l \in {"open", "handover"} /\ Latest(p) =>
              pc[Mgr] = "idle" /\ s'.state = "connecting" /\ s'.connCtx # "live"
        BY <2>2, <2>4, <2>6, <3>3
      <3> QED
        BY <2>1, <2>2, <2>6, <3>1, <3>2, <3>3, <3>4, <3>5, <3>6, <3>7, CallConn
    <2>7. CASE Superseded(p) /\ GoesTo(p, "idle") /\ Others(p) /\ SameState
      BY <1>m, <2>6, <2>7 DEF GoesTo, SameState
    <2>8. CASE /\ ~Superseded(p) /\ EmitsThen(p, "open") /\ s'.state = "connecting"
               /\ UNCHANGED loc
      <3>1. Others(p) BY <2>8 DEF Others
      <3> QED BY <1>m, <2>5, <2>6, <2>8, <3>1 DEF EmitsThen
    <2>9. CASE ~Superseded(p) /\ EmitsThen(p, "idle") /\ Others(p) /\ SameState
      BY <1>m, <2>6, <2>9 DEF EmitsThen, SameState
    <2> QED BY <1>6, <2>7, <2>8, <2>9, CloseWaitEffect
  <1>7. CASE Open(p)
    <2>1. /\ pc[p] = "open" /\ At(p) = "open" /\ UNCHANGED <<s, m, lifecycle, last>>
          /\ Move(p, "handover") /\ pc'[Mgr] = pc[Mgr] /\ Others(p)
          /\ loc'[p].call = loc[p].call /\ loc'[p].gen = loc[p].gen
      BY <1>0, <1>7, <1>m, OpenEffect DEF Emitting, GoesTo
    <2>2. Latest(p) => pc[Mgr] = "idle" /\ s.state = "connecting" /\ s.connCtx # "live"
      BY <2>1 DEF Latest, OnOpen, ConnInv, ManagerInv
    <2>3. CallGoes(p, "handover") BY <1>2, <2>1 DEF CallGoes, LifecyclePC
    <2>4. OpenInv'
      <3> SUFFICES ASSUME NEW r \in open'
                   PROVE  \/ r = s'.conn \/ r = m'.conn
                          \/ \E q \in Callers : At(q)' = "handover" /\ loc'[q].run = r
        BY DEF OpenInv
      <3>1. \/ open' = open
            \/ open' = open \cup {opened'} /\ loc'[p].run = opened'
        BY <1>7, OpenEffect
      <3>2. At(p)' = "handover" BY <1>2, <2>1
      <3>3. CASE r \in open
        <4>1. CASE \E q \in Callers : At(q) = "handover" /\ loc[q].run = r
          <5>1. PICK q \in Callers : At(q) = "handover" /\ loc[q].run = r BY <4>1
          <5>2. q # p BY <2>1, <5>1
          <5>3. At(q)' = "handover" /\ loc'[q].run = r BY <1>2, <2>1, <5>1, <5>2
          <5> QED BY <5>3
        <4> QED BY <2>1, <3>3, <4>1 DEF ConnInv, OpenInv
      <3> QED BY <3>1, <3>2, <3>3
    <2> QED BY <1>2, <2>1, <2>2, <2>3, <2>4, CallConn DEF LifecyclePC
  <1>8. CASE handover(p)
    <2>1. /\ pc[p] = "handover" /\ At(p) = "handover" /\ UNCHANGED <<lifecycle, last>>
          /\ SameRun /\ s'.gen = s.gen /\ Others(p) /\ lifecycle = None
      BY <1>0, <1>8, HandoverEffect DEF Emitting
    <2>2. CASE /\ Superseded(p) /\ GoesTo(p, "idle") /\ open' = open \ {loc[p].run}
               /\ SameState /\ SameCalls /\ UNCHANGED m
      <3>1. Move(p, "idle") /\ pc'[Mgr] = pc[Mgr] BY <1>m, <2>2 DEF GoesTo
      <3>2. ~Latest(p) BY <2>2 DEF Superseded, Latest
      <3> QED BY <1>2, <2>1, <2>2, <3>1, <3>2, ConnSuperseded DEF SameState
    <2>3. ~Superseded(p) => /\ Latest(p) /\ pc[Mgr] = "idle" /\ s.state = "connecting"
                            /\ s.connCtx # "live"
      BY <2>1 DEF Superseded, Latest, LifecyclePC, OnOpen, ConnInv, ManagerInv
    <2>4. CASE /\ ~Superseded(p) /\ loc[p].run = 0 /\ EmitsThen(p, "idle") /\ UNCHANGED open
               /\ s'.state = "disconnected" /\ SameCalls /\ UNCHANGED m
      <3>1. Move(p, "idle") /\ pc'[Mgr] = pc[Mgr] BY <1>m, <2>4 DEF EmitsThen
      <3>2. CallGoes(p, "idle") BY <1>2, <2>1, <2>4, <3>1 DEF CallGoes, LifecyclePC
      <3>3. OpenInv'
        <4> SUFFICES ASSUME NEW r \in open
                     PROVE  \/ r = s'.conn \/ r = m'.conn
                            \/ \E q \in Callers : At(q)' = "handover" /\ loc'[q].run = r
          BY <2>4 DEF OpenInv
        <4>1. r # 0 BY Constants DEF Typed, TypeOK
        <4>2. CASE \E q \in Callers : At(q) = "handover" /\ loc[q].run = r
          <5>1. PICK q \in Callers : At(q) = "handover" /\ loc[q].run = r BY <4>2
          <5>2. q # p BY <2>4, <4>1, <5>1
          <5>3. At(q)' = "handover" /\ loc'[q].run = r BY <1>2, <2>1, <3>1, <5>1, <5>2
          <5> QED BY <5>3
        <4> QED BY <2>1, <2>4, <4>2 DEF ConnInv, OpenInv, SameRun
      <3> QED BY <1>2, <2>1, <2>3, <2>4, <3>1, <3>2, <3>3, CallConn DEF SameRun
    <2>5. CASE /\ ~Superseded(p) /\ loc[p].run # 0 /\ UNCHANGED open
               /\ pc'[p] = "idle" /\ pc'[Mgr] = "install"
               /\ \A a \in Actors \ {p, Mgr} : pc'[a] = pc[a] /\ At(a)' = At(a)
               /\ At(p)' = "idle" /\ At(Mgr)' = "install"
               /\ SameState /\ s'.connCtx = "live"
               /\ m'.conn = loc[p].run /\ m'.verdict = "none"
      <3>1. \A q \in Callers \ {p} : At(q)' = At(q) /\ loc'[q] = loc[q]
        BY <2>1, <2>5, Constants DEF Others
      <3>2. CallGoes(p, "idle") BY <2>1, <2>5, <3>1 DEF CallGoes, LifecyclePC
      <3>3. /\ CallsInv'
            /\ \A q \in Callers \ {p} : (Latest(q))' <=> Latest(q)
            /\ \A q \in Callers \ {p} : (OnOpen(q))' <=> OnOpen(q)
        BY <3>2, CallMoves DEF ConnInv
      <3>4. Latest(p) /\ pc[Mgr] = "idle" /\ s.state = "connecting" BY <2>3, <2>5
      <3>5. At(Mgr) = "idle" BY <3>4 DEF At
      <3>6. s.runCtx # "live" /\ s.conn = 0 BY <3>5 DEF ConnInv, RunInv, RunPC
      <3>7. RunInv' BY <2>1, <2>5, <3>6 DEF RunInv, RunPC, SameRun
      <3>8. ManagerInv'
        <4>1. \A q \in Callers : ~(Closing(q))'
          BY <2>1, <3>3, Constants DEF CallsInv
        <4>2. \A q \in Callers : ~(OnOpen(q))'
          <5>1. ~(OnOpen(p))' BY <2>5 DEF OnOpen
          <5>2. \A q \in Callers \ {p} : ~OnOpen(q)
            BY <3>4 DEF OnOpen, Latest, LifecyclePC, ConnInv, CallsInv
          <5> QED BY <3>3, <5>1, <5>2
        <4>3. s'.connCtx = "live" /\ s'.state = "connecting" /\ At(Mgr)' = "install"
          BY <2>5, <3>4 DEF SameState
        <4> QED BY <4>1, <4>2, <4>3 DEF ManagerInv
      <3>9. LastInv'
        <4>1. last' = "connect"
          <5>1. loc[p].call = "connect" BY <1>1, <2>1 DEF LocalOK
          <5>2. loc[p].call = last BY <3>4 DEF ConnInv, CallsInv
          <5> QED BY <2>1, <5>1, <5>2
        <4> QED BY <2>5, <4>1 DEF LastInv
      <3>10. OpenInv'
        <4> SUFFICES ASSUME NEW r \in open
                     PROVE  \/ r = s'.conn \/ r = m'.conn
                            \/ \E q \in Callers : At(q)' = "handover" /\ loc'[q].run = r
          BY <2>5 DEF OpenInv
        <4>1. r # 0 BY Constants DEF Typed, TypeOK
        <4>2. m.conn = 0 BY <3>5 DEF Places, ManagerLocal
        <4>3. CASE \E q \in Callers : At(q) = "handover" /\ loc[q].run = r
          <5>1. PICK q \in Callers : At(q) = "handover" /\ loc[q].run = r BY <4>3
          <5>2. CASE q = p BY <2>5, <5>1, <5>2
          <5>3. CASE q # p
            <6>1. At(q)' = "handover" /\ loc'[q].run = r BY <3>1, <5>1, <5>3
            <6> QED BY <6>1
          <5> QED BY <5>2, <5>3
        <4> QED BY <2>1, <4>1, <4>2, <4>3 DEF ConnInv, OpenInv, SameRun
      <3> QED BY <3>3, <3>7, <3>8, <3>9, <3>10 DEF ConnInv
    <2> QED BY <1>8, <2>2, <2>4, <2>5, HandoverEffect
  <1> QED BY <1>4, <1>5, <1>6, <1>7, <1>8 DEF LifecycleStep

LEMMA ConnStep ==
  ASSUME Typed, Places, ConnInv, [Next]_vars
  PROVE  ConnInv'
  <1>1. ASSUME NEW p \in Callers,
               \/ \E c \in {"config", "reset", "noop"} : beginConfig(p, c)
               \/ ConfigStep(p)
               \/ (\E i \in Sends : beginSend(p, i)) \/ commitSend(p) \/ spawnSend(p)
               \/ CancelMsgSend(p)
               \/ StartCorrections(p) \/ StopCorrections(p) \/ restart(p) \/ stopWait(p)
        PROVE  ConnInv'
    BY <1>1, QuietConfig, QuietSend, QuietCorrections, ConnQuiet
  <1>2. CASE \/ \E i \in Sends : CoordStep(i) \/ WorkerStep(i)
             \/ \E k \in Corrs : CorrStep(k)
             \/ \E a \in Actors : emitStateChange(a) \/ publish(a)
             \/ TransportLost
    BY <1>2, QuietOther, ConnQuiet
  <1>3. CASE UNCHANGED vars
    <2>1. UNCHANGED <<s, pc, ret, loc, m, open, lifecycle, last>> BY <1>3 DEF vars, envVars
    <2>2. \A a \in Actors : At(a)' = At(a) BY <2>1 DEF At
    <2>3. Quiet BY <2>1, <2>2, StayQuiet DEF Quiet, SameRun
    <2> QED BY <2>3, ConnQuiet
  <1> QED BY <1>1, <1>2, <1>3, ConnReserve, ConnLifecycle, ConnManager DEF Next, Call

LEMMA ConnInit == Init => ConnInv
  <1> SUFFICES ASSUME Init PROVE ConnInv OBVIOUS
  <1>1. \A a \in Actors : At(a) = "idle" BY DEF Init, At
  <1>2. /\ s.runCtx = "done" /\ s.conn = 0 /\ s.state = "disconnected" /\ open = {}
        /\ lifecycle = None /\ last = "disconnect" /\ pc[Mgr] = "idle"
    BY Constants DEF Init
  <1>3. CallsInv BY <1>1, <1>2, Constants DEF CallsInv, Latest, Closing, LifecyclePC
  <1>4. RunInv BY <1>1, <1>2, Constants DEF RunInv, RunPC
  <1>5. ManagerInv BY <1>1, <1>2, Constants DEF ManagerInv, Closing, OnOpen
  <1>6. LastInv BY <1>2 DEF LastInv
  <1>7. OpenInv BY <1>2 DEF OpenInv
  <1> QED BY <1>3, <1>4, <1>5, <1>6, <1>7 DEF ConnInv

\* Who is inside Connect or Disconnect.
LEMMA InLifecycleAt ==
  ASSUME Typed, NEW p \in Callers
  PROVE  InLifecycle(p) <=> At(p) \in LifecyclePC
  <1>1. pc[p] \in Emitting => ret[p] \in {"idle", "open", "request", "endOp", "spawn"}
    BY Constants DEF Typed, Control, After
  <1> QED BY <1>1 DEF InLifecycle, At, LifecyclePC, Emitting

\* The last Connect or Disconnect wins: once every lifecycle call is through, nothing of a
\* superseded one is left, neither a manager after a Disconnect nor an open transport.
THEOREM LastWins == Spec => []LastCallWins
  <1>1. Init => Typed /\ Places /\ ConnInv BY PlacesInit, ConnInit
  <1>2. (Typed /\ Places /\ ConnInv) /\ [Next]_vars => (Typed /\ Places /\ ConnInv)'
    BY PlacesStep, ConnStep
  <1>3. Typed /\ Places /\ ConnInv => LastCallWins
    <2> SUFFICES ASSUME Typed, Places, ConnInv, \A p \in Callers : ~InLifecycle(p)
                 PROVE  /\ last = "disconnect" => pc[Mgr] = "idle"
                        /\ pc[Mgr] = "idle" => s.state = "disconnected" /\ open = {}
      BY DEF LastCallWins
    <2>1. \A p \in Callers : At(p) \notin LifecyclePC BY InLifecycleAt
    <2>2. /\ last = "disconnect" => pc[Mgr] = "idle"
          /\ pc[Mgr] = "idle" => s.state = "disconnected"
      BY <2>1 DEF ConnInv, LastInv, Latest
    <2>3. ASSUME pc[Mgr] = "idle" PROVE open = {}
      <3>1. At(Mgr) = "idle" BY <2>3 DEF At
      <3>2. s.conn = 0 /\ m.conn = 0
        BY <3>1 DEF ConnInv, RunInv, RunPC, Places, ManagerLocal
      <3>3. \A p \in Callers : At(p) # "handover" BY <2>1 DEF LifecyclePC
      <3>4. \A r \in open : r # 0 BY Constants DEF Typed, TypeOK
      <3> QED BY <3>2, <3>3, <3>4 DEF ConnInv, OpenInv
    <2> QED BY <2>2, <2>3
  <1> QED BY <1>1, <1>2, <1>3, PTL DEF Spec

-----------------------------------------------------------------------------
(* Publishing the state.                                                         *)

\* A lifecycle call that will deliver the state.
Pending == \E p \in Callers : Closing(p) \/ (At(p) = "lock" /\ Latest(p))

\* Who publishes has the newest state or will look again; a state that nobody has taken
\* is one that somebody is on the way to deliver.
EmitInv ==
  /\ \A a \in Actors : pc[a] = "publish" <=> emitting = a
  /\ s.seq = "old" => /\ emitting = None => published = s.state
                      /\ \A a \in Actors : emitting = a => event[a] = s.state
  /\ s.seq = "new" => Pending \/ \E a \in Actors : pc[a] \in Emitting

\* A step that delivers nothing: it leaves the state alone, or somebody delivers it.
Silent ==
  /\ UNCHANGED emitVars
  /\ \A a \in Actors : /\ pc[a] \in Emitting => pc'[a] = pc[a]
                       /\ pc'[a] = "publish" => pc[a] = "publish"
  /\ \/ SameState /\ (Pending => Pending' \/ \E a \in Actors : pc'[a] = "emit")
     \/ s'.seq = "new" /\ (Pending' \/ \E a \in Actors : pc'[a] = "emit")

LEMMA EmitKept ==
  ASSUME EmitInv, Silent
  PROVE  EmitInv'
  <1>1. emitting' = emitting /\ event' = event /\ published' = published
    BY DEF Silent, emitVars
  <1>2. \A a \in Actors : pc'[a] = "publish" <=> emitting' = a
    BY <1>1 DEF Silent, EmitInv, Emitting
  <1>3. s'.seq = "old" => SameState BY DEF Silent
  <1>4. s'.seq = "old" => /\ emitting' = None => published' = s'.state
                          /\ \A a \in Actors : emitting' = a => event'[a] = s'.state
    BY <1>1, <1>3 DEF EmitInv, SameState
  <1>5. s'.seq = "new" => Pending' \/ \E a \in Actors : pc'[a] \in Emitting
    <2>1. \A a \in Actors : pc[a] \in Emitting => pc'[a] \in Emitting BY DEF Silent
    <2>2. \A a \in Actors : pc'[a] = "emit" => pc'[a] \in Emitting BY DEF Emitting
    <2>3. CASE SameState /\ (Pending => Pending' \/ \E a \in Actors : pc'[a] = "emit")
      BY <2>1, <2>2, <2>3 DEF EmitInv, SameState
    <2>4. CASE s'.seq = "new" /\ (Pending' \/ \E a \in Actors : pc'[a] = "emit")
      BY <2>2, <2>4
    <2> QED BY <2>3, <2>4 DEF Silent
  <1> QED BY <1>2, <1>4, <1>5 DEF EmitInv

LEMMA PendingKept ==
  ASSUME CallersQuiet
  PROVE  Pending => Pending'
  <1> SUFFICES ASSUME Pending PROVE Pending' OBVIOUS
  <1>1. PICK p \in Callers : Closing(p) \/ (At(p) = "lock" /\ Latest(p)) BY DEF Pending
  <1>2. CASE Closing(p)
    <2>1. (Closing(p))' BY <1>2, CallersSame
    <2> QED BY <2>1 DEF Pending
  <1>3. CASE At(p) = "lock" /\ Latest(p)
    <2>1. At(p)' = "lock" /\ (Latest(p))' BY <1>3, CallersSame DEF Latest
    <2> QED BY <2>1 DEF Pending
  <1> QED BY <1>1, <1>2, <1>3

\* One goroutine goes on, and calls emitStateChange if it has set the state.
LEMMA SilentGoes ==
  ASSUME NEW a \in Actors, NEW l \in PCs \ Emitting, pc[a] \notin Emitting, UNCHANGED emitVars,
         Pending => Pending' \/ EmitsThen(a, l),
         \/ GoesTo(a, l) /\ SameState
         \/ EmitsThen(a, l) /\ (SameState \/ s'.seq = "new")
  PROVE  Silent
  <1>1. \A b \in Actors \ {a} : pc'[b] = pc[b] BY DEF GoesTo, EmitsThen
  <1>2. pc'[a] = l \/ pc'[a] = "emit" BY DEF GoesTo, EmitsThen
  <1>3. EmitsThen(a, l) => pc'[a] = "emit" BY DEF EmitsThen
  <1>4. \A b \in Actors : /\ pc[b] \in Emitting => pc'[b] = pc[b]
                          /\ pc'[b] = "publish" => pc[b] = "publish"
    BY <1>1, <1>2 DEF Emitting
  <1> QED BY <1>3, <1>4 DEF Silent

LEMMA SilentStays ==
  ASSUME UNCHANGED <<pc, emitVars>>, SameState, Pending => Pending'
  PROVE  Silent
  BY DEF Silent

LEMMA EmitQuiet ==
  ASSUME Typed, Places, NEW p \in Callers,
         \/ \E c \in {"config", "reset", "noop"} : beginConfig(p, c)
         \/ ConfigStep(p)
         \/ (\E i \in Sends : beginSend(p, i)) \/ commitSend(p) \/ spawnSend(p)
         \/ CancelMsgSend(p)
         \/ StartCorrections(p) \/ StopCorrections(p) \/ restart(p) \/ stopWait(p)
  PROVE  Silent
  <1>1. CallersQuiet BY QuietConfig, QuietSend, QuietCorrections DEF Quiet
  <1>2. Pending => Pending' BY <1>1, PendingKept
  <1>m. p \in Actors BY Constants
  <1>p. {"idle", "endOp", "request", "offer", "gap", "spawn", "restart", "stopWait"}
          \subseteq PCs \ Emitting
    BY DEF PCs, CallerPC, Emitting
  <1>3. CASE \/ \E c \in {"config", "reset", "noop"} : beginConfig(p, c)
             \/ ConfigStep(p)
             \/ \E i \in Sends : beginSend(p, i)
             \/ restart(p) \/ stopWait(p)
    <2> DEFINE GoesOn ==
                 /\ pc[p] \notin Emitting /\ UNCHANGED emitVars
                 /\ \E l \in {"idle", "endOp", "request", "offer", "gap"} :
                      \/ GoesTo(p, l) /\ SameState
                      \/ EmitsThen(p, l) /\ s'.seq = "new"
    <2>1. GoesOn
      <3>1. ASSUME NEW c \in {"config", "reset", "noop"}, beginConfig(p, c)
            PROVE  GoesOn
        BY <3>1, BeginConfigEffect DEF Emitting
      <3>2. CASE sendConfigRequest(p) BY <3>2, SendRequestEffect DEF Emitting, SameState
      <3>3. CASE giveUpRequest(p) BY <3>3, GiveUpEffect DEF Emitting, SameState
      <3>4. CASE endConfig(p) BY <3>4, EndConfigEffect DEF Emitting, SameState, Ends
      <3>5. ASSUME NEW i \in Sends, beginSend(p, i)
            PROVE  GoesOn
        BY <3>5, BeginSendEffect DEF Emitting, SameSession
      <3>6. CASE restart(p) \/ stopWait(p) BY <3>6, AfterStopEffect DEF Emitting
      <3> QED BY <1>3, <3>1, <3>2, <3>3, <3>4, <3>5, <3>6 DEF ConfigStep
    <2> QED BY <1>2, <1>m, <1>p, <2>1, SilentGoes
  <1>4. CASE commitSend(p)
    <2>1. pc[p] = "gap" /\ At(p) = "gap" BY <1>4 DEF commitSend, At
    <2>2. loc[p].slot \in Sends BY <2>1 DEF LocalOK, Typed, TypeOK, LocalType, Places
    <2> QED BY <1>2, <1>4, <1>m, <1>p, <2>1, <2>2, CommitEffect, SilentGoes DEF Emitting
  <1>5. CASE spawnSend(p)
    <2>1. pc[p] = "spawn" /\ At(p) = "spawn" BY <1>5 DEF spawnSend, At
    <2>2. loc[p].slot \in Sends BY <2>1 DEF LocalOK, Typed, TypeOK, LocalType, Places
    <2>3. PICK i \in Sends : i = loc[p].slot BY <2>2
    <2>4. /\ pc'[p] = "idle" /\ pc'[i] = "step" /\ pc[i] = "idle"
          /\ \A a \in Actors \ {p, i} : pc'[a] = pc[a]
          /\ s' = s /\ UNCHANGED emitVars
      BY <1>5, <2>3, SpawnEffect DEF Places, SlotInv
    <2> QED BY <1>2, <2>1, <2>4 DEF Silent, SameState, Emitting
  <1>6. CASE CancelMsgSend(p)
    BY <1>2, <1>6, CancelMsgEffect, SilentStays DEF SameSession
  <1>7. CASE StartCorrections(p) \/ StopCorrections(p)
    <2>1. /\ pc[p] = "idle" /\ SameState /\ UNCHANGED emitVars
          /\ UNCHANGED <<pc, ret, loc>> \/ \E l \in {"restart", "stopWait"} : Stops(p, l)
      BY <1>7, StartEffect, StopEffect
    <2>2. CASE UNCHANGED pc BY <1>2, <2>1, <2>2, SilentStays
    <2>3. ASSUME NEW l \in {"restart", "stopWait"}, Stops(p, l) PROVE Silent
      BY <1>2, <1>m, <1>p, <2>1, <2>3, SilentGoes DEF Stops, Emitting
    <2> QED BY <2>1, <2>2, <2>3
  <1> QED BY <1>3, <1>4, <1>5, <1>6, <1>7

LEMMA EmitManager ==
  ASSUME Typed, Places, ManagerStep
  PROVE  Silent
  <1>m. Mgr \in Actors BY Constants
  <1>0. pc[Mgr] \notin Emitting => At(Mgr) = pc[Mgr] BY DEF At, Emitting
  <1>1. ASSUME \A p \in Callers : At(p)' = At(p), loc' = loc, s'.gen = s.gen
        PROVE  Pending => Pending'
    BY <1>1 DEF Pending, Closing, Latest
  <1>p. {"probePort", "probe", "probeDone", "loop", "cfg", "endRun", "endCorr", "verdict",
         "reopen", "install", "endConn", "idle"} \subseteq PCs \ Emitting
    BY DEF PCs, ManagerPC, Emitting
  <1>2. ASSUME NEW l \in PCs \ Emitting, pc[Mgr] \notin Emitting, UNCHANGED emitVars,
               loc' = loc, s'.gen = s.gen,
               \/ GoesTo(Mgr, l) /\ SameState
               \/ EmitsThen(Mgr, l) /\ (SameState \/ s'.seq = "new")
        PROVE  Silent
    <2>1. \A p \in Callers : At(p)' = At(p)
      BY <1>2, Constants DEF GoesTo, EmitsThen, Move
    <2>2. Pending => Pending' BY <1>1, <1>2, <2>1
    <2> QED BY <1>2, <1>m, <2>2, SilentGoes
  <1>3. CASE \/ runConn \/ probePort \/ probe \/ probeDone \/ streamDied
             \/ endRun \/ endCorr \/ enterReconnect \/ managerReturn \/ endConn
    <2> DEFINE GoesOn ==
                 /\ pc[Mgr] \notin Emitting /\ UNCHANGED emitVars
                 /\ loc' = loc /\ s'.gen = s.gen
                 /\ \E l \in {"probePort", "probe", "probeDone", "loop", "endRun", "endCorr",
                              "verdict", "reopen", "idle"} :
                      \/ GoesTo(Mgr, l) /\ SameState
                      \/ EmitsThen(Mgr, l) /\ (SameState \/ s'.seq = "new")
    <2>1. GoesOn
      <3>1. CASE runConn BY <3>1, RunConnEffect DEF Emitting, SameCalls
      <3>2. CASE probePort \/ probe \/ streamDied
        BY <3>2, ProbePortEffect, ProbeEffect, StreamDiedEffect DEF Emitting, SameState
      <3>3. CASE probeDone BY <3>3, ProbeDoneEffect DEF Emitting, SameCalls
      <3>4. CASE endRun \/ endCorr BY <3>4, EndRunEffect, EndCorrEffect DEF Emitting, SameCalls
      <3>5. CASE enterReconnect \/ managerReturn
        BY <3>5, VerdictEffect DEF Emitting, SameCalls
      <3>6. CASE endConn BY <3>6, EndConnEffect DEF Emitting, SameState
      <3> QED BY <1>3, <3>1, <3>2, <3>3, <3>4, <3>5, <3>6
    <2> QED BY <1>2, <1>p, <2>1
  <1>4. CASE reopen
    <2>1. /\ pc[Mgr] = "reopen" /\ SameState /\ UNCHANGED <<s, loc, emitVars>>
          /\ \/ \E l \in {"install", "endConn"} : GoesTo(Mgr, l)
             \/ UNCHANGED <<pc, ret>>
      BY <1>4, ReopenEffect DEF SameState
    <2>2. CASE UNCHANGED <<pc, ret>>
      <3>1. \A p \in Callers : At(p)' = At(p) BY <2>2 DEF At
      <3> QED BY <1>1, <2>1, <2>2, <3>1, SilentStays
    <2>3. CASE \E l \in {"install", "endConn"} : GoesTo(Mgr, l)
      BY <1>2, <1>p, <2>1, <2>3 DEF Emitting
    <2> QED BY <2>1, <2>2, <2>3
  <1>5. ASSUME NEW p \in Callers, takeRequest(p) PROVE Silent
    <2>1. /\ pc[Mgr] = "loop" /\ pc[p] = "offer" /\ pc'[Mgr] = "cfgPort" /\ pc'[p] = "result"
          /\ At(p)' = "result" /\ s' = s /\ loc' = loc /\ UNCHANGED emitVars
          /\ \A a \in Actors \ {p, Mgr} : pc'[a] = pc[a] /\ At(a)' = At(a)
      BY <1>5, TakeRequestEffect
    <2>2. At(p) = "offer" BY <2>1 DEF At
    <2>3. \A q \in Callers : Closing(q) => (Closing(q))'
      BY <2>1, <2>2, Constants DEF Closing
    <2>4. \A q \in Callers : At(q) = "lock" /\ Latest(q) => At(q)' = "lock" /\ (Latest(q))'
      BY <2>1, <2>2, Constants DEF Latest
    <2>5. Pending => Pending' BY <2>3, <2>4 DEF Pending
    <2> QED BY <2>1, <2>5 DEF Silent, SameState, Emitting
  <1>6. ASSUME NEW l \in {"loop", "endRun"}, Answers(l), At(Mgr) \in {"cfgPort", "cfg"},
               pc[Mgr] \in {"cfgPort", "cfg"}, SameState, s'.gen = s.gen,
               UNCHANGED <<loc, emitVars>>
        PROVE  Silent
    <2>1. pc'[Mgr] = l BY <1>6 DEF Answers
    <2>2. \A p \in Callers : \/ At(p)' = At(p)
                             \/ At(p) = "result" /\ At(p)' = "endOp"
      BY <1>6, Constants DEF Answers, Places, RequestInv
    <2>3. \A q \in Callers : Closing(q) => (Closing(q))' BY <2>2 DEF Closing
    <2>4. \A q \in Callers : At(q) = "lock" /\ Latest(q) => At(q)' = "lock" /\ (Latest(q))'
      BY <1>6, <2>2 DEF Latest
    <2>5. Pending => Pending' BY <2>3, <2>4 DEF Pending
    <2>6. \A a \in Actors : /\ pc[a] \in Emitting => pc'[a] = pc[a]
                            /\ pc'[a] = "publish" => pc[a] = "publish"
      <3>1. CASE m.req = None
        <4>1. \A a \in Actors \ {Mgr} : pc'[a] = pc[a]
          BY <1>6, <3>1, ParamsAssumption DEF Answers, ParamsAssumption
        <4> QED BY <1>6, <2>1, <4>1 DEF Emitting
      <3>2. CASE m.req # None
        <4>1. m.req \in Callers BY <3>2 DEF Typed, TypeOK, ManagerType
        <4>2. At(m.req) = "result" BY <4>1 DEF Places, RequestInv
        <4>3. pc[m.req] = "result" \/ (pc[m.req] \in Emitting /\ ret[m.req] = "result")
          BY <4>2 DEF At, Emitting
        <4>4. pc[m.req] = "result"
          <5>1. pc[m.req] \in Emitting => ret[m.req] \in {"idle", "open", "request", "endOp", "spawn"}
            BY <4>1, Constants DEF Typed, Control, After
          <5> QED BY <4>3, <5>1
        <4>5. pc'[m.req] = "endOp" BY <1>6, <4>1 DEF Answers
        <4>6. \A a \in Actors \ {m.req, Mgr} : pc'[a] = pc[a] BY <1>6 DEF Answers
        <4> QED BY <1>6, <2>1, <4>4, <4>5, <4>6 DEF Emitting
      <3> QED BY <3>1, <3>2
    <2> QED BY <1>6, <2>5, <2>6 DEF Silent
  <1>7. CASE configPort
    <2>1. /\ pc[Mgr] = "cfgPort" /\ At(Mgr) = "cfgPort" /\ SameState /\ s'.gen = s.gen
          /\ UNCHANGED <<loc, emitVars>>
          /\ Answers("endRun") \/ GoesTo(Mgr, "cfg")
      BY <1>0, <1>7, ConfigPortEffect DEF Emitting, SameCalls
    <2> QED BY <1>2, <1>6, <1>p, <2>1 DEF Emitting
  <1>8. CASE configDone
    <2>1. /\ pc[Mgr] = "cfg" /\ At(Mgr) = "cfg" /\ SameState /\ s'.gen = s.gen
          /\ UNCHANGED <<loc, emitVars>> /\ Answers("loop")
      BY <1>0, <1>8, ConfigDoneEffect DEF Emitting, SameState
    <2> QED BY <1>6, <2>1
  <1> QED BY <1>3, <1>4, <1>5, <1>7, <1>8 DEF ManagerStep

LEMMA EmitOther ==
  ASSUME Typed,
         \/ \E i \in Sends : CoordStep(i) \/ WorkerStep(i)
         \/ \E k \in Corrs : CorrStep(k)
         \/ TransportLost
  PROVE  Silent
  <1>1. CallersQuiet BY QuietOther DEF Quiet
  <1>2. Pending => Pending' BY <1>1, PendingKept
  <1>p. {"step", "reply", "finish", "endOp", "idle"} \subseteq PCs \ Emitting
    BY DEF PCs, CallerPC, CoordPC, Emitting
  <1>3. ASSUME NEW i \in Sends, CoordStep(i) PROVE Silent
    <2>1. i \in Actors BY Constants
    <2>2. /\ pc[i] \notin Emitting /\ UNCHANGED emitVars
          /\ \E l \in {"step", "reply", "finish", "endOp", "idle"} :
               \/ GoesTo(i, l) /\ SameState
               \/ EmitsThen(i, l) /\ s'.seq = "new"
      <3>1. CASE endSend(i) BY <3>1, EndSendEffect DEF Ends, Emitting, SameState
      <3>2. CASE ~endSend(i) BY <1>3, <3>2, CoordEffect DEF CoordStep, Emitting, SameSession
      <3> QED BY <3>1, <3>2
    <2> QED BY <1>2, <1>p, <2>1, <2>2, SilentGoes
  <1>4. CASE \/ \E i \in Sends : WorkerStep(i)
             \/ \E k \in Corrs : CorrStep(k)
             \/ TransportLost
    <2>1. SameState /\ UNCHANGED <<pc, emitVars>>
      BY <1>4, WorkerEffect, CorrEffect, LostEffect DEF SameState
    <2> QED BY <1>2, <2>1, SilentStays
  <1> QED BY <1>3, <1>4

LEMMA EmitReserve ==
  ASSUME Typed, NEW p \in Callers, NEW c \in {"connect", "disconnect"}, reserveLifecycle(p, c)
  PROVE  Silent
  <1>1. /\ pc[p] = "idle" /\ GoesTo(p, "lock") /\ SameState /\ UNCHANGED emitVars
        /\ s'.gen = s.gen + 1 /\ loc'[p].gen = s.gen + 1 /\ At(p)' = "lock"
    BY ReserveEffect DEF GoesTo, Move
  <1>2. Pending' BY <1>1 DEF Pending, Latest, LifecyclePC
  <1>3. p \in Actors /\ "lock" \in PCs \ Emitting BY Constants DEF PCs, CallerPC, Emitting
  <1> QED BY <1>1, <1>2, <1>3, SilentGoes DEF Emitting

LEMMA EmitLifecycle ==
  ASSUME Typed, Places, ConnInv, NEW p \in Callers, LifecycleStep(p)
  PROVE  Silent
  <1>0. pc[p] \notin Emitting => At(p) = pc[p] BY DEF At, Emitting
  <1>m. p \in Actors BY Constants
  <1>p. {"closeCorr", "closeWait", "open", "handover", "idle"} \subseteq PCs \ Emitting
    BY DEF PCs, CallerPC, Emitting
  <1>1. ASSUME \A q \in Callers \ {p} : At(q)' = At(q) /\ loc'[q] = loc[q], s'.gen = s.gen
        PROVE  \A q \in Callers \ {p} :
                 /\ Closing(q) => (Closing(q))'
                 /\ At(q) = "lock" /\ Latest(q) => At(q)' = "lock" /\ (Latest(q))'
    BY <1>1 DEF Closing, Latest
  <1>2. CASE beginLifecycle(p)
    <2>1. /\ pc[p] = "lock" /\ At(p) = "lock" /\ UNCHANGED emitVars
      BY <1>0, <1>2, BeginEffect DEF Emitting
    <2>2. CASE Superseded(p) /\ GoesTo(p, "idle") /\ Others(p) /\ s' = s
      <3>1. \A q \in Callers \ {p} : At(q)' = At(q) /\ loc'[q] = loc[q]
        BY <2>2, Constants DEF GoesTo, Move, Others
      <3>2. ~Latest(p) /\ ~Closing(p) BY <2>1, <2>2 DEF Superseded, Latest, Closing
      <3>3. Pending => Pending' BY <1>1, <2>2, <3>1, <3>2 DEF Pending
      <3> QED BY <1>m, <1>p, <2>1, <2>2, <3>3, SilentGoes DEF SameState, Emitting
    <2>3. CASE ~Superseded(p)
      <3>1. s'.seq = "new" /\ \E l \in {"closeCorr", "closeWait"} : GoesTo(p, l)
        BY <1>2, <2>3, BeginEffect
      <3>2. PICK l \in {"closeCorr", "closeWait"} : GoesTo(p, l) BY <3>1
      <3>3. At(p)' = l /\ pc'[p] = l /\ \A b \in Actors \ {p} : pc'[b] = pc[b]
        BY <3>2 DEF GoesTo, Move
      <3>4. (Closing(p))' BY <3>3 DEF Closing
      <3>5. Pending' BY <3>4 DEF Pending
      <3> QED BY <2>1, <3>1, <3>3, <3>5 DEF Silent, Emitting
    <2> QED BY <1>2, <2>2, <2>3, BeginEffect
  <1>3. CASE closeCorr(p)
    <2>1. /\ pc[p] = "closeCorr" /\ GoesTo(p, "closeWait") /\ SameState /\ UNCHANGED emitVars
      BY <1>3, CloseCorrEffect
    <2>2. At(p)' = "closeWait" BY <2>1 DEF GoesTo, Move
    <2>3. (Closing(p))' BY <2>2 DEF Closing
    <2>4. Pending' BY <2>3 DEF Pending
    <2> QED BY <1>m, <1>p, <2>1, <2>4, SilentGoes DEF Emitting
  <1>4. CASE closeWait(p)
    <2>1. /\ pc[p] = "closeWait" /\ At(p) = "closeWait" /\ UNCHANGED emitVars /\ SameCalls
      BY <1>0, <1>4, CloseWaitEffect DEF Emitting
    <2>2. CASE Superseded(p) /\ GoesTo(p, "idle") /\ Others(p) /\ SameState
      <3>1. \A q \in Callers \ {p} : At(q)' = At(q) /\ loc'[q] = loc[q]
        BY <2>2, Constants DEF GoesTo, Move, Others
      <3>2. Closing(p) /\ ~Latest(p) BY <2>1, <2>2 DEF Superseded, Latest, Closing
      <3>3. PICK q \in Callers : At(q) = "lock" /\ Latest(q) BY <3>2 DEF ConnInv, CallsInv
      <3>4. q # p BY <2>1, <3>3
      <3>5. At(q)' = "lock" /\ (Latest(q))' BY <1>1, <2>1, <3>1, <3>3, <3>4 DEF SameCalls
      <3>6. Pending' BY <3>5 DEF Pending
      <3> QED BY <1>m, <1>p, <2>1, <2>2, <3>6, SilentGoes DEF Emitting
    <2>3. ASSUME NEW l \in {"open", "idle"}, EmitsThen(p, l), SameState \/ s'.seq = "new"
          PROVE  Silent
      BY <1>m, <1>p, <2>1, <2>3, SilentGoes DEF Emitting
    <2> QED BY <1>4, <2>2, <2>3, CloseWaitEffect
  <1>5. CASE Open(p) \/ handover(p)
    <2>1. /\ pc[p] \in {"open", "handover"} /\ At(p) \in {"open", "handover"}
          /\ UNCHANGED emitVars
      BY <1>0, <1>5, OpenEffect, HandoverEffect DEF Emitting
    <2>2. ~Closing(p) /\ At(p) # "lock" BY <2>1 DEF Closing
    <2>3. Others(p) /\ s'.gen = s.gen BY <1>5, OpenEffect, HandoverEffect
    <2>4. ASSUME \A q \in Callers \ {p} : At(q)' = At(q)
          PROVE  Pending => Pending'
      BY <1>1, <2>2, <2>3, <2>4 DEF Pending, Others
    <2>5. ASSUME NEW l \in {"handover", "idle"},
                 \/ GoesTo(p, l) /\ SameState
                 \/ EmitsThen(p, l) /\ s'.seq = "new"
          PROVE  Silent
      <3>1. \A q \in Callers \ {p} : At(q)' = At(q)
        BY <2>5, Constants DEF GoesTo, EmitsThen, Move
      <3> QED BY <1>m, <1>p, <2>1, <2>4, <2>5, <3>1, SilentGoes DEF Emitting
    <2>6. CASE Open(p) BY <2>5, <2>6, OpenEffect DEF SameState
    <2>7. CASE handover(p)
      <3>1. CASE /\ ~Superseded(p) /\ loc[p].run # 0
                 /\ pc'[p] = "idle" /\ pc'[Mgr] = "install"
                 /\ \A a \in Actors \ {p, Mgr} : pc'[a] = pc[a] /\ At(a)' = At(a)
                 /\ SameState
        <4>1. \A q \in Callers \ {p} : At(q)' = At(q) BY <3>1, Constants
        <4>2. pc[Mgr] = "idle"
          BY <2>1, <3>1 DEF Superseded, OnOpen, ConnInv, ManagerInv
        <4>3. Pending => Pending' BY <2>4, <4>1
        <4> QED BY <2>1, <3>1, <4>2, <4>3 DEF Silent, Emitting
      <3> QED BY <2>5, <2>7, <3>1, HandoverEffect
    <2> QED BY <1>5, <2>6, <2>7
  <1> QED BY <1>2, <1>3, <1>4, <1>5 DEF LifecycleStep

\* emitStateChange and the event loop themselves.
LEMMA EmitItself ==
  ASSUME Typed, EmitInv, NEW a \in Actors, emitStateChange(a) \/ publish(a)
  PROVE  EmitInv'
  <1>0. emitting \in Actors \cup {None} /\ a # None /\ s.seq \in {"old", "new"}
    BY Constants, ParamsAssumption DEF Typed, TypeOK, SessionType, ParamsAssumption
  <1>n. \A b \in Actors : b # None BY ParamsAssumption DEF ParamsAssumption
  <1>1. Pending => Pending'
    <2>1. CallersQuiet BY QuietOther DEF Quiet
    <2> QED BY <2>1, PendingKept
  <1>2. s'.state = s.state BY EmitEffect, PublishEffect
  <1>3. CASE /\ pc[a] = "emit"
             /\ emitting # None \/ s.seq = "old"
             /\ Returns(a) /\ s' = s /\ UNCHANGED emitVars
    <2>1. /\ pc'[a] \notin Emitting /\ \A b \in Actors \ {a} : pc'[b] = pc[b]
          /\ emitting' = emitting /\ event' = event /\ published' = published
      BY <1>3 DEF Returns, emitVars
    <2>2. \A b \in Actors : pc'[b] = "publish" <=> emitting' = b
      BY <1>3, <2>1 DEF EmitInv, Emitting
    <2>3. s'.seq = "new" => \E b \in Actors : pc'[b] \in Emitting
      <3> SUFFICES ASSUME s'.seq = "new" PROVE \E b \in Actors : pc'[b] \in Emitting OBVIOUS
      <3>1. emitting \in Actors BY <1>0, <1>3
      <3>2. pc'[emitting] = "publish" BY <2>1, <2>2, <3>1
      <3> QED BY <3>1, <3>2 DEF Emitting
    <2> QED BY <1>3, <2>1, <2>2, <2>3 DEF EmitInv
  <1>4. CASE /\ pc[a] = "emit" /\ emitting = None /\ emitting' = a /\ event'[a] = s.state
             /\ s'.seq = "old" /\ pc'[a] = "publish"
             /\ \A b \in Actors \ {a} : pc'[b] = pc[b] /\ event'[b] = event[b]
    <2>1. \A b \in Actors : pc'[b] = "publish" <=> emitting' = b
      BY <1>n, <1>4 DEF EmitInv
    <2> QED BY <1>0, <1>2, <1>4, <2>1 DEF EmitInv
  <1>5. CASE /\ pc[a] = "publish" /\ published' = event[a]
             /\ s.seq = "old" /\ Returns(a) /\ s' = s /\ emitting' = None
    <2>1. emitting = a /\ event[a] = s.state BY <1>5 DEF EmitInv
    <2>2. pc'[a] \notin Emitting /\ \A b \in Actors \ {a} : pc'[b] = pc[b]
      BY <1>5 DEF Returns
    <2>3. \A b \in Actors : pc'[b] = "publish" <=> emitting' = b
      BY <1>n, <1>5, <2>1, <2>2 DEF EmitInv, Emitting
    <2> QED BY <1>n, <1>5, <2>1, <2>3 DEF EmitInv
  <1>6. CASE /\ pc[a] = "publish" /\ s.seq = "new" /\ s'.seq = "old" /\ event'[a] = s.state
             /\ UNCHANGED <<pc, ret, emitting>>
    <2>1. emitting = a BY <1>6 DEF EmitInv
    <2>2. \A b \in Actors : pc'[b] = "publish" <=> emitting' = b BY <1>6 DEF EmitInv
    <2> QED BY <1>0, <1>2, <1>6, <2>1, <2>2 DEF EmitInv
  <1> QED BY <1>3, <1>4, <1>5, <1>6, EmitEffect, PublishEffect

LEMMA EmitStep ==
  ASSUME Typed, Places, ConnInv, EmitInv, [Next]_vars
  PROVE  EmitInv'
  <1>1. ASSUME Silent PROVE EmitInv' BY <1>1, EmitKept
  <1>2. CASE UNCHANGED vars
    <2>1. UNCHANGED <<s, pc, ret, loc, emitVars, lifecycle, last>> BY <1>2 DEF vars
    <2>2. Pending => Pending' BY <2>1 DEF Pending, Closing, Latest, At
    <2> QED BY <1>1, <2>1, <2>2, SilentStays DEF SameState
  <1>3. ASSUME NEW p \in Callers,
               \/ Call(p) \/ LifecycleStep(p) \/ ConfigStep(p)
               \/ commitSend(p) \/ spawnSend(p) \/ restart(p) \/ stopWait(p)
        PROVE  EmitInv'
    BY <1>1, <1>3, EmitQuiet, EmitReserve, EmitLifecycle DEF Call
  <1>4. CASE \/ \E i \in Sends : CoordStep(i) \/ WorkerStep(i)
             \/ \E k \in Corrs : CorrStep(k)
             \/ TransportLost
    BY <1>1, <1>4, EmitOther
  <1> QED BY <1>1, <1>2, <1>3, <1>4, EmitManager, EmitItself DEF Next

LEMMA EmitInit == Init => EmitInv
  BY ParamsAssumption DEF Init, EmitInv, Pending, Emitting, ParamsAssumption

\* "The last event consumers see always matches the final state": with nobody inside a call
\* or an operation, the state that the sink was given last is the state.
THEOREM LastEventRight == Spec => []LastEventIsState
  <1>1. Init => Typed /\ Places /\ ConnInv /\ EmitInv BY PlacesInit, ConnInit, EmitInit
  <1>2. (Typed /\ Places /\ ConnInv /\ EmitInv) /\ [Next]_vars
          => (Typed /\ Places /\ ConnInv /\ EmitInv)'
    BY PlacesStep, ConnStep, EmitStep
  <1>3. Typed /\ EmitInv => LastEventIsState
    <2> SUFFICES ASSUME Typed, EmitInv, \A a \in Callers \cup Sends : pc[a] = "idle",
                        pc[Mgr] \in {"idle", "loop"}
                 PROVE  published = s.state
      BY DEF LastEventIsState
    <2>1. \A a \in Actors : pc[a] \notin Emitting BY DEF Actors, Emitting
    <2>2. \A p \in Callers : ~Closing(p) /\ At(p) # "lock" BY DEF Closing, At
    <2>3. s.seq = "old"
      <3>1. s.seq \in {"old", "new"} BY DEF Typed, TypeOK, SessionType
      <3> QED BY <2>1, <2>2, <3>1 DEF EmitInv, Pending
    <2>4. emitting = None
      <3>1. emitting \in Actors \cup {None} BY DEF Typed, TypeOK
      <3> QED BY <2>1, <3>1 DEF EmitInv, Emitting
    <2> QED BY <2>3, <2>4 DEF EmitInv
  <1> QED BY <1>1, <1>2, <1>3, PTL DEF Spec

-----------------------------------------------------------------------------
(* Correction sessions.                                                          *)

Waiters == Callers \cup {Mgr}
\* The correction session that a goroutine has stopped and waits for.
Waits(a) == IF a = Mgr THEN m.wg ELSE loc[a].wg
Alive(k) == corr[k].pc # "off"

\* A session that is there is the current one or is waited for, by one goroutine, with its
\* context cancelled; nothing else can be started meanwhile.
CorrInv ==
  /\ s.corrCancel # None => s.corrStopping = "no"
  /\ s.corrStopping = "yes" <=> \E a \in Waiters : Waits(a) # None
  /\ \A a, b \in Waiters : Waits(a) # None /\ Waits(b) # None => a = b
  /\ \A k \in Corrs : Alive(k) => \/ k = s.corrCancel /\ s.corrState = "active"
                                  \/ corr[k].ctx = "done" /\ \E a \in Waiters : Waits(a) = k
  /\ s.corrState = "active" => \E k \in Corrs : Alive(k)

\* There is at most one.
LEMMA OneAlive ==
  ASSUME CorrInv, NEW k \in Corrs, NEW j \in Corrs, Alive(k), Alive(j)
  PROVE  k = j
  <1>1. k # None /\ j # None BY Constants
  <1>2. CASE k = s.corrCancel
    <2>1. s.corrStopping = "no" BY <1>1, <1>2 DEF CorrInv
    <2>2. ~\E a \in Waiters : Waits(a) # None BY <2>1 DEF CorrInv
    <2>3. ~\E a \in Waiters : Waits(a) = j BY <1>1, <2>2
    <2> QED BY <1>2, <2>3 DEF CorrInv
  <1>3. CASE k # s.corrCancel
    <2>1. PICK a \in Waiters : Waits(a) = k BY <1>3 DEF CorrInv
    <2>2. s.corrStopping = "yes" BY <1>1, <2>1 DEF CorrInv
    <2>3. s.corrCancel = None BY <2>2 DEF CorrInv
    <2>4. PICK b \in Waiters : Waits(b) = j BY <1>1, <2>3 DEF CorrInv
    <2> QED BY <1>1, <2>1, <2>4 DEF CorrInv
  <1> QED BY <1>2, <1>3

SameWaits == \A a \in Waiters : Waits(a)' = Waits(a)

LEMMA CorrKept ==
  ASSUME CorrInv, SameWaits, SameCorr, corr' = corr
  PROVE  CorrInv'
  <1>1. s'.corrStopping = "yes" <=> \E a \in Waiters : Waits(a)' # None
    BY DEF CorrInv, SameWaits, SameCorr
  <1>2. \A a, b \in Waiters : Waits(a)' # None /\ Waits(b)' # None => a = b
    BY DEF CorrInv, SameWaits
  <1>3. \A k \in Corrs : corr'[k].pc # "off" =>
          \/ k = s'.corrCancel /\ s'.corrState = "active"
          \/ corr'[k].ctx = "done" /\ \E a \in Waiters : Waits(a)' = k
    BY DEF CorrInv, SameWaits, SameCorr, Alive
  <1> QED BY <1>1, <1>2, <1>3 DEF CorrInv, SameCorr, Alive

\* stopCorrLocked with a session to stop: a waits for it.
LEMMA CorrStopped ==
  ASSUME CorrInv, NEW a \in Waiters, s.corrCancel # None,
         s'.corrCancel = None, s'.corrStopping = "yes", s'.corrState = s.corrState,
         Cancels(s.corrCancel), Waits(a)' = s.corrCancel,
         \A b \in Waiters \ {a} : Waits(b)' = Waits(b)
  PROVE  CorrInv'
  <1>1. s.corrStopping = "no" BY DEF CorrInv
  <1>2. \A b \in Waiters : Waits(b) = None BY <1>1 DEF CorrInv
  <1>3. \A b \in Waiters : Waits(b)' # None <=> b = a BY <1>2
  <1>4. \A k \in Corrs : corr'[k].pc # "off" =>
          corr'[k].ctx = "done" /\ \E b \in Waiters : Waits(b)' = k
    <2> SUFFICES ASSUME NEW k \in Corrs, corr'[k].pc # "off"
                 PROVE  corr'[k].ctx = "done" /\ \E b \in Waiters : Waits(b)' = k
      OBVIOUS
    <2>1. Alive(k) BY DEF Cancels, Alive
    <2>2. k # None BY Constants
    <2>3. k = s.corrCancel BY <1>2, <2>1, <2>2 DEF CorrInv
    <2> QED BY <2>3 DEF Cancels
  <1>5. s'.corrState = "active" => \E k \in Corrs : corr'[k].pc # "off"
    BY DEF CorrInv, Cancels, Alive
  <1> QED BY <1>3, <1>4, <1>5 DEF CorrInv, Alive

\* stopCorrLocked with none.
LEMMA CorrCleared ==
  ASSUME CorrInv, SameWaits, s.corrCancel = None, s'.corrCancel = None, Cancels(None),
         s'.corrStopping = s.corrStopping, s'.corrState = "stopped"
  PROVE  CorrInv'
  <1>0. \A k \in Corrs : /\ k # None
                         /\ corr'[k].pc = corr[k].pc /\ corr'[k].ctx = corr[k].ctx
    BY Constants DEF Cancels
  <1>1. s'.corrStopping = "yes" <=> \E a \in Waiters : Waits(a)' # None
    BY DEF CorrInv, SameWaits
  <1>2. \A a, b \in Waiters : Waits(a)' # None /\ Waits(b)' # None => a = b
    BY DEF CorrInv, SameWaits
  <1>3. \A k \in Corrs : corr'[k].pc # "off" =>
          corr'[k].ctx = "done" /\ \E a \in Waiters : Waits(a)' = k
    BY <1>0 DEF CorrInv, SameWaits, Alive
  <1> QED BY <1>0, <1>1, <1>2, <1>3 DEF CorrInv, Alive

\* A session starts when nobody waits and none is there.
LEMMA CorrStarts ==
  ASSUME Typed, CorrInv, \A a \in Waiters : Waits(a)' = None, \A j \in Corrs : ~Alive(j),
         s'.corrStopping = "no", NEW k \in Corrs, Starts(k)
  PROVE  CorrInv'
  <1>1. Alive(k)' /\ s'.corrCancel = k /\ s'.corrState = "active" BY DEF Starts, Alive
  <1>2. \A j \in Corrs \ {k} : corr'[j].pc = "off" BY DEF Starts, Alive
  <1> QED BY <1>1, <1>2 DEF CorrInv, Alive

\* Nobody waits: only the current session is there.
LEMMA NobodyWaits ==
  ASSUME CorrInv, s.corrStopping = "no"
  PROVE  \A a \in Waiters : Waits(a) = None
  BY DEF CorrInv

\* The wait of a is over: the session is gone, and another may be started.
LEMMA CorrOver ==
  ASSUME Typed, CorrInv, NEW a \in Waiters, Waits(a) # None, CorrDone(Waits(a)),
         Waits(a)' = None, \A b \in Waiters \ {a} : Waits(b)' = Waits(b),
         s'.corrStopping = "no",
         \/ s'.corrCancel = s.corrCancel /\ s'.corrState = s.corrState /\ corr' = corr
         \/ \E k \in Corrs : Starts(k)
  PROVE  CorrInv'
  <1>1. s.corrStopping = "yes" /\ s.corrCancel = None BY DEF CorrInv
  <1>2. \A j \in Corrs : ~Alive(j)
    <2> SUFFICES ASSUME NEW j \in Corrs, Alive(j) PROVE FALSE OBVIOUS
    <2>1. j # None BY Constants
    <2>2. PICK b \in Waiters : Waits(b) = j BY <1>1, <2>1 DEF CorrInv
    <2>3. b = a BY <2>1, <2>2 DEF CorrInv
    <2> QED BY <2>2, <2>3 DEF CorrDone, Alive
  <1>3. \A b \in Waiters : Waits(b)' = None BY DEF CorrInv
  <1>4. CASE s'.corrCancel = s.corrCancel /\ s'.corrState = s.corrState /\ corr' = corr
    <2>1. s.corrState # "active" BY <1>2 DEF CorrInv
    <2> QED BY <1>1, <1>2, <1>3, <1>4, <2>1 DEF CorrInv, Alive
  <1>5. CASE \E k \in Corrs : Starts(k) BY <1>2, <1>3, <1>5, CorrStarts
  <1> QED BY <1>4, <1>5

\* The goroutines of session k.
LEMMA CorrItself ==
  ASSUME Typed, CorrInv, NEW k \in Corrs, CorrStep(k)
  PROVE  CorrInv'
  <1>1. /\ UNCHANGED <<loc, m>> /\ CorrDoes(k)
        /\ s'.corrCancel = s.corrCancel /\ s'.corrStopping = s.corrStopping
        /\ \A j \in Corrs \ {k} : corr'[j] = corr[j]
    BY CorrEffect
  <1>2. \A a \in Waiters : Waits(a)' = Waits(a) BY <1>1 DEF Waits
  <1>3. Alive(k) BY <1>1 DEF CorrDoes, Alive
  <1>4. \A j \in Corrs \ {k} : ~Alive(j) BY <1>3, OneAlive
  <1>5. \A j \in Corrs \ {k} : corr'[j].pc = "off" BY <1>1, <1>4 DEF Alive
  <1>6. \/ k = s.corrCancel /\ s.corrState = "active"
        \/ corr[k].ctx = "done" /\ \E a \in Waiters : Waits(a) = k
    BY <1>3 DEF CorrInv
  <1>7. /\ s'.corrCancel # None => s'.corrStopping = "no"
        /\ s'.corrStopping = "yes" <=> \E a \in Waiters : Waits(a)' # None
        /\ \A a, b \in Waiters : Waits(a)' # None /\ Waits(b)' # None => a = b
    BY <1>1, <1>2 DEF CorrInv
  <1>8. CASE corr'[k].pc = "off" /\ s'.corrState \in {"stopped", "failed"}
    BY <1>5, <1>7, <1>8 DEF CorrInv, Alive
  <1>9. CASE /\ corr'[k].pc # "off" /\ corr'[k].ctx = corr[k].ctx
             /\ s'.corrState = s.corrState \/ s'.corrState = "active"
    <2>1. \/ k = s'.corrCancel /\ s'.corrState = "active"
          \/ corr'[k].ctx = "done" /\ \E a \in Waiters : Waits(a)' = k
      BY <1>1, <1>2, <1>6, <1>9
    <2> QED BY <1>5, <1>7, <1>9, <2>1 DEF CorrInv, Alive
  <1> QED BY <1>1, <1>8, <1>9 DEF CorrDoes

LEMMA SameWaitsCaller ==
  ASSUME Places, NEW p \in Callers, Others(p), m'.wg = m.wg,
         \/ loc'[p].wg = loc[p].wg
         \/ loc'[p] = IdleLocal /\ At(p) \notin {"closeCorr", "restart", "stopWait"}
  PROVE  SameWaits
  <1>1. loc'[p].wg = loc[p].wg BY IdleLocalType DEF Places, LocalOK
  <1> QED BY <1>1, Constants DEF SameWaits, Waits, Others, Waiters

LEMMA CorrCaller ==
  ASSUME Typed, Places, CorrInv, NEW p \in Callers,
         \/ Call(p) \/ ConfigStep(p) \/ commitSend(p) \/ spawnSend(p)
         \/ restart(p) \/ stopWait(p)
  PROVE  CorrInv'
  <1>0. pc[p] \notin Emitting => At(p) = pc[p] BY DEF At, Emitting
  <1>w. p \in Waiters /\ p # Mgr BY Constants DEF Waiters
  <1>1. ASSUME NEW c \in {"connect", "disconnect"}, reserveLifecycle(p, c) PROVE CorrInv'
    <2>1. SameCorr /\ corr' = corr /\ m' = m /\ Others(p) /\ loc'[p].wg = loc[p].wg
      BY <1>1, ReserveEffect
    <2> QED BY <2>1, SameWaitsCaller, CorrKept
  <1>2. ASSUME NEW c \in {"config", "reset", "noop"}, beginConfig(p, c) PROVE CorrInv'
    <2>1. SameCorr /\ corr' = corr /\ m' = m /\ Others(p) /\ loc'[p].wg = loc[p].wg
      BY <1>2, BeginConfigEffect
    <2> QED BY <2>1, SameWaitsCaller, CorrKept
  <1>3. ASSUME NEW i \in Sends, beginSend(p, i) PROVE CorrInv'
    <2>1. SameCorr /\ corr' = corr /\ m' = m /\ Others(p) /\ loc'[p].wg = loc[p].wg
      BY <1>3, BeginSendEffect DEF SameSession
    <2> QED BY <2>1, SameWaitsCaller, CorrKept
  <1>4. CASE CancelMsgSend(p)
    <2>1. SameCorr /\ corr' = corr /\ m' = m /\ loc' = loc
      BY <1>4, CancelMsgEffect DEF SameSession
    <2> QED BY <2>1, SameWaitsCaller, CorrKept DEF Others
  <1>5. ASSUME NEW l \in {"restart", "stopWait"}, Stops(p, l), m' = m PROVE CorrInv'
    <2>1. /\ Waits(p)' = s.corrCancel
          /\ \A b \in Waiters \ {p} : Waits(b)' = Waits(b)
      BY <1>5, <1>w DEF Stops, Others, Waits, Waiters
    <2> QED BY <1>5, <1>w, <2>1, CorrStopped DEF Stops
  <1>6. CASE StartCorrections(p)
    <2>1. CASE /\ s.corrCancel = None /\ s'.corrStopping = "no" /\ s.corrStopping = "no"
               /\ \E k \in Corrs : Starts(k)
               /\ loc' = loc /\ m' = m
      <3>1. \A a \in Waiters : Waits(a)' = None BY <2>1, NobodyWaits DEF Waits
      <3>2. \A j \in Corrs : ~Alive(j)
        <4>1. \A a \in Waiters : Waits(a) = None BY <2>1, NobodyWaits
        <4> QED BY <2>1, <4>1, Constants DEF CorrInv
      <3> QED BY <2>1, <3>1, <3>2, CorrStarts
    <2> QED BY <1>5, <1>6, <2>1, StartEffect
  <1>7. CASE StopCorrections(p)
    <2>1. CASE /\ s.corrCancel = None /\ s'.corrCancel = None /\ s'.corrStopping = "no"
               /\ s'.corrState = "stopped" /\ UNCHANGED <<loc, m, corr>> /\ s.corrStopping = "no"
      <3>1. SameWaits BY <2>1 DEF SameWaits, Waits
      <3>2. Cancels(None) BY <2>1, Constants DEF Cancels
      <3> QED BY <2>1, <3>1, <3>2, CorrCleared
    <2> QED BY <1>5, <1>7, <2>1, StopEffect
  <1>8. CASE sendConfigRequest(p) \/ giveUpRequest(p)
    <2>1. SameCorr /\ corr' = corr /\ m'.wg = m.wg /\ Others(p) /\ loc'[p].wg = loc[p].wg
      BY <1>8, SendRequestEffect, GiveUpEffect DEF SameCorr, Others
    <2> QED BY <2>1, SameWaitsCaller, CorrKept
  <1>9. CASE endConfig(p)
    <2>1. /\ SameCorr /\ corr' = corr /\ m' = m /\ Others(p) /\ loc'[p] = IdleLocal
          /\ At(p) = "endOp"
      BY <1>0, <1>9, EndConfigEffect DEF Ends, SameCorr, Emitting
    <2> QED BY <2>1, SameWaitsCaller, CorrKept
  <1>10. CASE commitSend(p) \/ spawnSend(p)
    <2>1. At(p) \in {"gap", "spawn"} BY <1>10 DEF commitSend, spawnSend, At
    <2>2. loc[p].slot \in Sends BY <2>1 DEF LocalOK, Typed, TypeOK, LocalType, Places
    <2>3. PICK i \in Sends : i = loc[p].slot BY <2>2
    <2>4. /\ SameCorr /\ corr' = corr /\ m' = m /\ Others(p)
          /\ loc'[p] = IdleLocal \/ loc'[p].wg = loc[p].wg
      BY <1>10, <2>3, CommitEffect, SpawnEffect DEF Others, SameCorr
    <2> QED BY <2>1, <2>4, SameWaitsCaller, CorrKept
  <1>11. CASE restart(p) \/ stopWait(p)
    <2>1. /\ At(p) \in {"restart", "stopWait"} /\ CorrDone(loc[p].wg)
          /\ loc'[p] = IdleLocal /\ Others(p) /\ m' = m /\ s'.corrStopping = "no"
          /\ \/ \E k \in Corrs : Starts(k)
             \/ s'.corrCancel = s.corrCancel /\ s'.corrState = s.corrState /\ corr' = corr
      BY <1>0, <1>11, AfterStopEffect DEF Emitting
    <2>2. Waits(p) = loc[p].wg /\ Waits(p) # None /\ Waits(p)' = None
      BY <1>w, <2>1, IdleLocalType DEF Waits, Places, LocalOK
    <2>3. \A b \in Waiters \ {p} : Waits(b)' = Waits(b)
      BY <2>1 DEF Waits, Others, Waiters
    <2> QED BY <1>w, <2>1, <2>2, <2>3, CorrOver
  <1> QED
    BY <1>1, <1>2, <1>3, <1>4, <1>6, <1>7, <1>8, <1>9, <1>10, <1>11 DEF Call, ConfigStep

LEMMA CorrLifecycle ==
  ASSUME Typed, Places, ConnInv, CorrInv, NEW p \in Callers, LifecycleStep(p)
  PROVE  CorrInv'
  <1>0. pc[p] \notin Emitting => At(p) = pc[p] BY DEF At, Emitting
  <1>w. p \in Waiters /\ p # Mgr BY Constants DEF Waiters
  <1>1. CASE beginLifecycle(p)
    <2>1. At(p) = "lock" /\ m' = m BY <1>0, <1>1, BeginEffect DEF Emitting
    <2>2. CASE loc'[p] = IdleLocal /\ Others(p) /\ UNCHANGED <<s, corr>>
      BY <2>1, <2>2, SameWaitsCaller, CorrKept DEF SameCorr
    <2>3. CASE /\ s'.corrCancel = None /\ Cancels(s.corrCancel)
               /\ s.corrCancel # None /\ s'.corrStopping = "yes"
               /\ s'.corrState = s.corrState /\ loc'[p].wg = s.corrCancel /\ Others(p)
      <3>1. /\ Waits(p)' = s.corrCancel
            /\ \A b \in Waiters \ {p} : Waits(b)' = Waits(b)
        BY <1>w, <2>1, <2>3 DEF Others, Waits, Waiters
      <3> QED BY <1>w, <2>3, <3>1, CorrStopped
    <2>4. CASE /\ s'.corrCancel = None /\ Cancels(s.corrCancel)
               /\ s.corrCancel = None /\ s'.corrStopping = s.corrStopping
               /\ s'.corrState = "stopped" /\ UNCHANGED loc
      <3>1. SameWaits BY <2>1, <2>4 DEF SameWaits, Waits
      <3>2. Cancels(None) BY <2>4
      <3> QED BY <2>4, <3>1, <3>2, CorrCleared
    <2> QED BY <1>1, <2>2, <2>3, <2>4, BeginEffect
  <1>2. CASE closeCorr(p)
    <2>1. /\ At(p) = "closeCorr" /\ CorrDone(loc[p].wg) /\ m' = m /\ corr' = corr /\ Others(p)
          /\ s'.corrCancel = s.corrCancel /\ s'.corrState = s.corrState
          /\ s'.corrStopping = "no" /\ loc'[p].wg = None
      BY <1>0, <1>2, CloseCorrEffect DEF Emitting
    <2>2. Waits(p) = loc[p].wg /\ Waits(p) # None /\ Waits(p)' = None
      BY <1>w, <2>1 DEF Waits, Places, LocalOK
    <2>3. \A b \in Waiters \ {p} : Waits(b)' = Waits(b)
      BY <2>1 DEF Waits, Others, Waiters
    <2> QED BY <1>w, <2>1, <2>2, <2>3, CorrOver
  <1>3. CASE closeWait(p)
    <2>1. /\ At(p) = "closeWait" /\ SameCorr /\ corr' = corr /\ m' = m
          /\ \/ loc'[p] = IdleLocal /\ Others(p)
             \/ loc' = loc
      BY <1>0, <1>3, CloseWaitEffect DEF Emitting
    <2> QED BY <2>1, SameWaitsCaller, CorrKept DEF Others
  <1>4. CASE Open(p)
    <2>1. SameCorr /\ corr' = corr /\ m' = m /\ Others(p) /\ loc'[p].wg = loc[p].wg
      BY <1>4, OpenEffect DEF SameCorr
    <2> QED BY <2>1, SameWaitsCaller, CorrKept
  <1>5. CASE handover(p)
    <2>1. /\ At(p) = "handover" /\ SameCorr /\ corr' = corr /\ loc'[p] = IdleLocal /\ Others(p)
          /\ m' = m \/ (~Superseded(p) /\ m'.wg = None)
      BY <1>0, <1>5, HandoverEffect DEF Emitting
    <2>2. m'.wg = m.wg
      <3> SUFFICES ASSUME ~Superseded(p), m'.wg = None PROVE m.wg = None BY <2>1
      <3>1. OnOpen(p) BY <2>1 DEF OnOpen, Superseded
      <3>2. At(Mgr) = "idle" BY <3>1 DEF ConnInv, ManagerInv, At
      <3> QED BY <3>2 DEF Places, ManagerLocal
    <2> QED BY <2>1, <2>2, SameWaitsCaller, CorrKept
  <1> QED BY <1>1, <1>2, <1>3, <1>4, <1>5 DEF LifecycleStep

LEMMA CorrManager ==
  ASSUME Typed, Places, CorrInv, ManagerStep
  PROVE  CorrInv'
  <1>m. Mgr \in Waiters BY DEF Waiters
  <1>0. pc[Mgr] \notin Emitting => At(Mgr) = pc[Mgr] BY DEF At, Emitting
  <1>1. ASSUME loc' = loc, m'.wg = m.wg PROVE SameWaits
    BY <1>1 DEF SameWaits, Waits
  <1>2. ASSUME loc' = loc PROVE \A b \in Waiters \ {Mgr} : Waits(b)' = Waits(b)
    BY <1>2 DEF Waits
  <1>3. CASE endRun
    <2>1. /\ pc[Mgr] = "endRun" /\ loc' = loc /\ s'.corrCancel = None /\ Cancels(s.corrCancel)
          /\ \/ /\ s.corrCancel = None /\ m' = m
                /\ s'.corrStopping = s.corrStopping /\ s'.corrState = "stopped"
             \/ /\ s.corrCancel # None /\ m'.wg = s.corrCancel
                /\ s'.corrStopping = "yes" /\ s'.corrState = s.corrState
      BY <1>3, EndRunEffect
    <2>2. CASE s.corrCancel = None BY <1>1, <2>1, <2>2, CorrCleared
    <2>3. CASE s.corrCancel # None
      <3>1. Waits(Mgr)' = s.corrCancel BY <2>1, <2>3 DEF Waits
      <3> QED BY <1>m, <1>2, <2>1, <2>3, <3>1, CorrStopped
    <2> QED BY <2>2, <2>3
  <1>4. CASE endCorr
    <2>1. /\ At(Mgr) = "endCorr" /\ CorrDone(m.wg) /\ loc' = loc /\ corr' = corr
          /\ s'.corrCancel = s.corrCancel /\ s'.corrState = s.corrState
          /\ s'.corrStopping = "no" /\ m'.wg = None
      BY <1>0, <1>4, EndCorrEffect DEF Emitting
    <2>2. Waits(Mgr) = m.wg /\ Waits(Mgr) # None /\ Waits(Mgr)' = None
      BY <2>1 DEF Waits, Places, ManagerLocal
    <2> QED BY <1>m, <1>2, <2>1, <2>2, CorrOver
  <1>5. CASE enterReconnect \/ managerReturn \/ endConn
    <2>1. /\ At(Mgr) \in {"verdict", "endConn"} /\ m'.wg = None
          /\ loc' = loc /\ corr' = corr /\ SameCorr
      BY <1>0, <1>5, VerdictEffect, EndConnEffect DEF Emitting, IdleManager
    <2>2. m.wg = None BY <2>1 DEF Places, ManagerLocal
    <2> QED BY <1>1, <2>1, <2>2, CorrKept
  <1>6. CASE runConn \/ probePort \/ probe \/ probeDone \/ streamDied
    <2>1. loc' = loc /\ m'.wg = m.wg /\ corr' = corr /\ SameCorr
      BY <1>6, RunConnEffect, ProbePortEffect, ProbeEffect, ProbeDoneEffect, StreamDiedEffect
      DEF SameJobs, SameCorr
    <2> QED BY <1>1, <2>1, CorrKept
  <1>7. CASE configPort \/ configDone \/ reopen \/ \E p \in Callers : takeRequest(p)
    <2>1. loc' = loc /\ m'.wg = m.wg /\ corr' = corr /\ SameCorr
      BY <1>7, ConfigPortEffect, ConfigDoneEffect, ReopenEffect, TakeRequestEffect DEF SameCorr
    <2> QED BY <1>1, <2>1, CorrKept
  <1> QED BY <1>3, <1>4, <1>5, <1>6, <1>7 DEF ManagerStep

\* Sends, events and the loss of the transport.
LEMMA CorrOther ==
  ASSUME Typed, CorrInv,
         \/ \E i \in Sends : CoordStep(i) \/ WorkerStep(i)
         \/ \E a \in Actors : emitStateChange(a) \/ publish(a)
         \/ TransportLost \/ UNCHANGED vars
  PROVE  CorrInv'
  <1>1. loc' = loc /\ m' = m /\ corr' = corr /\ SameCorr
    <2>1. ASSUME NEW i \in Sends, endSend(i) PROVE loc' = loc /\ m' = m /\ corr' = corr /\ SameCorr
      BY <2>1, EndSendEffect DEF Ends, SameCorr
    <2>2. ASSUME NEW i \in Sends, CoordStep(i), ~endSend(i)
          PROVE  loc' = loc /\ m' = m /\ corr' = corr /\ SameCorr
      BY <2>2, CoordEffect DEF CoordStep, SameSession
    <2>3. ASSUME NEW i \in Sends, WorkerStep(i)
          PROVE  loc' = loc /\ m' = m /\ corr' = corr /\ SameCorr
      BY <2>3, WorkerEffect DEF SameCorr
    <2>4. ASSUME NEW a \in Actors, emitStateChange(a) \/ publish(a)
          PROVE  loc' = loc /\ m' = m /\ corr' = corr /\ SameCorr
      BY <2>4, EmitEffect, PublishEffect
    <2>5. CASE TransportLost BY <2>5, LostEffect DEF SameCorr
    <2>6. CASE UNCHANGED vars BY <2>6 DEF vars, SameCorr
    <2> QED BY <2>1, <2>2, <2>3, <2>4, <2>5, <2>6
  <1>2. SameWaits BY <1>1 DEF SameWaits, Waits
  <1> QED BY <1>1, <1>2, CorrKept

LEMMA CorrInvStep ==
  ASSUME Typed, Places, ConnInv, CorrInv, [Next]_vars
  PROVE  CorrInv'
  <1>1. CASE \/ \E i \in Sends : CoordStep(i) \/ WorkerStep(i)
             \/ \E a \in Actors : emitStateChange(a) \/ publish(a)
             \/ TransportLost \/ UNCHANGED vars
    BY <1>1, CorrOther
  <1>2. ASSUME NEW p \in Callers,
               \/ Call(p) \/ LifecycleStep(p) \/ ConfigStep(p)
               \/ commitSend(p) \/ spawnSend(p) \/ restart(p) \/ stopWait(p)
        PROVE  CorrInv'
    BY <1>2, CorrCaller, CorrLifecycle
  <1> QED BY <1>1, <1>2, CorrManager, CorrItself DEF Next

LEMMA CorrInit == Init => CorrInv
  <1> SUFFICES ASSUME Init PROVE CorrInv OBVIOUS
  <1>1. /\ s.corrCancel = None /\ s.corrStopping = "no" /\ s.corrState = "stopped"
        /\ \A a \in Waiters : Waits(a) = None
        /\ \A k \in Corrs : ~Alive(k)
    BY Constants DEF Init, Waiters, Waits, Alive, IdleLocal, IdleManager, IdleCorr
  <1> QED BY <1>1 DEF CorrInv

\* "At most one correction session exists at a time", on the transport that is current unless
\* it is being stopped, and the corrections state that is shown is true of it: although
\* stopping, replacing and the end of the run let go of mu while they wait for the session.
THEOREM CorrectionsRight == Spec => []CorrectionsExclusive
  <1>1. Init => Typed /\ Places /\ ConnInv /\ CorrInv BY PlacesInit, ConnInit, CorrInit
  <1>2. (Typed /\ Places /\ ConnInv /\ CorrInv) /\ [Next]_vars
          => (Typed /\ Places /\ ConnInv /\ CorrInv)'
    BY PlacesStep, ConnStep, CorrInvStep
  <1>3. Typed /\ ConnInv /\ CorrInv => CorrectionsExclusive
    <2> SUFFICES ASSUME Typed, ConnInv, CorrInv PROVE CorrectionsExclusive OBVIOUS
    <2>1. ASSUME NEW k \in Corrs, Alive(k), ~CorrCancelled(k)
          PROVE  s.corrCancel = k /\ s.corrState = "active" /\ corr[k].run = s.conn
      <3>1. corr[k].ctx # "done" /\ ~RunDone(corr[k].run) BY <2>1 DEF CorrCancelled
      <3>2. k = s.corrCancel /\ s.corrState = "active" BY <2>1, <3>1 DEF CorrInv
      <3>3. corr[k].run = s.run /\ s.runCtx # "done" BY <3>1 DEF RunDone
      <3>4. s.runCtx = "live" BY <3>3 DEF Typed, TypeOK, SessionType
      <3> QED BY <3>2, <3>3, <3>4 DEF ConnInv, RunInv
    <2>2. OneCorrection BY <2>1, OneAlive DEF OneCorrection, Alive
    <2>3. CorrStateTrue BY <2>1 DEF CorrStateTrue, CorrInv, Alive
    <2> QED BY <2>2, <2>3 DEF CorrectionsExclusive
  <1> QED BY <1>1, <1>2, <1>3, PTL DEF Spec

-----------------------------------------------------------------------------
(* The port of a run.                                                            *)

\* x has the port of run r, and will give it back.
Held(r, x) ==
  \/ x = Mgr /\ pc[Mgr] \in {"probe", "cfg"} /\ s.run = r
  \/ \E i \in Sends : x = i /\ snd[i].worker \in {"loop", "wait"} /\ snd[i].run = r
  \/ \E k \in Corrs : x = k /\ corr[k].pc = "write" /\ corr[k].run = r

\* Whoever has a port goes on having it.
MgrHolds   == pc[Mgr] \in {"probe", "cfg"} => pc'[Mgr] = pc[Mgr] /\ s'.run = s.run
SendsHold  == \A i \in Sends : snd[i].worker \in {"loop", "wait"} =>
                 snd'[i].worker \in {"loop", "wait"} /\ snd'[i].run = snd[i].run
CorrsHold  == \A k \in Corrs : corr[k].pc = "write" =>
                 corr'[k].pc = "write" /\ corr'[k].run = corr[k].run

LEMMA PortHeld ==
  /\ PortHeldByLiving <=> \A r \in Runs : \A x : port[r] = x /\ x # None => Held(r, x)
  /\ PortHeldByLiving' <=> \A r \in Runs : \A x : port'[r] = x /\ x # None => Held(r, x)'
  BY DEF PortHeldByLiving, Held

LEMMA PortKept ==
  ASSUME PortHeldByLiving, MgrHolds, SendsHold, CorrsHold, port' = port
  PROVE  PortHeldByLiving'
  <1>1. \A r \in Runs : \A x : Held(r, x) => Held(r, x)'
    BY DEF Held, MgrHolds, SendsHold, CorrsHold
  <1> QED BY <1>1, PortHeld

\* Somebody takes a port that is free, or a port is given back: nobody else's changes hands.
LEMMA PortTaken ==
  ASSUME PortHeldByLiving, NEW q, NEW y, port' = [port EXCEPT ![q] = y],
         port \in [Runs -> {Mgr, None} \cup Sends \cup Corrs],
         y = None \/ Held(q, y)',
         \A r \in Runs \ {q} : \A x : Held(r, x) => Held(r, x)'
  PROVE  PortHeldByLiving'
  <1>1. \A r \in Runs \ {q} : port'[r] = port[r] OBVIOUS
  <1>2. q \in Runs => port'[q] = y OBVIOUS
  <1>3. \A r \in Runs : \A x : port'[r] = x /\ x # None => Held(r, x)'
    <2> SUFFICES ASSUME NEW r \in Runs, NEW x, port'[r] = x, x # None PROVE Held(r, x)'
      OBVIOUS
    <2>1. CASE r = q BY <1>2, <2>1
    <2>2. CASE r # q BY <1>1, <2>2, PortHeld
    <2> QED BY <2>1, <2>2
  <1> QED BY <1>3, PortHeld

LEMMA PortCaller ==
  ASSUME Typed, Places, ConnInv, PortHeldByLiving, NEW p \in Callers,
         \/ Call(p) \/ LifecycleStep(p) \/ ConfigStep(p)
         \/ commitSend(p) \/ spawnSend(p) \/ restart(p) \/ stopWait(p)
  PROVE  PortHeldByLiving'
  <1>0. pc[p] \notin Emitting => At(p) = pc[p] BY DEF At, Emitting
  <1>m. p # Mgr BY Constants
  <1>d. ASSUME SameSends PROVE SendsHold BY <1>d DEF SameSends, SendsHold
  <1>c. ASSUME corr' = corr \/ \E k : Cancels(k) PROVE CorrsHold
    BY <1>c DEF Cancels, CorrsHold
  <1>k. ASSUME NEW k \in Corrs, Starts(k) PROVE CorrsHold
    BY <1>k DEF Starts, CorrDone, CorrsHold
  <1>1. ASSUME NEW c \in {"connect", "disconnect"}, reserveLifecycle(p, c)
        PROVE  PortHeldByLiving'
    <2>1. /\ pc'[Mgr] = pc[Mgr] /\ s'.run = s.run /\ snd' = snd /\ corr' = corr /\ port' = port
      BY <1>m, <1>1, ReserveEffect, Constants DEF GoesTo, SameRun
    <2> QED BY <2>1, PortKept DEF MgrHolds, SendsHold, CorrsHold
  <1>2. ASSUME NEW c \in {"config", "reset", "noop"}, beginConfig(p, c)
        PROVE  PortHeldByLiving'
    <2>1. /\ pc'[Mgr] = pc[Mgr] /\ s'.run = s.run /\ SameSends /\ corr' = corr /\ port' = port
      BY <1>m, <1>2, BeginConfigEffect, Constants DEF EmitsThen, SameRun
    <2> QED BY <1>d, <1>c, <2>1, PortKept DEF MgrHolds
  <1>3. ASSUME NEW i \in Sends, beginSend(p, i) PROVE PortHeldByLiving'
    <2>1. /\ pc'[Mgr] = pc[Mgr] /\ s'.run = s.run /\ corr' = corr /\ port' = port
          /\ snd[i].worker = "off"
          /\ \A j \in Sends \ {i} : snd'[j].run = snd[j].run /\ snd'[j].worker = snd[j].worker
      BY <1>m, <1>3, BeginSendEffect, Constants DEF GoesTo, SameSession, SameRun, FreeSend
    <2> QED BY <1>c, <2>1, PortKept DEF MgrHolds, SendsHold
  <1>4. CASE CancelMsgSend(p)
    <2>1. /\ pc' = pc /\ s'.run = s.run /\ SameSends /\ corr' = corr /\ port' = port
      BY <1>4, CancelMsgEffect DEF SameSession, SameRun
    <2> QED BY <1>d, <1>c, <2>1, PortKept DEF MgrHolds
  <1>5. CASE StartCorrections(p) \/ StopCorrections(p) \/ restart(p) \/ stopWait(p)
    <2>1. /\ pc'[Mgr] = pc[Mgr] /\ s'.run = s.run /\ snd' = snd /\ port' = port
          /\ \/ corr' = corr
             \/ \E k \in Corrs : Starts(k)
             \/ \E k : Cancels(k)
      <3>1. CASE StartCorrections(p) \/ StopCorrections(p)
        BY <1>m, <1>5, <3>1, StartEffect, StopEffect, Constants DEF Stops, GoesTo, SameRun
      <3>2. CASE restart(p) \/ stopWait(p)
        BY <1>m, <1>5, <3>2, AfterStopEffect, Constants DEF GoesTo, SameRun
      <3> QED BY <1>5, <3>1, <3>2
    <2> QED BY <1>c, <1>k, <2>1, PortKept DEF MgrHolds, SendsHold
  <1>6. CASE ConfigStep(p)
    <2>1. /\ pc'[Mgr] = pc[Mgr] /\ s'.run = s.run /\ snd' = snd /\ corr' = corr /\ port' = port
      <3>1. CASE sendConfigRequest(p) \/ giveUpRequest(p)
        BY <1>m, <3>1, SendRequestEffect, GiveUpEffect, Constants DEF GoesTo
      <3>2. CASE endConfig(p)
        BY <1>m, <3>2, EndConfigEffect, Constants DEF Ends, GoesTo, EmitsThen, SameRun
      <3> QED BY <1>6, <3>1, <3>2 DEF ConfigStep
    <2> QED BY <2>1, PortKept DEF MgrHolds, SendsHold, CorrsHold
  <1>7. CASE commitSend(p)
    <2>1. At(p) = "gap" BY <1>7 DEF commitSend, At
    <2>2. loc[p].slot \in Sends BY <2>1 DEF LocalOK, Typed, TypeOK, LocalType, Places
    <2>3. /\ pc'[Mgr] = pc[Mgr] /\ s'.run = s.run /\ snd' = snd /\ corr' = corr /\ port' = port
      BY <1>m, <1>7, <2>2, CommitEffect, Constants DEF GoesTo, EmitsThen, SameRun
    <2> QED BY <2>3, PortKept DEF MgrHolds, SendsHold, CorrsHold
  <1>8. CASE spawnSend(p)
    <2>1. At(p) = "spawn" BY <1>8 DEF spawnSend, At
    <2>2. loc[p].slot \in Sends BY <2>1 DEF LocalOK, Typed, TypeOK, LocalType, Places
    <2>3. PICK i \in Sends : i = loc[p].slot BY <2>2
    <2>4. /\ pc'[Mgr] = pc[Mgr] /\ s' = s /\ corr' = corr /\ port' = port
          /\ \A j \in Sends \ {i} : snd'[j].run = snd[j].run /\ snd'[j].worker = snd[j].worker
      BY <1>m, <1>8, <2>3, SpawnEffect, Constants
    <2>5. snd[i].worker = "off" BY <2>3 DEF Places, SlotInv
    <2> QED BY <2>4, <2>5, PortKept DEF MgrHolds, SendsHold, CorrsHold
  <1>9. CASE LifecycleStep(p)
    <2>1. CASE beginLifecycle(p)
      <3>1. /\ pc'[Mgr] = pc[Mgr] /\ s'.run = s.run /\ port' = port
            /\ SameSends \/ snd' = snd
            /\ corr' = corr \/ Cancels(s.corrCancel)
        BY <1>m, <2>1, BeginEffect, Constants DEF GoesTo, SameRun
      <3> QED BY <1>d, <1>c, <3>1, PortKept DEF MgrHolds, SendsHold
    <2>2. CASE closeCorr(p) \/ closeWait(p) \/ Open(p)
      <3>1. /\ pc'[Mgr] = pc[Mgr] /\ s'.run = s.run /\ snd' = snd /\ corr' = corr /\ port' = port
        BY <1>m, <2>2, CloseCorrEffect, CloseWaitEffect, OpenEffect, Constants
        DEF GoesTo, EmitsThen, SameRun
      <3> QED BY <3>1, PortKept DEF MgrHolds, SendsHold, CorrsHold
    <2>3. CASE handover(p)
      <3>1. /\ pc[p] = "handover" /\ s'.run = s.run /\ snd' = snd /\ corr' = corr /\ port' = port
            /\ pc'[Mgr] = pc[Mgr] \/ ~Superseded(p)
        BY <1>m, <2>3, HandoverEffect, Constants DEF GoesTo, EmitsThen, SameRun
      <3>2. ~Superseded(p) => pc[Mgr] = "idle"
        BY <1>0, <3>1 DEF Superseded, OnOpen, ConnInv, ManagerInv, Emitting
      <3> QED BY <3>1, <3>2, PortKept DEF MgrHolds, SendsHold, CorrsHold
    <2> QED BY <1>9, <2>1, <2>2, <2>3 DEF LifecycleStep
  <1> QED BY <1>1, <1>2, <1>3, <1>4, <1>5, <1>6, <1>7, <1>8, <1>9 DEF Call

LEMMA PortManager ==
  ASSUME Typed, Places, PortHeldByLiving, ManagerStep
  PROVE  PortHeldByLiving'
  <1>t. port \in [Runs -> {Mgr, None} \cup Sends \cup Corrs] BY DEF Typed, TypeOK
  <1>1. ASSUME SameSends, corr' = corr \/ \E k : Cancels(k) PROVE SendsHold /\ CorrsHold
    BY <1>1 DEF SameSends, SendsHold, Cancels, CorrsHold
  <1>2. ASSUME \/ port' = [port EXCEPT ![s.run] = Mgr] /\ pc'[Mgr] \in {"probe", "cfg"}
               \/ port' = [port EXCEPT ![s.run] = None],
               snd' = snd, corr' = corr, s'.run = s.run
        PROVE  PortHeldByLiving'
    <2>1. \A r \in Runs \ {s.run} : \A x : Held(r, x) => Held(r, x)'
      BY <1>2 DEF Held
    <2>3. CASE port' = [port EXCEPT ![s.run] = Mgr] /\ pc'[Mgr] \in {"probe", "cfg"}
      <3>1. PICK r : r = s.run OBVIOUS
      <3>2. Held(r, Mgr)' BY <1>2, <2>3, <3>1 DEF Held
      <3> QED BY <1>t, <2>1, <2>3, <3>1, <3>2, PortTaken
    <2>4. CASE port' = [port EXCEPT ![s.run] = None]
      <3>1. PICK r : r = s.run OBVIOUS
      <3> QED BY <1>t, <2>1, <2>4, <3>1, PortTaken
    <2> QED BY <1>2, <2>3, <2>4
  <1>3. CASE probePort
    <2>1. CASE port' = port /\ pc[Mgr] = "probePort" /\ snd' = snd /\ corr' = corr
      BY <2>1, PortKept DEF MgrHolds, SendsHold, CorrsHold
    <2> QED BY <1>2, <1>3, <2>1, ProbePortEffect DEF GoesTo
  <1>4. CASE probe \/ configDone
    BY <1>2, <1>4, ProbeEffect, ConfigDoneEffect
  <1>5. CASE configPort
    <2>1. CASE port' = port /\ pc[Mgr] = "cfgPort" /\ snd' = snd /\ corr' = corr
      BY <2>1, PortKept DEF MgrHolds, SendsHold, CorrsHold
    <2> QED BY <1>2, <1>5, <2>1, ConfigPortEffect DEF GoesTo, SameRun
  <1>6. CASE \/ runConn \/ probeDone \/ streamDied \/ endRun \/ endCorr \/ enterReconnect
             \/ reopen \/ endConn \/ managerReturn \/ \E p \in Callers : takeRequest(p)
    <2>1. /\ pc[Mgr] \notin {"probe", "cfg"} /\ port' = port
          /\ snd' = snd \/ SameSends
          /\ corr' = corr \/ Cancels(s.corrCancel)
      BY <1>6, RunConnEffect, ProbeDoneEffect, StreamDiedEffect, EndRunEffect, EndCorrEffect,
         VerdictEffect, ReopenEffect, EndConnEffect, TakeRequestEffect
    <2> QED BY <2>1, PortKept DEF MgrHolds, SendsHold, SameSends, CorrsHold, Cancels
  <1> QED BY <1>3, <1>4, <1>5, <1>6 DEF ManagerStep

LEMMA PortOther ==
  ASSUME Typed, PortHeldByLiving,
         \/ \E i \in Sends : CoordStep(i) \/ WorkerStep(i)
         \/ \E k \in Corrs : CorrStep(k)
         \/ \E a \in Actors : emitStateChange(a) \/ publish(a)
         \/ TransportLost \/ UNCHANGED vars
  PROVE  PortHeldByLiving'
  <1>t. port \in [Runs -> {Mgr, None} \cup Sends \cup Corrs] BY DEF Typed, TypeOK
  <1>1. ASSUME NEW i \in Sends, WorkerStep(i) PROVE PortHeldByLiving'
    <2>1. /\ UNCHANGED <<s, pc, corr>> /\ Works(i)
          /\ \A j \in Sends : snd'[j].run = snd[j].run
          /\ \A j \in Sends \ {i} : snd'[j] = snd[j]
      BY <1>1, WorkerEffect
    <2>2. CASE port' = port
      <3>1. CASE snd'[i].worker = snd[i].worker \/ snd[i].worker \notin {"loop", "wait"}
                 \/ snd'[i].worker \in {"loop", "wait"}
        BY <2>1, <2>2, <3>1, PortKept DEF MgrHolds, SendsHold, CorrsHold
      <3>2. CASE snd[i].worker = "loop" /\ snd'[i].worker = "off"
                 /\ port' = [port EXCEPT ![snd[i].run] = None]
        <4>1. PICK q : q = snd[i].run OBVIOUS
        <4>2. \A r \in Runs \ {q} : \A x : Held(r, x) => Held(r, x)'
          BY <2>1, <4>1 DEF Held
        <4> QED BY <1>t, <3>2, <4>1, <4>2, PortTaken
      <3> QED BY <2>1, <3>1, <3>2 DEF Works
    <2>3. CASE \/ port' = [port EXCEPT ![snd[i].run] = i] /\ snd'[i].worker = "loop"
               \/ port' = [port EXCEPT ![snd[i].run] = None]
      <3>1. PICK q : q = snd[i].run OBVIOUS
      <3>2. \A r \in Runs \ {q} : \A x : Held(r, x) => Held(r, x)'
        BY <2>1, <3>1 DEF Held
      <3>3. snd'[i].worker = "loop" => Held(q, i)' BY <2>1, <3>1 DEF Held
      <3> QED BY <1>t, <2>3, <3>1, <3>2, <3>3, PortTaken
    <2> QED BY <2>1, <2>2, <2>3 DEF Works
  <1>2. ASSUME NEW k \in Corrs, CorrStep(k) PROVE PortHeldByLiving'
    <2>1. /\ UNCHANGED <<pc, snd>> /\ s'.run = s.run /\ CorrDoes(k)
          /\ \A j \in Corrs \ {k} : corr'[j] = corr[j]
      BY <1>2, CorrEffect DEF SameRun
    <2>2. CASE port' = port /\ corr[k].pc = "run"
      BY <2>1, <2>2, PortKept DEF MgrHolds, SendsHold, CorrsHold
    <2>3. CASE /\ corr'[k].run = corr[k].run
               /\ \/ port' = [port EXCEPT ![corr[k].run] = k] /\ corr'[k].pc = "write"
                  \/ port' = [port EXCEPT ![corr[k].run] = None]
      <3>1. PICK q : q = corr[k].run OBVIOUS
      <3>2. \A r \in Runs \ {q} : \A x : Held(r, x) => Held(r, x)'
        BY <2>1, <2>3, <3>1 DEF Held
      <3>3. corr'[k].pc = "write" => Held(q, k)' BY <2>3, <3>1 DEF Held
      <3> QED BY <1>t, <2>3, <3>1, <3>2, <3>3, PortTaken
    <2> QED BY <2>1, <2>2, <2>3 DEF CorrDoes
  <1>3. CASE \E i \in Sends : CoordStep(i)
    <2>1. PICK i \in Sends : CoordStep(i) BY <1>3
    <2>2. i # Mgr /\ i \in Actors BY Constants
    <2>3. CASE endSend(i)
      <3>1. pc'[Mgr] = pc[Mgr] /\ s'.run = s.run /\ UNCHANGED <<snd, corr, port>>
        BY <2>2, <2>3, EndSendEffect, Constants DEF Ends, GoesTo, EmitsThen, SameRun
      <3> QED BY <3>1, PortKept DEF MgrHolds, SendsHold, CorrsHold
    <2>4. CASE ~endSend(i)
      <3>1. /\ pc'[Mgr] = pc[Mgr] /\ s'.run = s.run /\ UNCHANGED <<corr, port>>
            /\ \A j \in Sends : /\ snd'[j].run = snd[j].run
                                /\ \/ snd'[j].worker = snd[j].worker
                                   \/ snd[j].worker = "loop" /\ snd'[j].worker = "wait"
        BY <2>1, <2>2, <2>4, CoordEffect, Constants DEF CoordStep, GoesTo, SameSession, SameRun
      <3> QED BY <3>1, PortKept DEF MgrHolds, SendsHold, CorrsHold
    <2> QED BY <2>3, <2>4
  <1>4. CASE \E a \in Actors : emitStateChange(a) \/ publish(a)
    <2>1. /\ s'.run = s.run /\ UNCHANGED <<snd, corr, port>>
          /\ pc[Mgr] \in {"probe", "cfg"} => pc'[Mgr] = pc[Mgr]
      BY <1>4, EmitEffect, PublishEffect, Constants DEF Returns, SameRun
    <2> QED BY <2>1, PortKept DEF MgrHolds, SendsHold, CorrsHold
  <1>5. CASE TransportLost \/ UNCHANGED vars
    <2>1. UNCHANGED <<s, pc, snd, corr, port>> BY <1>5, LostEffect DEF vars
    <2> QED BY <2>1, PortKept DEF MgrHolds, SendsHold, CorrsHold
  <1> QED BY <1>1, <1>2, <1>3, <1>4, <1>5

-----------------------------------------------------------------------------
(* Runs: the number of a transport that nobody has started a run on is fresh.    *)

\* What the opener of a transport has in hand; the run that another call works on.
Hand(p) == IF At(p) = "handover" THEN loc[p].run ELSE 0
Own(p)  == IF At(p) = "handover" THEN 0 ELSE loc[p].run
Fresh(r) == /\ r # s.run
            /\ \A i \in Sends : snd[i].run # r
            /\ \A p \in Callers : Own(p) # r
RunsInv ==
  /\ m.conn # 0 => Fresh(m.conn)
  /\ \A p \in Callers : Hand(p) # 0 => Fresh(Hand(p)) /\ m.conn # Hand(p)
  /\ \A p, q \in Callers : Hand(p) # 0 /\ Hand(p) = Hand(q) => p = q
  /\ s.run <= opened /\ m.conn <= opened
  /\ \A i \in Sends : snd[i].run <= opened
  /\ \A p \in Callers : loc[p].run <= opened

\* No transport is opened or handed on, and work begins on the current run only.
RunsQuiet ==
  /\ s'.run = s.run /\ opened' = opened /\ m'.conn \in {0, m.conn}
  /\ \A i \in Sends : snd'[i].run \in {snd[i].run, s.run}
  /\ \A p \in Callers : Hand(p)' \in {0, Hand(p)} /\ Own(p)' \in {0, s.run, Own(p)}

LEMMA RunNumbers ==
  ASSUME Typed
  PROVE  /\ opened \in Nat /\ s.run \in Nat /\ m.conn \in Nat
         /\ \A i \in Sends : snd[i].run \in Nat
         /\ \A p \in Callers : loc[p].run \in Nat
  BY Constants DEF Typed, TypeOK, SessionType, ManagerType, SendType, LocalType

LEMMA HandOwn ==
  ASSUME NEW p \in Callers
  PROVE  /\ loc[p].run \in {Hand(p), Own(p)}
         /\ loc'[p].run = Hand(p)' \/ loc'[p].run = Own(p)'
         /\ At(p) # "handover" => Hand(p) = 0 /\ Own(p) = loc[p].run
         /\ At(p)' # "handover" => Hand(p)' = 0 /\ Own(p)' = loc'[p].run
         /\ At(p) = "handover" => Hand(p) = loc[p].run /\ Own(p) = 0
         /\ At(p)' = "handover" => Hand(p)' = loc'[p].run /\ Own(p)' = 0
  BY DEF Hand, Own

LEMMA FreshKept ==
  ASSUME RunsQuiet, NEW r, r # 0, Fresh(r)
  PROVE  Fresh(r)'
  <1>1. \A i \in Sends : snd'[i].run # r BY DEF RunsQuiet, Fresh
  <1>2. \A p \in Callers : Own(p)' # r BY DEF RunsQuiet, Fresh
  <1> QED BY <1>1, <1>2 DEF RunsQuiet, Fresh

LEMMA RunsKept ==
  ASSUME Typed, Typed', RunsInv, RunsQuiet
  PROVE  RunsInv'
  <1>1. ASSUME NEW r, r = m'.conn, r # 0 PROVE Fresh(r)'
    <2>1. r = m.conn BY <1>1 DEF RunsQuiet
    <2> QED BY <1>1, <2>1, FreshKept DEF RunsInv
  <1>2. ASSUME NEW p \in Callers, NEW r, r = Hand(p)', r # 0
        PROVE  Fresh(r)' /\ m'.conn # r
    <2>1. r = Hand(p) BY <1>2 DEF RunsQuiet
    <2>2. Fresh(r) /\ m.conn # r BY <1>2, <2>1 DEF RunsInv
    <2> QED BY <1>2, <2>2, FreshKept DEF RunsQuiet
  <1>3. \A p, q \in Callers : Hand(p)' # 0 /\ Hand(p)' = Hand(q)' => p = q
    BY DEF RunsQuiet, RunsInv
  <1>4. s'.run <= opened' /\ m'.conn <= opened' BY RunNumbers DEF RunsQuiet, RunsInv
  <1>5. \A i \in Sends : snd'[i].run <= opened' BY RunNumbers DEF RunsQuiet, RunsInv
  <1>6. \A p \in Callers : loc'[p].run <= opened'
    <2> TAKE p \in Callers
    <2>1. loc'[p].run \in {0, s.run, Hand(p), Own(p)} BY HandOwn DEF RunsQuiet
    <2>2. Hand(p) \in {0, loc[p].run} /\ Own(p) \in {0, loc[p].run} BY DEF Hand, Own
    <2>3. loc'[p].run \in {0, s.run, loc[p].run} BY <2>1, <2>2
    <2> QED BY <2>3, RunNumbers DEF RunsQuiet, RunsInv
  <1>7. m'.conn # 0 => (Fresh(m.conn))' BY <1>1
  <1>8. \A p \in Callers : Hand(p)' # 0 => (Fresh(Hand(p)))' /\ m'.conn # Hand(p)'
    BY <1>2
  <1> QED BY <1>3, <1>4, <1>5, <1>6, <1>7, <1>8 DEF RunsInv

\* A step that leaves the calls of Connect and Disconnect alone.
LEMMA RunsOfQuiet ==
  ASSUME CallersQuiet, s'.run = s.run, opened' = opened, m'.conn \in {0, m.conn},
         \A i \in Sends : snd'[i].run \in {snd[i].run, s.run},
         \A p \in Callers : loc'[p].run \in {0, s.run, loc[p].run}
  PROVE  RunsQuiet
  <1>1. ASSUME NEW p \in Callers
        PROVE  Hand(p)' \in {0, Hand(p)} /\ Own(p)' \in {0, s.run, Own(p)}
    <2>1. CASE At(p) = "handover"
      <3>1. At(p)' = "handover" /\ loc'[p].run = loc[p].run
        BY <2>1, CallersSame DEF LifecyclePC
      <3> QED BY <2>1, <3>1, HandOwn
    <2>2. CASE At(p) # "handover"
      <3>1. At(p)' # "handover" BY <2>2, CallersSame DEF LifecyclePC
      <3> QED BY <2>2, <3>1, HandOwn
    <2> QED BY <2>1, <2>2
  <1> QED BY <1>1 DEF RunsQuiet

\* A lifecycle call leaves its place with what it has in hand, or without.
LEMMA RunsOfCall ==
  ASSUME NEW p \in Callers, s'.run = s.run, opened' = opened, m'.conn = m.conn,
         \A i \in Sends : snd'[i].run = snd[i].run,
         \A q \in Callers \ {p} : At(q)' = At(q) /\ loc'[q] = loc[q],
         \/ loc'[p].run = 0
         \/ loc'[p].run = loc[p].run /\ At(p) # "handover" /\ At(p)' # "handover"
  PROVE  RunsQuiet
  <1>1. ASSUME NEW q \in Callers \ {p} PROVE Hand(q)' = Hand(q) /\ Own(q)' = Own(q)
    BY <1>1 DEF Hand, Own
  <1>2. Hand(p)' \in {0, Hand(p)} /\ Own(p)' \in {0, Own(p)} BY HandOwn
  <1> QED BY <1>1, <1>2 DEF RunsQuiet

LEMMA RunsCaller ==
  ASSUME Typed, Places, RunsInv, NEW p \in Callers,
         \/ \E c \in {"connect", "disconnect"} : reserveLifecycle(p, c)
         \/ \E c \in {"config", "reset", "noop"} : beginConfig(p, c)
         \/ \E i \in Sends : beginSend(p, i)
         \/ CancelMsgSend(p) \/ StartCorrections(p) \/ StopCorrections(p) \/ ConfigStep(p)
         \/ commitSend(p) \/ spawnSend(p) \/ restart(p) \/ stopWait(p)
  PROVE  RunsQuiet
  <1>0. IdleLocal.run = 0 BY IdleLocalType
  <1>1. ASSUME NEW c \in {"connect", "disconnect"}, reserveLifecycle(p, c) PROVE RunsQuiet
    <2>1. /\ pc[p] = "idle" /\ At(p)' = "lock" /\ loc'[p].run = loc[p].run
          /\ s'.run = s.run /\ opened' = opened /\ m' = m /\ snd' = snd
          /\ \A q \in Callers \ {p} : At(q)' = At(q) /\ loc'[q] = loc[q]
      BY <1>1, ReserveEffect, Constants DEF GoesTo, Move, SameRun, Others, envVars
    <2>2. At(p) # "handover" BY <2>1 DEF At
    <2> QED BY <2>1, <2>2, RunsOfCall
  <1>2. ASSUME NEW c \in {"config", "reset", "noop"}, beginConfig(p, c) PROVE RunsQuiet
    <2>1. /\ CallersQuiet /\ s'.run = s.run /\ opened' = opened /\ m' = m /\ SameSends
          /\ loc'[p].run = s.run /\ Others(p)
      BY <1>2, QuietConfig, BeginConfigEffect DEF Quiet, SameRun, envVars
    <2> QED BY <2>1, RunsOfQuiet DEF Others, SameSends
  <1>3. ASSUME NEW i \in Sends, beginSend(p, i) PROVE RunsQuiet
    <2>1. /\ CallersQuiet /\ s'.run = s.run /\ opened' = opened /\ m' = m
          /\ snd'[i].run = s.run /\ \A j \in Sends \ {i} : snd'[j].run = snd[j].run
          /\ loc'[p].run = loc[p].run /\ Others(p)
      BY <1>3, QuietSend, BeginSendEffect DEF Quiet, SameRun, envVars
    <2> QED BY <2>1, RunsOfQuiet DEF Others
  <1>4. CASE CancelMsgSend(p)
    <2>1. /\ CallersQuiet /\ s'.run = s.run /\ opened' = opened /\ m' = m /\ SameSends
          /\ loc' = loc
      BY <1>4, QuietSend, CancelMsgEffect DEF Quiet, SameRun, envVars
    <2> QED BY <2>1, RunsOfQuiet DEF SameSends
  <1>5. CASE StartCorrections(p) \/ StopCorrections(p) \/ restart(p) \/ stopWait(p)
    <2>1. CallersQuiet /\ s'.run = s.run BY <1>5, QuietCorrections DEF Quiet, SameRun
    <2>2. opened' = opened /\ m' = m /\ snd' = snd
      BY <1>5, StartEffect, StopEffect, AfterStopEffect DEF envVars
    <2>3. \A q \in Callers : loc'[q].run \in {0, loc[q].run}
      BY <1>0, <1>5, StartEffect, StopEffect, AfterStopEffect DEF Stops, Others
    <2> QED BY <2>1, <2>2, <2>3, RunsOfQuiet
  <1>6. CASE ConfigStep(p)
    <2>1. CallersQuiet /\ s'.run = s.run BY <1>6, QuietConfig DEF Quiet, SameRun
    <2>2. opened' = opened /\ m'.conn = m.conn /\ snd' = snd
      BY <1>6, SendRequestEffect, GiveUpEffect, EndConfigEffect DEF ConfigStep, envVars
    <2>3. \A q \in Callers : loc'[q].run \in {0, loc[q].run}
      BY <1>0, <1>6, SendRequestEffect, GiveUpEffect, EndConfigEffect DEF ConfigStep, Others
    <2> QED BY <2>1, <2>2, <2>3, RunsOfQuiet
  <1>7. CASE commitSend(p) \/ spawnSend(p)
    <2>1. At(p) \in {"gap", "spawn"} BY <1>7 DEF commitSend, spawnSend, At
    <2>2. loc[p].slot \in Sends BY <2>1 DEF LocalOK, Typed, TypeOK, LocalType, Places
    <2>3. PICK i \in Sends : i = loc[p].slot BY <2>2
    <2>4. CallersQuiet /\ s'.run = s.run BY <1>7, QuietSend DEF Quiet, SameRun
    <2>5. /\ opened' = opened /\ m' = m
          /\ \A j \in Sends : snd'[j].run = snd[j].run
          /\ \A q \in Callers : loc'[q].run \in {0, loc[q].run}
      <3>1. CASE commitSend(p)
        BY <1>0, <2>2, <3>1, CommitEffect DEF Others, envVars
      <3>2. CASE spawnSend(p)
        <4>1. /\ loc'[p] = IdleLocal /\ Others(p) /\ opened' = opened /\ m' = m
              /\ snd'[i].run = snd[i].run /\ \A j \in Sends \ {i} : snd'[j].run = snd[j].run
          BY <2>3, <3>2, SpawnEffect DEF envVars
        <4> QED BY <1>0, <4>1 DEF Others
      <3> QED BY <1>7, <3>1, <3>2
    <2> QED BY <2>4, <2>5, RunsOfQuiet
  <1> QED BY <1>1, <1>2, <1>3, <1>4, <1>5, <1>6, <1>7

LEMMA RunsOther ==
  ASSUME Typed, Places, ConnInv,
         \/ \E i \in Sends : CoordStep(i) \/ WorkerStep(i)
         \/ \E k \in Corrs : CorrStep(k)
         \/ \E a \in Actors : emitStateChange(a) \/ publish(a)
         \/ TransportLost
         \/ probePort \/ probe \/ probeDone \/ streamDied \/ configPort \/ configDone
         \/ \E p \in Callers : takeRequest(p)
  PROVE  RunsQuiet
  <1>1. CallersQuiet /\ s'.run = s.run /\ m'.conn = m.conn
    BY QuietOther, QuietManager DEF Quiet, SameRun
  <1>2. opened' = opened /\ loc' = loc /\ \A i \in Sends : snd'[i].run = snd[i].run
    <2>1. ASSUME NEW i \in Sends, CoordStep(i) \/ WorkerStep(i)
          PROVE  opened' = opened /\ loc' = loc /\ \A j \in Sends : snd'[j].run = snd[j].run
      <3>1. CASE endSend(i) BY <3>1, EndSendEffect DEF envVars
      <3>2. CASE WorkerStep(i) BY <3>2, WorkerEffect DEF envVars
      <3>3. CASE CoordStep(i) /\ ~endSend(i) BY <3>3, CoordEffect DEF CoordStep, envVars
      <3> QED BY <2>1, <3>1, <3>2, <3>3
    <2>2. CASE \/ \E k \in Corrs : CorrStep(k)
               \/ \E a \in Actors : emitStateChange(a) \/ publish(a)
               \/ TransportLost
      BY <2>2, CorrEffect, EmitEffect, PublishEffect, LostEffect DEF envVars
    <2>3. CASE \/ probePort \/ probe \/ probeDone \/ streamDied \/ configPort \/ configDone
               \/ \E p \in Callers : takeRequest(p)
      BY <2>3, ProbePortEffect, ProbeEffect, ProbeDoneEffect, StreamDiedEffect,
         ConfigPortEffect, ConfigDoneEffect, TakeRequestEffect DEF envVars
    <2> QED BY <2>1, <2>2, <2>3
  <1> QED BY <1>1, <1>2, RunsOfQuiet

LEMMA RunsManager ==
  ASSUME Typed, Typed', Places, RunsInv,
         \/ runConn \/ endRun \/ endCorr \/ enterReconnect \/ reopen \/ endConn \/ managerReturn
  PROVE  RunsInv'
  <1>1. \A p \in Callers : At(p)' = At(p) /\ loc'[p] = loc[p]
    <2>1. loc' = loc /\ (Stay \/ \E l : Move(Mgr, l))
      <3>1. CASE reopen
        <4>1. \/ UNCHANGED <<pc, ret, loc>>
              \/ loc' = loc /\ \E l : GoesTo(Mgr, l)
          BY <3>1, ReopenEffect
        <4> QED BY <4>1 DEF Stay, GoesTo, At
      <3>2. CASE runConn BY <3>2, RunConnEffect DEF GoesTo
      <3>3. CASE endRun \/ endCorr BY <3>3, EndRunEffect, EndCorrEffect DEF GoesTo
      <3>4. CASE enterReconnect \/ endConn \/ managerReturn
        BY <3>4, VerdictEffect, EndConnEffect DEF GoesTo, EmitsThen
      <3> QED BY <3>1, <3>2, <3>3, <3>4
    <2> QED BY <2>1, Constants DEF Stay, Move
  <1>2. \A p \in Callers : Hand(p)' = Hand(p) /\ Own(p)' = Own(p) BY <1>1 DEF Hand, Own
  <1>3. CASE endRun \/ endCorr \/ enterReconnect \/ endConn \/ managerReturn
    <2>1. /\ s'.run = s.run /\ opened' = opened /\ m'.conn \in {0, m.conn}
          /\ \A i \in Sends : snd'[i].run = snd[i].run
      BY <1>3, EndRunEffect, EndCorrEffect, VerdictEffect, EndConnEffect
      DEF SameRun, SameSends, envVars, IdleManager
    <2> QED BY <1>2, <2>1, RunsKept DEF RunsQuiet
  <1>4. CASE runConn
    <2>1. s'.run = m.conn /\ m'.conn = 0 /\ opened' = opened /\ snd' = snd
      BY <1>4, RunConnEffect DEF envVars
    <2>2. \A p \in Callers : Hand(p)' # 0 => (Fresh(Hand(p)))' /\ m'.conn # Hand(p)'
      <3> SUFFICES ASSUME NEW p \in Callers, NEW r, r = Hand(p)', r # 0
                   PROVE  Fresh(r)' /\ m'.conn # r
        OBVIOUS
      <3>1. Fresh(r) /\ m.conn # r BY <1>2 DEF RunsInv
      <3> QED BY <1>2, <2>1, <3>1 DEF Fresh
    <2> QED BY <1>1, <1>2, <2>1, <2>2, RunNumbers DEF RunsInv
  <1>5. CASE reopen
    <2>1. CASE opened' = opened /\ m'.conn = m.conn
      <3>1. s' = s /\ snd' = snd BY <1>5, ReopenEffect
      <3> QED BY <1>2, <2>1, <3>1, RunsKept DEF RunsQuiet
    <2>2. CASE opened' = opened + 1 /\ m'.conn = opened'
      <3>1. s' = s /\ snd' = snd BY <1>5, ReopenEffect
      <3>2. (Fresh(m.conn))'
        <4>1. PICK r : r = opened' OBVIOUS
        <4>2. \A p \in Callers : Own(p) # r
          <5> TAKE p \in Callers
          <5>1. loc[p].run <= opened /\ loc[p].run \in Nat BY RunNumbers DEF RunsInv
          <5> QED BY <2>2, <4>1, <5>1, RunNumbers DEF Own
        <4>3. s.run # r /\ \A i \in Sends : snd[i].run # r
          BY <2>2, <4>1, RunNumbers DEF RunsInv
        <4>4. Fresh(r)' BY <1>2, <3>1, <4>2, <4>3 DEF Fresh
        <4> QED BY <2>2, <4>1, <4>4
      <3>3. \A p \in Callers : Hand(p)' # 0 => (Fresh(Hand(p)))' /\ m'.conn # Hand(p)'
        <4> SUFFICES ASSUME NEW p \in Callers, NEW r, r = Hand(p)', r # 0
                     PROVE  Fresh(r)' /\ m'.conn # r
          OBVIOUS
        <4>1. Fresh(r) BY <1>2 DEF RunsInv
        <4>2. r <= opened /\ r \in Nat BY <1>2, RunNumbers DEF RunsInv, Hand
        <4> QED BY <1>2, <2>2, <3>1, <4>1, <4>2, RunNumbers DEF Fresh
      <3>4. /\ s'.run <= opened' /\ m'.conn <= opened'
            /\ \A i \in Sends : snd'[i].run <= opened'
            /\ \A p \in Callers : loc'[p].run <= opened'
        BY <1>1, <2>2, <3>1, RunNumbers DEF RunsInv
      <3> QED BY <1>2, <3>2, <3>3, <3>4 DEF RunsInv
    <2> QED BY <1>5, <2>1, <2>2, ReopenEffect
  <1> QED BY <1>3, <1>4, <1>5

LEMMA RunsLifecycle ==
  ASSUME Typed, Typed', Places, ConnInv, RunsInv, NEW p \in Callers, LifecycleStep(p)
  PROVE  RunsInv'
  <1>0. pc[p] \notin Emitting => At(p) = pc[p] BY DEF At, Emitting
  <1>1. CASE beginLifecycle(p) \/ closeCorr(p) \/ closeWait(p)
    <2>1. /\ At(p) # "handover" /\ At(p)' # "handover"
          /\ \A q \in Callers \ {p} : At(q)' = At(q) /\ loc'[q] = loc[q]
          /\ loc'[p].run \in {0, loc[p].run}
          /\ s'.run = s.run /\ opened' = opened /\ m' = m
          /\ snd' = snd \/ SameSends
      <3>1. CASE beginLifecycle(p)
        BY <1>0, <3>1, BeginEffect, IdleLocalType, Constants
        DEF GoesTo, Move, Others, SameRun, Emitting, envVars
      <3>2. CASE closeCorr(p)
        BY <1>0, <3>2, CloseCorrEffect, Constants
        DEF GoesTo, Move, Others, SameRun, Emitting, envVars
      <3>3. CASE closeWait(p)
        BY <1>0, <3>3, CloseWaitEffect, IdleLocalType, Constants
        DEF GoesTo, EmitsThen, Move, Others, Emitting, envVars
      <3> QED BY <1>1, <3>1, <3>2, <3>3
    <2>2. RunsQuiet BY <2>1, RunsOfCall DEF SameSends
    <2> QED BY <2>2, RunsKept
  <1>2. CASE Open(p)
    <2>1. /\ At(p) = "open" /\ At(p)' = "handover"
          /\ \A q \in Callers \ {p} : At(q)' = At(q) /\ loc'[q] = loc[q]
          /\ s' = s /\ m' = m /\ snd' = snd
          /\ \/ opened' = opened + 1 /\ loc'[p].run = opened'
             \/ opened' = opened /\ loc'[p].run = loc[p].run
      BY <1>0, <1>2, OpenEffect, Constants DEF GoesTo, Move, Others, Emitting
    <2>2. loc[p].run = 0 BY <2>1 DEF Places, LocalOK, LifecyclePC
    <2>3. CASE opened' = opened /\ loc'[p].run = loc[p].run
      <3>1. RunsQuiet BY <2>1, <2>2, <2>3, RunsOfCall
      <3> QED BY <3>1, RunsKept
    <2>4. CASE opened' = opened + 1 /\ loc'[p].run = opened'
      <3>1. \A q \in Callers \ {p} : Hand(q)' = Hand(q) /\ Own(q)' = Own(q)
        BY <2>1 DEF Hand, Own
      <3>2. Hand(p)' = opened' /\ Own(p)' = 0 /\ Hand(p) = 0 /\ Own(p) = 0
        BY <2>1, <2>2, <2>4, HandOwn
      <3>3. \A q \in Callers : Hand(q) <= opened /\ Own(q) <= opened /\ Hand(q) \in Nat /\ Own(q) \in Nat
        BY RunNumbers DEF RunsInv, Hand, Own
      <3>4. \A r : r # 0 /\ Fresh(r) => Fresh(r)'
        BY <2>1, <3>1, <3>2 DEF Fresh
      <3>5. \A r : r = opened' => Fresh(r)' /\ m'.conn # r
        BY <2>1, <2>4, <3>1, <3>2, <3>3, RunNumbers DEF Fresh, RunsInv
      <3>6. m'.conn # 0 => (Fresh(m.conn))'
        <4>1. \A r : r = m'.conn /\ r # 0 => Fresh(r)' BY <2>1, <3>4 DEF RunsInv
        <4> QED BY <4>1
      <3>7. \A q \in Callers : Hand(q)' # 0 => (Fresh(Hand(q)))' /\ m'.conn # Hand(q)'
        <4> SUFFICES ASSUME NEW q \in Callers, NEW r, r = Hand(q)', r # 0
                     PROVE  Fresh(r)' /\ m'.conn # r
          OBVIOUS
        <4>1. CASE q = p BY <3>2, <3>5, <4>1
        <4>2. CASE q # p BY <2>1, <3>1, <3>4, <4>2 DEF RunsInv
        <4> QED BY <4>1, <4>2
      <3>8. \A q, o \in Callers : Hand(q)' # 0 /\ Hand(q)' = Hand(o)' => q = o
        BY <2>4, <3>1, <3>2, <3>3, RunNumbers DEF RunsInv
      <3>9. /\ s'.run <= opened' /\ m'.conn <= opened'
            /\ \A i \in Sends : snd'[i].run <= opened'
            /\ \A q \in Callers : loc'[q].run <= opened'
        BY <2>1, <2>4, RunNumbers DEF RunsInv
      <3> QED BY <3>6, <3>7, <3>8, <3>9 DEF RunsInv
    <2> QED BY <2>1, <2>3, <2>4
  <1>3. CASE handover(p)
    <2>1. /\ At(p) = "handover" /\ At(p)' = "idle" /\ loc'[p].run = 0
          /\ \A q \in Callers \ {p} : At(q)' = At(q) /\ loc'[q] = loc[q]
          /\ s'.run = s.run /\ snd' = snd /\ opened' = opened
          /\ m' = m \/ m'.conn = loc[p].run
      BY <1>0, <1>3, HandoverEffect, IdleLocalType, Constants
      DEF GoesTo, EmitsThen, Move, Others, SameRun, Emitting, envVars
    <2>2. CASE m' = m
      <3>1. RunsQuiet BY <2>1, <2>2, RunsOfCall
      <3> QED BY <3>1, RunsKept
    <2>3. CASE m'.conn = loc[p].run
      <3>1. \A q \in Callers \ {p} : Hand(q)' = Hand(q) /\ Own(q)' = Own(q)
        BY <2>1 DEF Hand, Own
      <3>2. Hand(p)' = 0 /\ Own(p)' = 0 /\ Hand(p) = loc[p].run /\ Own(p) = 0
        BY <2>1, HandOwn
      <3>4. \A r : r # 0 /\ Fresh(r) => Fresh(r)'
        BY <2>1, <3>1, <3>2 DEF Fresh
      <3>6. m'.conn # 0 => (Fresh(m.conn))'
        <4>1. \A r : r = Hand(p) /\ r # 0 => Fresh(r)' BY <3>4 DEF RunsInv
        <4>2. \A r : r = m'.conn /\ r # 0 => Fresh(r)' BY <2>3, <3>2, <4>1
        <4> QED BY <4>2
      <3>7. \A q \in Callers : Hand(q)' # 0 => (Fresh(Hand(q)))' /\ m'.conn # Hand(q)'
        <4> SUFFICES ASSUME NEW q \in Callers, NEW r, r = Hand(q)', r # 0
                     PROVE  Fresh(r)' /\ m'.conn # r
          OBVIOUS
        <4>1. q # p /\ Hand(q) = r BY <3>1, <3>2
        <4>2. Fresh(r)' BY <3>4, <4>1 DEF RunsInv
        <4>3. m'.conn # r BY <2>3, <3>2, <4>1 DEF RunsInv
        <4> QED BY <4>2, <4>3
      <3>8. \A q, o \in Callers : Hand(q)' # 0 /\ Hand(q)' = Hand(o)' => q = o
        BY <3>1, <3>2 DEF RunsInv
      <3>9. /\ s'.run <= opened' /\ m'.conn <= opened'
            /\ \A i \in Sends : snd'[i].run <= opened'
            /\ \A q \in Callers : loc'[q].run <= opened'
        BY <2>1, <2>3, RunNumbers DEF RunsInv
      <3> QED BY <3>6, <3>7, <3>8, <3>9 DEF RunsInv
    <2> QED BY <2>1, <2>2, <2>3
  <1> QED BY <1>1, <1>2, <1>3 DEF LifecycleStep

-----------------------------------------------------------------------------
(* Operations.                                                                   *)

Doers == Callers \cup Sends
Early == {"reopen", "install", "probePort", "probe", "probeDone"}

\* A run that is being opened or probed has no operation yet.
EarlyInv == At(Mgr) \in Early => s.state \notin Busy
OpsInv   == EarlyInv /\ OperationHoldsState

Nobody    == \A a \in Doers : ~Operating(a)
DoneKept  == \A r : RunDone(r) => RunDone(r)'
GoesOn(a) == \/ At(a)' \notin OpPC
             \/ At(a) \in OpPC /\ OpRun(a)' = OpRun(a) /\ OpState(a)' = OpState(a)
SameLocal(a) == loc'[a].slot = loc[a].slot /\ loc'[a].run = loc[a].run

LEMMA SameDone ==
  ASSUME SameRun, s'.connCtx = s.connCtx
  PROVE  DoneKept
  BY DEF SameRun, DoneKept, RunDone

LEMMA OperatingKept ==
  ASSUME DoneKept, NEW a \in Doers, GoesOn(a)
  PROVE  (Operating(a))' => Operating(a) /\ OpState(a)' = OpState(a)
  <1> SUFFICES ASSUME (Operating(a))' PROVE Operating(a) /\ OpState(a)' = OpState(a)
    OBVIOUS
  <1>1. At(a)' \in OpPC /\ ~(RunDone(OpRun(a)))' BY DEF Operating
  <1>2. At(a) \in OpPC /\ OpRun(a)' = OpRun(a) /\ OpState(a)' = OpState(a)
    BY <1>1 DEF GoesOn
  <1>3. PICK r : r = OpRun(a) OBVIOUS
  <1>4. ~RunDone(r)' BY <1>1, <1>2, <1>3 DEF RunDone
  <1>5. ~RunDone(r) BY <1>4 DEF DoneKept
  <1> QED BY <1>2, <1>3, <1>5 DEF Operating

LEMMA OpsKept ==
  ASSUME OperationHoldsState, DoneKept, s'.state = s.state, \A a \in Doers : GoesOn(a)
  PROVE  OperationHoldsState'
  <1>1. \A a \in Doers : (Operating(a))' => Operating(a) /\ OpState(a)' = OpState(a)
    BY OperatingKept
  <1> QED BY <1>1 DEF OperationHoldsState, Doers

LEMMA NobodyKept ==
  ASSUME Nobody, DoneKept, \A a \in Doers : GoesOn(a)
  PROVE  OperationHoldsState'
  <1>1. \A a \in Doers : ~(Operating(a))' BY OperatingKept DEF Nobody
  <1> QED BY <1>1 DEF OperationHoldsState, Doers

\* The run, or the connection, is over.
LEMMA NobodyNow ==
  ASSUME s'.runCtx = "done" \/ s'.connCtx = "done"
  PROVE  OperationHoldsState'
  <1>1. \A a \in Doers : ~(Operating(a))' BY DEF Operating, RunDone
  <1> QED BY <1>1 DEF OperationHoldsState, Doers

LEMMA OneStarts ==
  ASSUME Nobody, DoneKept, NEW a \in Doers, \A b \in Doers \ {a} : GoesOn(b),
         s'.state = OpState(a)'
  PROVE  OperationHoldsState'
  <1>1. \A b \in Doers \ {a} : ~(Operating(b))' BY OperatingKept DEF Nobody
  <1> QED BY <1>1 DEF OperationHoldsState, Doers

LEMMA NobodyBut ==
  ASSUME OperationHoldsState, s.state \notin {"configuring", "sending"}
  PROVE  Nobody
  BY DEF OperationHoldsState, Nobody, OpState, Doers

LEMMA SameDoer ==
  ASSUME Typed, NEW a \in Doers, a \in Callers => SameLocal(a),
         \A i \in Sends : snd'[i].run = snd[i].run \/ (a # i /\ (a \in Callers => loc[a].slot # i)),
         At(a)' = At(a) \/ At(a)' \notin OpPC \/ At(a) \in OpPC
  PROVE  GoesOn(a)
  <1>1. CASE a \in Sends
    <2>1. OpRun(a)' = OpRun(a) /\ OpState(a)' = OpState(a)
      BY <1>1 DEF OpRun, OpState
    <2> QED BY <2>1 DEF GoesOn
  <1>2. CASE a \in Callers
    <2>1. a \notin Sends /\ loc[a].slot \in Sends \cup {None}
      BY <1>2, Constants DEF Typed, TypeOK, LocalType
    <2>2. PICK o : o = loc[a].slot OBVIOUS
    <2>3. loc'[a].slot = o BY <1>2, <2>2 DEF SameLocal
    <2>4. o # None => snd'[o].run = snd[o].run BY <1>2, <2>1, <2>2
    <2>5. OpRun(a)' = OpRun(a) /\ OpState(a)' = OpState(a)
      BY <1>2, <2>1, <2>2, <2>3, <2>4 DEF OpRun, OpState, SameLocal
    <2> QED BY <2>5 DEF GoesOn
  <1> QED BY <1>1, <1>2 DEF Doers

\* Nobody but a does anything.
LEMMA OthersGoOn ==
  ASSUME Typed, NEW a \in Actors, \A b \in Doers \ {a} : At(b)' = At(b),
         \A q \in Callers \ {a} : loc'[q] = loc[q], \A i \in Sends : snd'[i].run = snd[i].run
  PROVE  \A b \in Doers \ {a} : GoesOn(b)
  BY SameDoer DEF SameLocal

\* Everybody goes on with the operation at hand.
LEMMA AllGoOn ==
  ASSUME Typed, loc' = loc, \A i \in Sends : snd'[i].run = snd[i].run,
         \A b \in Doers : At(b)' = At(b) \/ (At(b)' \in OpPC /\ At(b) \in OpPC)
  PROVE  \A b \in Doers : GoesOn(b)
  BY SameDoer DEF SameLocal

LEMMA MovesDoers ==
  ASSUME NEW a \in Actors, NEW l, Move(a, l)
  PROVE  /\ \A b \in Doers \ {a} : At(b)' = At(b)
         /\ a # Mgr => At(Mgr)' = At(Mgr)
         /\ At(a)' = l
  BY Constants DEF Move, Doers

LEMMA EarlyKept ==
  ASSUME EarlyInv, At(Mgr)' \in Early => At(Mgr) \in Early,
         s'.state = s.state \/ s.state \in Busy \/ s'.state \notin Busy
  PROVE  EarlyInv'
  BY DEF EarlyInv

\* The end of an operation: only of the one that is under way.
LEMMA OpsEnds ==
  ASSUME Typed, OpsInv, NEW a \in Doers, At(a) = "endOp", NEW r, r = OpRun(a), Ends(a, r),
         \A q \in Callers \ {a} : loc'[q] = loc[q], \A i \in Sends : snd'[i].run = snd[i].run
  PROVE  OpsInv'
  <1>m. a \in Actors /\ a # Mgr BY Constants DEF Doers
  <1>1. /\ At(a)' = "idle" /\ At(Mgr)' = At(Mgr)
        /\ \A b \in Doers \ {a} : At(b)' = At(b)
        /\ SameRun /\ s'.connCtx = s.connCtx
    BY <1>m, MovesDoers DEF Ends, GoesTo, EmitsThen, SameRun, SameCalls
  <1>2. \A b \in Doers \ {a} : GoesOn(b) BY <1>m, <1>1, OthersGoOn
  <1>3. GoesOn(a) BY <1>1 DEF GoesOn, OpPC
  <1>4. DoneKept BY <1>1, SameDone
  <1>5. EarlyInv'
    BY <1>1, EarlyKept DEF OpsInv, Ends, Busy
  <1>6. CASE s' = s BY <1>2, <1>3, <1>4, <1>5, <1>6, OpsKept DEF OpsInv
  <1>7. CASE s.run = r /\ (s.connCtx = "done" \/ s.runCtx = "live")
    <2>1. CASE s.connCtx = "done" BY <1>1, <1>5, <2>1, NobodyNow DEF OpsInv
    <2>2. CASE s.connCtx # "done"
      <3>1. Operating(a) BY <1>7, <2>2 DEF Operating, OpPC, RunDone
      <3>2. \A b \in Doers \ {a} : ~Operating(b)
        BY <3>1 DEF OpsInv, OperationHoldsState, Doers
      <3>3. \A b \in Doers \ {a} : ~(Operating(b))' BY <1>2, <1>4, <3>2, OperatingKept
      <3>4. ~(Operating(a))' BY <1>1 DEF Operating, OpPC
      <3> QED BY <1>5, <3>3, <3>4 DEF OpsInv, OperationHoldsState, Doers
    <2> QED BY <2>1, <2>2
  <1> QED BY <1>6, <1>7 DEF Ends

\* A step that leaves state, run and manager alone: p goes on, or is at no operation.
LEMMA OpsSame ==
  ASSUME Typed, OpsInv, SameRun, s'.connCtx = s.connCtx, s'.state = s.state,
         At(Mgr)' = At(Mgr), \A b \in Doers : GoesOn(b)
  PROVE  OpsInv'
  BY SameDone, OpsKept, EarlyKept DEF OpsInv

LEMMA OpsCaller ==
  ASSUME Typed, Places, OpsInv, NEW p \in Callers,
         \/ \E c \in {"connect", "disconnect"} : reserveLifecycle(p, c)
         \/ \E c \in {"config", "reset", "noop"} : beginConfig(p, c)
         \/ \E i \in Sends : beginSend(p, i)
         \/ CancelMsgSend(p) \/ StartCorrections(p) \/ StopCorrections(p) \/ ConfigStep(p)
         \/ commitSend(p) \/ spawnSend(p) \/ restart(p) \/ stopWait(p)
  PROVE  OpsInv'
  <1>0. pc[p] \notin Emitting => At(p) = pc[p] BY DEF At, Emitting
  <1>m. p \in Actors /\ p # Mgr /\ p \in Doers BY Constants DEF Doers
  <1>l. LocalOK(p) BY DEF Places
  <1>1. ASSUME NEW c \in {"connect", "disconnect"}, reserveLifecycle(p, c) PROVE OpsInv'
    <2>1. /\ SameRun /\ s'.connCtx = s.connCtx /\ s'.state = s.state /\ Move(p, "lock")
          /\ snd' = snd /\ Others(p)
      BY <1>1, ReserveEffect DEF GoesTo, SameState
    <2>2. GoesOn(p) BY <2>1 DEF Move, GoesOn, OpPC
    <2>3. \A b \in Doers : GoesOn(b) BY <1>m, <2>1, <2>2, MovesDoers, OthersGoOn DEF Others
    <2> QED BY <1>m, <2>1, <2>3, MovesDoers, OpsSame
  <1>2. ASSUME NEW c \in {"config", "reset", "noop"}, beginConfig(p, c) PROVE OpsInv'
    <2>1. /\ pc[p] = "idle" /\ s.state = "connected" /\ s'.state = "configuring"
          /\ SameRun /\ s'.connCtx = s.connCtx /\ (\E l : Move(p, l))
          /\ SameSends /\ Others(p) /\ loc'[p].slot = loc[p].slot
      BY <1>2, BeginConfigEffect DEF EmitsThen, SameCalls
    <2>2. Nobody BY <2>1, NobodyBut DEF OpsInv
    <2>3. \A b \in Doers \ {p} : GoesOn(b)
      BY <1>m, <2>1, MovesDoers, OthersGoOn DEF Others, SameSends
    <2>4. loc'[p].slot = None BY <1>0, <1>l, <2>1 DEF LocalOK, Emitting
    <2>5. OpState(p)' = "configuring" BY <2>4, Constants DEF OpState
    <2>6. OperationHoldsState' BY <1>m, <2>1, <2>2, <2>3, <2>5, SameDone, OneStarts
    <2>7. EarlyInv' BY <1>m, <2>1, MovesDoers, EarlyKept DEF OpsInv, Busy
    <2> QED BY <2>6, <2>7 DEF OpsInv
  <1>3. ASSUME NEW i \in Sends, beginSend(p, i) PROVE OpsInv'
    <2>1. /\ FreeSend(i) /\ SameRun /\ s'.connCtx = s.connCtx /\ s'.state = s.state
          /\ Move(p, "gap") /\ Others(p)
          /\ \A j \in Sends \ {i} : snd'[j].run = snd[j].run
      BY <1>3, BeginSendEffect DEF GoesTo, SameSession, SameState, SameCalls
    <2>2. /\ \A b \in Doers \ {p} : At(b)' = At(b)
          /\ At(p)' = "gap" /\ At(Mgr)' = At(Mgr)
      BY <1>m, <2>1, MovesDoers
    <2>3. At(i)' = "idle"
      <3>1. At(i) = "idle" BY <2>1 DEF FreeSend, At
      <3> QED BY <2>2, <3>1, Constants DEF Doers
    <2>4. ASSUME NEW b \in Doers PROVE GoesOn(b)
      <3>1. CASE b \in {p, i} BY <2>2, <2>3, <3>1 DEF GoesOn, OpPC
      <3>2. CASE b \notin {p, i}
        <4>1. b \in Callers => SameLocal(b) BY <2>1, <3>2 DEF Others, SameLocal
        <4>2. \A j \in Sends : snd'[j].run = snd[j].run \/ (b # j /\ (b \in Callers => loc[b].slot # j))
          BY <2>1, <3>2 DEF FreeSend
        <4> QED BY <2>2, <3>2, <4>1, <4>2, SameDoer
      <3> QED BY <3>1, <3>2
    <2> QED BY <2>1, <2>2, <2>4, OpsSame
  <1>4. CASE CancelMsgSend(p)
    <2>1. /\ SameRun /\ s'.connCtx = s.connCtx /\ s'.state = s.state /\ UNCHANGED <<pc, ret, loc>>
          /\ SameSends
      BY <1>4, CancelMsgEffect DEF SameSession, SameState, SameCalls
    <2>2. \A b \in Actors : At(b)' = At(b) BY <2>1 DEF At
    <2>3. \A b \in Doers : GoesOn(b) BY <2>1, <2>2, AllGoOn, Constants DEF SameSends, Doers
    <2> QED BY <2>1, <2>2, <2>3, OpsSame, Constants
  <1>5. CASE StartCorrections(p) \/ StopCorrections(p) \/ restart(p) \/ stopWait(p)
    <2>1. /\ SameRun /\ s'.connCtx = s.connCtx /\ s'.state = s.state /\ snd' = snd
          /\ \/ UNCHANGED <<pc, ret, loc>>
             \/ Others(p) /\ \E l \in {"idle", "restart", "stopWait"} : Move(p, l)
      BY <1>5, StartEffect, StopEffect, AfterStopEffect
      DEF Stops, GoesTo, SameState, SameCalls
    <2>2. CASE UNCHANGED <<pc, ret, loc>>
      <3>1. \A b \in Actors : At(b)' = At(b) BY <2>2 DEF At
      <3>2. \A b \in Doers : GoesOn(b) BY <2>1, <2>2, <3>1, AllGoOn, Constants DEF Doers
      <3> QED BY <2>1, <3>1, <3>2, OpsSame, Constants
    <2>3. ASSUME NEW l \in {"idle", "restart", "stopWait"}, Move(p, l), Others(p) PROVE OpsInv'
      <3>1. GoesOn(p) BY <2>3 DEF Move, GoesOn, OpPC
      <3>2. \A b \in Doers : GoesOn(b)
        BY <1>m, <2>1, <2>3, <3>1, MovesDoers, OthersGoOn DEF Others
      <3> QED BY <1>m, <2>1, <2>3, <3>2, MovesDoers, OpsSame
    <2> QED BY <2>1, <2>2, <2>3
  <1>6. CASE sendConfigRequest(p) \/ giveUpRequest(p)
    <2>1. /\ s' = s /\ snd' = snd /\ SameLocal(p) /\ Others(p)
          /\ At(p) \in {"request", "offer", "result"}
          /\ \E l \in {"endOp", "offer"} : Move(p, l)
      BY <1>0, <1>6, SendRequestEffect, GiveUpEffect
      DEF GoesTo, SameLocal, Others, Emitting
    <2>2. GoesOn(p) BY <1>m, <2>1, SameDoer DEF OpPC
    <2>3. \A b \in Doers : GoesOn(b)
      BY <1>m, <2>1, <2>2, MovesDoers, OthersGoOn DEF Others
    <2>4. At(Mgr)' = At(Mgr) BY <1>m, <2>1, MovesDoers
    <2> QED BY <2>1, <2>3, <2>4, OpsSame DEF SameRun
  <1>7. CASE endConfig(p)
    <2>1. /\ At(p) = "endOp" /\ Ends(p, loc[p].run) /\ Others(p) /\ snd' = snd
      BY <1>0, <1>7, EndConfigEffect DEF Emitting
    <2>2. loc[p].slot = None BY <1>l, <2>1 DEF LocalOK
    <2>3. PICK r : r = loc[p].run OBVIOUS
    <2>4. r = OpRun(p) BY <2>2, <2>3, Constants DEF OpRun
    <2>5. Ends(p, r) BY <2>1, <2>3
    <2> QED BY <1>m, <2>1, <2>4, <2>5, OpsEnds DEF Others
  <1>8. CASE commitSend(p)
    <2>1. At(p) = "gap" BY <1>8 DEF commitSend, At
    <2>2. loc[p].slot \in Sends BY <2>1 DEF LocalOK, Typed, TypeOK, LocalType, Places
    <2>3. /\ SameRun /\ s'.connCtx = s.connCtx /\ snd' = snd
          /\ \/ Move(p, "idle") /\ Others(p) /\ s'.state = s.state
             \/ /\ s.state = "connected" /\ s'.state = "sending" /\ Move(p, "spawn")
                /\ UNCHANGED loc
      BY <1>8, <2>2, CommitEffect DEF GoesTo, EmitsThen, SameState, SameCalls
    <2>4. /\ \A b \in Doers \ {p} : GoesOn(b)
          /\ At(Mgr)' = At(Mgr)
      BY <1>m, <2>3, MovesDoers, OthersGoOn DEF Others
    <2>5. CASE Move(p, "idle") /\ s'.state = s.state
      <3>1. GoesOn(p) BY <2>5 DEF Move, GoesOn, OpPC
      <3> QED BY <2>3, <2>4, <2>5, <3>1, OpsSame
    <2>6. CASE s.state = "connected" /\ s'.state = "sending" /\ UNCHANGED loc
      <3>1. Nobody BY <2>6, NobodyBut DEF OpsInv
      <3>2. OpState(p)' = "sending" BY <2>2, <2>6, Constants DEF OpState
      <3>3. OperationHoldsState' BY <1>m, <2>3, <2>4, <2>6, <3>1, <3>2, SameDone, OneStarts
      <3>4. EarlyInv' BY <2>4, <2>6, EarlyKept DEF OpsInv, Busy
      <3> QED BY <3>3, <3>4 DEF OpsInv
    <2> QED BY <2>3, <2>5, <2>6
  <1>9. CASE spawnSend(p)
    <2>1. At(p) = "spawn" BY <1>9 DEF spawnSend, At
    <2>2. loc[p].slot \in Sends BY <2>1 DEF LocalOK, Typed, TypeOK, LocalType, Places
    <2>3. PICK i \in Sends : i = loc[p].slot BY <2>2
    <2>4. /\ s' = s /\ At(p)' = "idle" /\ Others(p)
          /\ \A a \in Actors \ {p, i} : At(a)' = At(a)
          /\ \A j \in Sends : snd'[j].run = snd[j].run
      BY <1>9, <2>3, SpawnEffect
    <2>5. /\ i # Mgr /\ i # None /\ i \in Doers
          /\ At(Mgr)' = At(Mgr) /\ \A b \in Doers \ {p, i} : At(b)' = At(b)
      BY <1>m, <2>4, Constants DEF Doers
    <2>6. \A b \in Doers \ {p, i} : GoesOn(b)
      BY <2>4, <2>5, SameDoer DEF Others, SameLocal
    <2>7. DoneKept BY <2>4, SameDone DEF SameRun
    <2>8. ~(Operating(p))' BY <2>4 DEF Operating, OpPC
    <2>9. (Operating(i))' => Operating(p)
      <3>1. OpRun(p) = snd[i].run BY <2>3, <2>5, Constants DEF OpRun
      <3>2. (OpRun(i))' = snd[i].run BY <2>4 DEF OpRun
      <3>3. PICK r : r = snd[i].run OBVIOUS
      <3>4. (Operating(i))' => ~RunDone(r)' BY <3>2, <3>3 DEF Operating, RunDone
      <3>5. (Operating(i))' => ~RunDone(r) BY <2>7, <3>4 DEF DoneKept
      <3> QED BY <2>1, <3>1, <3>3, <3>5 DEF Operating, OpPC
    <2>10. OpState(p) = "sending" /\ OpState(i)' = "sending"
      BY <2>3, <2>5 DEF OpState
    <2>11. \A b \in Doers \ {p, i} : (Operating(b))' => Operating(b) /\ OpState(b)' = OpState(b)
      BY <2>6, <2>7, OperatingKept
    <2>12. OperationHoldsState'
      <3>1. ASSUME NEW a \in Doers, (Operating(a))'
            PROVE  s'.state = OpState(a)' /\ \A b \in Doers \ {a} : ~(Operating(b))'
        <4>1. CASE a = i
          <5>1. Operating(p) BY <2>9, <3>1, <4>1
          <5> QED
            BY <1>m, <2>4, <2>8, <2>10, <2>11, <4>1, <5>1 DEF OpsInv, OperationHoldsState, Doers
        <4>2. CASE a # i
          <5>1. a # p /\ Operating(a) /\ OpState(a)' = OpState(a) BY <2>8, <2>11, <3>1, <4>2
          <5>2. s.state = OpState(a) /\ \A b \in Doers \ {a} : ~Operating(b)
            BY <5>1 DEF OpsInv, OperationHoldsState, Doers
          <5> QED BY <1>m, <2>4, <2>8, <2>9, <2>11, <5>1, <5>2
        <4> QED BY <4>1, <4>2
      <3> QED BY <3>1 DEF OperationHoldsState, Doers
    <2>13. EarlyInv' BY <2>4, <2>5, EarlyKept DEF OpsInv
    <2> QED BY <2>12, <2>13 DEF OpsInv
  <1> QED BY <1>1, <1>2, <1>3, <1>4, <1>5, <1>6, <1>7, <1>8, <1>9 DEF ConfigStep

\* A manager that is there alone: no run is live.
LEMMA NoRun ==
  ASSUME Typed, ConnInv, At(Mgr) \notin RunPC
  PROVE  s.runCtx = "done"
  BY DEF Typed, TypeOK, SessionType, ConnInv, RunInv

LEMMA OpsLifecycle ==
  ASSUME Typed, ConnInv, OpsInv, NEW p \in Callers, LifecycleStep(p)
  PROVE  OpsInv'
  <1>0. pc[p] \notin Emitting => At(p) = pc[p] BY DEF At, Emitting
  <1>m. p \in Actors /\ p # Mgr /\ p \in Doers BY Constants DEF Doers
  <1>i. pc[Mgr] = "idle" => At(Mgr) = "idle" /\ s.runCtx = "done"
    <2>1. pc[Mgr] = "idle" => At(Mgr) = "idle" BY DEF At
    <2> QED BY <2>1, NoRun DEF RunPC
  <1>1. ASSUME SameRun, s'.connCtx = s.connCtx, s'.state = s.state, snd' = snd, Others(p),
               NEW l, l \notin OpPC, Move(p, l)
        PROVE  OpsInv'
    <2>1. GoesOn(p) BY <1>1 DEF Move, GoesOn
    <2>2. \A b \in Doers : GoesOn(b) BY <1>m, <1>1, <2>1, MovesDoers, OthersGoOn DEF Others
    <2> QED BY <1>m, <1>1, <2>2, MovesDoers, OpsSame
  <1>2. CASE beginLifecycle(p)
    <2>1. CASE GoesTo(p, "idle") /\ Others(p) /\ UNCHANGED <<s, snd>>
      BY <1>1, <2>1 DEF GoesTo, OpPC, SameRun
    <2>2. CASE ~Superseded(p)
      <3>1. /\ s'.state = "disconnected" /\ SameRun /\ \E l : Move(p, l)
            /\ s'.connCtx = IF s.connCtx = "live" THEN "done" ELSE s.connCtx
        BY <1>2, <2>2, BeginEffect DEF GoesTo
      <3>2. s'.runCtx = "done" \/ s'.connCtx = "done"
        <4>1. CASE pc[Mgr] = "idle" BY <1>i, <3>1, <4>1 DEF SameRun
        <4>2. CASE pc[Mgr] # "idle"
          <5>1. s.connCtx \in {"live", "done"}
            BY <4>2 DEF ConnInv, ManagerInv, Typed, TypeOK, SessionType
          <5> QED BY <3>1, <5>1
        <4> QED BY <4>1, <4>2
      <3>3. EarlyInv' BY <3>1 DEF EarlyInv, Busy
      <3> QED BY <3>2, <3>3, NobodyNow DEF OpsInv
    <2> QED BY <1>2, <2>1, <2>2, BeginEffect
  <1>3. CASE closeCorr(p)
    <2>1. /\ SameRun /\ s'.connCtx = s.connCtx /\ s'.state = s.state /\ snd' = snd /\ Others(p)
          /\ Move(p, "closeWait")
      BY <1>3, CloseCorrEffect DEF GoesTo, SameState, SameCalls
    <2> QED BY <1>1, <2>1 DEF OpPC
  <1>4. CASE closeWait(p)
    <2>1. ConnWg = {} /\ s'.runCtx = s.runCtx /\ (\E l : Move(p, l))
      BY <1>4, CloseWaitEffect DEF GoesTo, EmitsThen
    <2>2. pc[Mgr] = "idle" BY <2>1 DEF ConnWg
    <2>3. At(Mgr)' = "idle" BY <1>i, <1>m, <2>1, <2>2, MovesDoers
    <2> QED BY <1>i, <2>1, <2>2, <2>3, NobodyNow DEF OpsInv, EarlyInv, Early
  <1>5. CASE Open(p)
    <2>1. /\ s' = s /\ snd' = snd /\ Others(p) /\ Move(p, "handover")
      BY <1>5, OpenEffect DEF GoesTo
    <2> QED BY <1>1, <2>1 DEF OpPC, SameRun
  <1>6. CASE handover(p)
    <2>1. /\ At(p) = "handover" /\ SameRun /\ snd' = snd /\ Others(p)
      BY <1>0, <1>6, HandoverEffect DEF Emitting
    <2>2. CASE Superseded(p)
      <3>1. GoesTo(p, "idle") /\ s'.connCtx = s.connCtx /\ s'.state = s.state
        BY <1>6, <2>2, HandoverEffect DEF SameState, SameCalls
      <3> QED BY <1>1, <2>1, <3>1 DEF GoesTo, OpPC
    <2>3. CASE ~Superseded(p)
      <3>1. pc[Mgr] = "idle" /\ s.state = "connecting"
        BY <2>1, <2>3 DEF Superseded, OnOpen, ConnInv, ManagerInv
      <3>2. s'.state \in {"connecting", "disconnected"}
        BY <1>6, <2>3, <3>1, HandoverEffect DEF SameState
      <3> QED BY <1>i, <2>1, <3>1, <3>2, NobodyNow DEF OpsInv, EarlyInv, Busy, SameRun
    <2> QED BY <2>2, <2>3
  <1> QED BY <1>2, <1>3, <1>4, <1>5, <1>6 DEF LifecycleStep

LEMMA OpsManager ==
  ASSUME Typed, Places, ConnInv, RunsInv, OpsInv, ManagerStep
  PROVE  OpsInv'
  <1>0. pc[Mgr] \notin Emitting => At(Mgr) = pc[Mgr] BY DEF At, Emitting
  <1>m. Mgr \in Actors /\ Mgr \notin Doers BY Constants DEF Doers
  <1>1. ASSUME NEW l, Move(Mgr, l), loc' = loc, \A i \in Sends : snd'[i].run = snd[i].run
        PROVE  /\ \A b \in Doers : GoesOn(b)
               /\ At(Mgr)' = l
    BY <1>m, <1>1, MovesDoers, AllGoOn
  <1>2. CASE probePort \/ probe \/ streamDied
    <2>1. /\ pc[Mgr] \in {"probePort", "probe", "loop"} /\ UNCHANGED <<s, loc, snd>>
          /\ \E l \in {"probe", "probeDone", "endRun"} : Move(Mgr, l)
          /\ streamDied => Move(Mgr, "endRun")
      BY <1>2, ProbePortEffect, ProbeEffect, StreamDiedEffect DEF GoesTo
    <2>2. PICK l \in {"probe", "probeDone", "endRun"} :
             Move(Mgr, l) /\ (l # "endRun" => pc[Mgr] \in {"probePort", "probe"})
      BY <1>2, ProbePortEffect, ProbeEffect, StreamDiedEffect DEF GoesTo
    <2>3. \A b \in Doers : GoesOn(b) BY <1>1, <2>1, <2>2
    <2>4. EarlyInv'
      BY <1>0, <1>1, <2>1, <2>2, EarlyKept DEF OpsInv, Early, Emitting
    <2> QED BY <2>1, <2>3, <2>4, OpsKept, SameDone DEF OpsInv, SameRun
  <1>3. CASE probeDone
    <2>1. /\ At(Mgr) = "probeDone" /\ SameRun /\ s'.connCtx = s.connCtx /\ UNCHANGED <<loc, snd>>
          /\ \E l \in {"loop", "endRun"} : Move(Mgr, l)
      BY <1>0, <1>3, ProbeDoneEffect DEF GoesTo, EmitsThen, SameCalls, Emitting
    <2>2. s.state \notin Busy BY <2>1 DEF OpsInv, EarlyInv, Early
    <2>3. Nobody BY <2>2, NobodyBut DEF OpsInv, Busy
    <2>4. (\A b \in Doers : GoesOn(b)) /\ At(Mgr)' \in {"loop", "endRun"} BY <1>1, <2>1
    <2>5. OperationHoldsState' BY <2>1, <2>3, <2>4, SameDone, NobodyKept
    <2> QED BY <2>4, <2>5 DEF OpsInv, EarlyInv, Early
  <1>4. CASE configPort \/ configDone
    <2>1. /\ At(Mgr) \in {"cfgPort", "cfg"} /\ UNCHANGED <<loc, snd>>
          /\ SameRun /\ s'.connCtx = s.connCtx /\ s'.state = s.state
          /\ Move(Mgr, "cfg") \/ \E l \in {"loop", "endRun"} : Answers(l)
      BY <1>0, <1>4, ConfigPortEffect, ConfigDoneEffect
      DEF GoesTo, SameState, SameRun, SameCalls, Emitting
    <2>2. CASE Move(Mgr, "cfg")
      <3>1. \A b \in Doers : GoesOn(b) BY <1>1, <2>1, <2>2
      <3>2. At(Mgr)' = "cfg" BY <1>1, <2>1, <2>2
      <3> QED BY <2>1, <3>1, <3>2, OpsKept, SameDone DEF OpsInv, EarlyInv, Early
    <2>3. ASSUME NEW l \in {"loop", "endRun"}, Answers(l) PROVE OpsInv'
      <3>1. \A b \in Doers : At(b)' = At(b) \/ (At(b)' \in OpPC /\ At(b) \in OpPC)
        <4> TAKE b \in Doers
        <4>1. b \in Actors /\ b # Mgr BY <1>m, Constants DEF Doers
        <4>2. CASE b = m.req
          <5>1. b \in Callers
            <6>1. m.req \in Callers \cup {None} BY DEF Typed, TypeOK, ManagerType
            <6> QED BY <4>2, <6>1, Constants DEF Doers
          <5>2. At(b) = "result" /\ At(b)' = "endOp"
            BY <2>3, <4>2, <5>1 DEF Answers, Places, RequestInv
          <5> QED BY <5>2 DEF OpPC
        <4>3. CASE b # m.req BY <2>3, <4>1, <4>3 DEF Answers
        <4> QED BY <4>2, <4>3
      <3>2. \A b \in Doers : GoesOn(b) BY <2>1, <3>1, AllGoOn
      <3>3. At(Mgr)' = l BY <2>3 DEF Answers
      <3> QED BY <2>1, <3>2, <3>3, OpsKept, SameDone DEF OpsInv, EarlyInv, Early
    <2> QED BY <2>1, <2>2, <2>3
  <1>5. ASSUME NEW p \in Callers, takeRequest(p) PROVE OpsInv'
    <2>1. /\ At(Mgr)' = "cfgPort" /\ At(p)' = "result" /\ pc[p] = "offer"
          /\ \A a \in Actors \ {p, Mgr} : At(a)' = At(a)
          /\ UNCHANGED <<s, loc, snd>>
      BY <1>5, TakeRequestEffect
    <2>2. At(p) = "offer" BY <2>1 DEF At
    <2>3. \A b \in Doers : At(b)' = At(b) \/ (At(b)' \in OpPC /\ At(b) \in OpPC)
      BY <1>m, <2>1, <2>2, Constants DEF OpPC, Doers
    <2>4. \A b \in Doers : GoesOn(b) BY <2>1, <2>3, AllGoOn
    <2> QED BY <2>1, <2>4, OpsKept, SameDone DEF OpsInv, EarlyInv, Early, SameRun
  <1>6. CASE runConn
    <2>1. /\ At(Mgr) = "install" /\ s'.run = m.conn /\ s'.state = s.state
          /\ UNCHANGED <<loc, snd>> /\ Move(Mgr, "probePort")
      BY <1>0, <1>6, RunConnEffect DEF GoesTo, SameState, Emitting
    <2>2. m.conn # 0 BY <2>1 DEF Places, ManagerLocal
    <2>3. Fresh(m.conn) BY <2>2 DEF RunsInv
    <2>4. (\A b \in Doers : GoesOn(b)) /\ At(Mgr)' = "probePort" BY <1>1, <2>1
    <2>5. ASSUME NEW b \in Doers, (Operating(b))' PROVE FALSE
      <3>1. At(b)' \in OpPC /\ ~(RunDone(OpRun(b)))' BY <2>5 DEF Operating
      <3>2. At(b) \in OpPC /\ OpRun(b)' = OpRun(b) BY <2>4, <3>1 DEF GoesOn
      <3>3. OpRun(b) = m.conn BY <2>1, <3>1, <3>2 DEF RunDone
      <3>4. CASE b \in Sends BY <2>3, <3>3, <3>4 DEF OpRun, Fresh
      <3>5. CASE b \in Callers
        <4>1. b \notin Sends /\ loc[b].slot \in Sends \cup {None}
          BY <3>5, Constants DEF Typed, TypeOK, LocalType
        <4>2. Own(b) = loc[b].run BY <3>2 DEF Own, OpPC
        <4> QED BY <2>3, <3>3, <3>5, <4>1, <4>2 DEF OpRun, Fresh
      <3> QED BY <3>4, <3>5 DEF Doers
    <2>6. OperationHoldsState' BY <2>5 DEF OperationHoldsState, Doers
    <2>7. EarlyInv' BY <2>1, <2>4, EarlyKept DEF OpsInv, Early
    <2> QED BY <2>6, <2>7 DEF OpsInv
  <1>7. CASE endRun \/ endCorr
    <2>1. s'.runCtx = "done" /\ \E l \in {"verdict", "endCorr"} : Move(Mgr, l)
      <3>1. CASE endRun BY <3>1, EndRunEffect DEF GoesTo
      <3>2. CASE endCorr
        <4>1. At(Mgr) = "endCorr" /\ s'.runCtx = s.runCtx /\ Move(Mgr, "verdict")
          BY <1>0, <3>2, EndCorrEffect DEF GoesTo, Emitting
        <4> QED BY <4>1, NoRun DEF RunPC
      <3> QED BY <1>7, <3>1, <3>2
    <2>2. At(Mgr)' \in {"verdict", "endCorr"} BY <2>1 DEF Move
    <2> QED BY <2>1, <2>2, NobodyNow DEF OpsInv, EarlyInv, Early
  <1>8. CASE enterReconnect \/ managerReturn \/ endConn
    <2>1. /\ At(Mgr) \in {"verdict", "endConn"} /\ SameRun
          /\ Move(Mgr, "idle") \/ (Move(Mgr, "reopen") /\ s'.state = "reconnecting")
      BY <1>0, <1>8, VerdictEffect, EndConnEffect DEF GoesTo, EmitsThen, Emitting
    <2>2. s'.runCtx = "done" BY <2>1, NoRun DEF RunPC, SameRun
    <2>3. EarlyInv' BY <2>1 DEF EarlyInv, Early, Busy, Move
    <2> QED BY <2>2, <2>3, NobodyNow DEF OpsInv
  <1>9. CASE reopen
    <2>1. At(Mgr) = "reopen" /\ s' = s BY <1>0, <1>9, ReopenEffect DEF Emitting
    <2>2. s.runCtx = "done" BY <2>1, NoRun DEF RunPC
    <2>3. EarlyInv' BY <2>1, EarlyKept DEF OpsInv, Early
    <2> QED BY <2>1, <2>2, <2>3, NobodyNow DEF OpsInv
  <1> QED BY <1>2, <1>3, <1>4, <1>5, <1>6, <1>7, <1>8, <1>9 DEF ManagerStep

LEMMA OpsOther ==
  ASSUME Typed, OpsInv,
         \/ \E i \in Sends : CoordStep(i) \/ WorkerStep(i)
         \/ \E k \in Corrs : CorrStep(k)
         \/ \E a \in Actors : emitStateChange(a) \/ publish(a)
         \/ TransportLost \/ UNCHANGED vars
  PROVE  OpsInv'
  <1>1. ASSUME NEW i \in Sends, CoordStep(i) PROVE OpsInv'
    <2>1. i \in Doers /\ i # Mgr /\ i \in Actors BY Constants DEF Doers
    <2>2. CASE endSend(i)
      <3>1. pc[i] = "endOp" /\ Ends(i, snd[i].run) /\ loc' = loc /\ snd' = snd
        BY <2>2, EndSendEffect
      <3>2. PICK r : r = snd[i].run OBVIOUS
      <3>3. At(i) = "endOp" /\ r = OpRun(i) BY <3>1, <3>2 DEF At, OpRun
      <3> QED BY <2>1, <3>1, <3>2, <3>3, OpsEnds
    <2>3. CASE ~endSend(i)
      <3>1. /\ SameRun /\ s'.connCtx = s.connCtx /\ s'.state = s.state /\ loc' = loc
            /\ pc[i] \in {"step", "reply", "finish"}
            /\ \E l \in {"step", "reply", "finish", "endOp"} : Move(i, l)
            /\ \A j \in Sends : snd'[j].run = snd[j].run
        BY <1>1, <2>3, CoordEffect DEF CoordStep, GoesTo, SameSession, SameState, SameCalls
      <3>2. At(i) \in OpPC BY <3>1 DEF At, OpPC
      <3>3. PICK l \in {"step", "reply", "finish", "endOp"} : Move(i, l) BY <3>1
      <3>4. /\ \A b \in Doers \ {i} : At(b)' = At(b)
            /\ At(Mgr)' = At(Mgr) /\ At(i)' = l
        BY <2>1, <3>3, MovesDoers
      <3>5. \A b \in Doers : At(b)' = At(b) \/ (At(b)' \in OpPC /\ At(b) \in OpPC)
        BY <3>2, <3>4 DEF OpPC
      <3>6. \A b \in Doers : GoesOn(b) BY <3>1, <3>5, AllGoOn
      <3> QED BY <3>1, <3>4, <3>6, OpsSame
    <2> QED BY <2>2, <2>3
  <1>2. ASSUME Stay, loc' = loc, \A j \in Sends : snd'[j].run = snd[j].run,
               SameRun, s'.connCtx = s.connCtx, s'.state = s.state
        PROVE  OpsInv'
    <2>1. At(Mgr)' = At(Mgr) /\ \A b \in Doers : At(b)' = At(b)
      BY <1>2, Constants DEF Stay, Doers
    <2>2. \A b \in Doers : GoesOn(b) BY <1>2, <2>1, AllGoOn
    <2> QED BY <1>2, <2>1, <2>2, OpsSame
  <1>3. CASE \/ \E i \in Sends : WorkerStep(i)
             \/ \E k \in Corrs : CorrStep(k)
             \/ TransportLost \/ UNCHANGED vars
    <2>1. /\ UNCHANGED <<pc, ret, loc>> /\ \A j \in Sends : snd'[j].run = snd[j].run
          /\ SameRun /\ s'.connCtx = s.connCtx /\ s'.state = s.state
      BY <1>3, WorkerEffect, CorrEffect, LostEffect DEF SameRun, SameState, SameCalls, vars
    <2>2. Stay BY <2>1 DEF Stay, At
    <2> QED BY <1>2, <2>1, <2>2
  <1>4. CASE \E a \in Actors : emitStateChange(a) \/ publish(a)
    <2>1. /\ Stay /\ loc' = loc /\ snd' = snd
          /\ SameRun /\ s'.connCtx = s.connCtx /\ s'.state = s.state
      BY <1>4, EmitEffect, PublishEffect DEF SameCalls
    <2> QED BY <1>2, <2>1
  <1> QED BY <1>1, <1>3, <1>4

-----------------------------------------------------------------------------
LEMMA ExclusiveStep ==
  ASSUME Typed, Typed', Places, ConnInv, RunsInv, OpsInv, PortHeldByLiving, [Next]_vars
  PROVE  RunsInv' /\ OpsInv' /\ PortHeldByLiving'
  <1>1. CASE \/ \E i \in Sends : CoordStep(i) \/ WorkerStep(i)
             \/ \E k \in Corrs : CorrStep(k)
             \/ \E a \in Actors : emitStateChange(a) \/ publish(a)
             \/ TransportLost \/ UNCHANGED vars
    <2>1. RunsQuiet
      <3>1. CASE UNCHANGED vars
        BY <3>1 DEF vars, envVars, RunsQuiet, Hand, Own, At
      <3> QED BY <1>1, <3>1, RunsOther
    <2> QED BY <1>1, <2>1, RunsKept, OpsOther, PortOther
  <1>2. CASE ManagerStep
    <2>1. RunsInv' BY <1>2, RunsOther, RunsKept, RunsManager DEF ManagerStep
    <2> QED BY <1>2, <2>1, OpsManager, PortManager
  <1>3. ASSUME NEW p \in Callers,
               \/ Call(p) \/ LifecycleStep(p) \/ ConfigStep(p)
               \/ commitSend(p) \/ spawnSend(p) \/ restart(p) \/ stopWait(p)
        PROVE  RunsInv' /\ OpsInv' /\ PortHeldByLiving'
    <2>1. CASE LifecycleStep(p) BY <2>1, RunsLifecycle, OpsLifecycle, PortCaller
    <2>2. CASE ~LifecycleStep(p)
      <3>1. RunsQuiet BY <1>3, <2>2, RunsCaller DEF Call
      <3>2. OpsInv' BY <1>3, <2>2, OpsCaller DEF Call
      <3> QED BY <1>3, <3>1, <3>2, RunsKept, PortCaller
    <2> QED BY <2>1, <2>2
  <1> QED BY <1>1, <1>2, <1>3 DEF Next

LEMMA ExclusiveInit == Init => RunsInv /\ OpsInv /\ PortHeldByLiving
  <1> SUFFICES ASSUME Init PROVE RunsInv /\ OpsInv /\ PortHeldByLiving OBVIOUS
  <1>1. /\ s.run = 0 /\ s.runCtx = "done" /\ s.state = "disconnected" /\ m.conn = 0 /\ opened = 0
        /\ \A i \in Sends : snd[i].run = 0
        /\ \A p \in Callers : loc[p].run = 0
        /\ port = [r \in Runs |-> None]
    BY DEF Init, IdleLocal, IdleManager, IdleSend
  <1>2. RunsInv BY <1>1 DEF RunsInv, Hand
  <1>3. OpsInv BY <1>1 DEF OpsInv, EarlyInv, Busy, OperationHoldsState, Operating, RunDone
  <1>4. PortHeldByLiving BY <1>1 DEF PortHeldByLiving
  <1> QED BY <1>2, <1>3, <1>4

\* Operations on a run are mutually exclusive and none is ended, by the state, before it is
\* through or its run is gone: not by one of an earlier run, nor by one of the same run; and
\* the port of a run is held by a goroutine that will give it back, however the operation ends.
THEOREM Exclusive == Spec => []OperationsExclusive
  <1>1. Init => /\ Typed /\ Places /\ ConnInv /\ RunsInv /\ OpsInv /\ PortHeldByLiving
    BY PlacesInit, ConnInit, ExclusiveInit
  <1>2. (Typed /\ Places /\ ConnInv /\ RunsInv /\ OpsInv /\ PortHeldByLiving) /\ [Next]_vars
          => (Typed /\ Places /\ ConnInv /\ RunsInv /\ OpsInv /\ PortHeldByLiving)'
    <2> SUFFICES ASSUME Typed, Places, ConnInv, RunsInv, OpsInv, PortHeldByLiving, [Next]_vars
                 PROVE  (Typed /\ Places /\ ConnInv /\ RunsInv /\ OpsInv /\ PortHeldByLiving)'
      OBVIOUS
    <2>1. Typed' /\ Places' BY PlacesStep
    <2>2. ConnInv' BY ConnStep
    <2>3. RunsInv' /\ OpsInv' /\ PortHeldByLiving' BY <2>1, ExclusiveStep
    <2> QED BY <2>1, <2>2, <2>3
  <1>3. Typed /\ OpsInv /\ PortHeldByLiving => OperationsExclusive
    BY DEF OperationsExclusive, OpsInv, Typed
  <1> QED BY <1>1, <1>2, <1>3, PTL DEF Spec
=============================================================================
