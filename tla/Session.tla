------------------------------- MODULE Session -------------------------------
(***************************************************************************)
(* The receiver session of gps/app/session: Connect, Disconnect, the       *)
(* connection manager with its reconnects, the exclusive operations        *)
(* (configuration and message sending) and the correction session, called  *)
(* from any number of goroutines.                                          *)
(*                                                                         *)
(* Everything between a Lock and an Unlock of Session.mu is one step; the  *)
(* goroutines interleave wherever mu is released: between two critical     *)
(* sections of a call, while a call waits for goroutines, while an event   *)
(* is delivered to the sink.  Every pipeline run has a number; transports, *)
(* the contexts and the port lock of a run go by it.                       *)
(***************************************************************************)
EXTENDS Naturals, FiniteSets

CONSTANTS Callers,     \* goroutines of the shell that call the methods
          Sends,       \* message sends that may be under way at a time
          Corrs,       \* correction sessions that may exist at a time
          None,
          Msgs,        \* messages of one send
          MaxWrites,   \* packets that a correction session writes
          MaxReopenAttempts,
          MaxCalls,    \* bound on the calls
          MaxRuns      \* bound on the transports that are opened

Mgr == "mgr"
Actors == Callers \cup Sends \cup {Mgr}
Runs == 1 .. MaxRuns
States == {"disconnected", "connecting", "reconnecting",
           "connected", "configuring", "sending"}

ASSUME ParamsAssumption ==
  /\ Msgs \in Nat \ {0} /\ MaxWrites \in Nat /\ MaxReopenAttempts \in Nat \ {0}
  /\ MaxCalls \in Nat /\ MaxRuns \in Nat
  /\ None \notin Actors \cup Corrs
  /\ Mgr \notin Callers \cup Sends /\ Callers \cap Sends = {}

VARIABLES
  s,         \* the fields of Session that mu protects, see SessionType
  pc, ret,   \* where a goroutine is; where it goes on after emitStateChange
  loc,       \* the local variables of a caller, see LocalType
  m,         \* the local variables of the connection manager
  snd,       \* the goroutines of a send, see SendType
  corr,      \* the goroutines of a correction session
  emitting,  \* the goroutine that stateEmitting stands for
  event,     \* the state a goroutine is about to deliver
  published, \* the last state that the sink was given
  lifecycle, \* holder of lifecycleMu
  open,      \* transports that are open
  lost,      \* transports that died under their run
  port,      \* holder of the port of a run
  opened, ops, last

emitVars == <<emitting, event, published>>
envVars  == <<open, lost, opened>>
vars == <<s, pc, ret, loc, m, snd, corr, emitVars, lifecycle, envVars, port, ops, last>>

CallerPC == {"idle", "emit", "publish", "lock", "closeCorr", "closeWait", "open",
             "handover", "request", "offer", "result", "endOp", "gap", "spawn",
             "restart", "stopWait"}
ManagerPC == {"idle", "emit", "publish", "install", "probePort", "probe", "probeDone",
              "loop", "cfgPort", "cfg", "endRun", "endCorr", "verdict", "reopen", "endConn"}
CoordPC == {"idle", "emit", "publish", "step", "reply", "finish", "endOp"}

SessionType ==
  [state : States, seq : {"old", "new"},          \* "new": stateSeq # stateEmitSeq
   gen : 0 .. MaxCalls, connCtx : {"none", "live", "done"},
   run : 0 .. MaxRuns, runCtx : {"live", "done"}, \* runCtx, and whether runCancel was called
   pipe : 0 .. MaxRuns,                           \* the run of pb and configCh, 0 for nil
   conn : 0 .. MaxRuns, reset : {"yes", "no"},
   sendCancel : Sends \cup {None}, workerCancel : Sends \cup {None},
   corrCancel : Corrs \cup {None}, corrStopping : {"yes", "no"},
   corrState : {"stopped", "active", "failed"}]
LocalType == [call : {"none", "connect", "disconnect", "config", "reset", "noop", "send", "corr"},
              gen : 0 .. MaxCalls, run : 0 .. MaxRuns, ch : 0 .. MaxRuns,
              wg : Corrs \cup {None}, slot : Sends \cup {None}]
ManagerType == [conn : 0 .. MaxRuns, req : Callers \cup {None}, wg : Corrs \cup {None},
                reset : {"yes", "no"},
                verdict : {"none", "disconnect", "lost", "reconnect", "probeFailed"},
                tries : 0 .. MaxReopenAttempts - 1]
SendType == [run : 0 .. MaxRuns, sendCtx : {"live", "done"}, workerCtx : {"live", "done"},
             worker : {"off", "port", "loop", "wait"},
             left : 0 .. Msgs, reply : {"none", "ok", "err"}]
CorrType == [pc : {"off", "run", "write"}, ctx : {"live", "done"}, run : 0 .. MaxRuns,
             left : 0 .. MaxWrites]

TypeOK ==
  /\ s \in SessionType
  /\ pc \in [Actors -> CallerPC \cup ManagerPC \cup CoordPC]
  /\ ret \in [Actors -> CallerPC \cup ManagerPC \cup CoordPC]
  /\ loc \in [Callers -> LocalType]
  /\ m \in ManagerType
  /\ snd \in [Sends -> SendType]
  /\ corr \in [Corrs -> CorrType]
  /\ emitting \in Actors \cup {None}
  /\ event \in [Actors -> States \cup {None}]
  /\ published \in States
  /\ lifecycle \in Callers \cup {None}
  /\ open \subseteq Runs /\ lost \subseteq Runs
  /\ port \in [Runs -> {Mgr, None} \cup Sends \cup Corrs]
  /\ opened \in 0 .. MaxRuns /\ ops \in 0 .. MaxCalls
  /\ last \in {"connect", "disconnect"}

IdleLocal == [call |-> "none", gen |-> 0, run |-> 0, ch |-> 0, wg |-> None, slot |-> None]
IdleSend == [run |-> 0, sendCtx |-> "live", workerCtx |-> "live", worker |-> "off",
             left |-> 0, reply |-> "none"]
IdleCorr == [pc |-> "off", ctx |-> "live", run |-> 0, left |-> 0]
IdleManager == [conn |-> 0, req |-> None, wg |-> None, reset |-> "no",
                verdict |-> "none", tries |-> 0]

Init ==
  /\ s = [state |-> "disconnected", seq |-> "old", gen |-> 0, connCtx |-> "none", run |-> 0,
          runCtx |-> "done", pipe |-> 0, conn |-> 0, reset |-> "no", sendCancel |-> None,
          workerCancel |-> None, corrCancel |-> None, corrStopping |-> "no",
          corrState |-> "stopped"]
  /\ pc = [a \in Actors |-> "idle"] /\ ret = [a \in Actors |-> "idle"]
  /\ loc = [p \in Callers |-> IdleLocal]
  /\ m = IdleManager
  /\ snd = [i \in Sends |-> IdleSend]
  /\ corr = [k \in Corrs |-> IdleCorr]
  /\ emitting = None /\ event = [a \in Actors |-> None] /\ published = "disconnected"
  /\ lifecycle = None /\ open = {} /\ lost = {}
  /\ port = [r \in Runs |-> None]
  /\ opened = 0 /\ ops = 0 /\ last = "disconnect"

-----------------------------------------------------------------------------
(* Contexts, and the pieces that several methods share. *)

\* The context of run r is done: cancelled by endRun, or with its parent connCtx.
RunDone(r) == r # s.run \/ s.runCtx = "done" \/ s.connCtx = "done"
\* A subscription to the packets of run r is closed: end of file, runCtx, pb.Close.
SubClosed(r) == r \in lost \/ RunDone(r) \/ s.pipe # r
WorkerDone(i) == snd[i].workerCtx = "done" \/ RunDone(snd[i].run)

\* ops counts the calls other than Connect and Disconnect.
MayCall == s.gen + ops < MaxCalls

setStateLocked(x, st) == [x EXCEPT !.state = st, !.seq = "new"]
closeConn(x) == [x EXCEPT !.conn = 0]

Goto(a, l) == pc' = [pc EXCEPT ![a] = l] /\ UNCHANGED ret
\* Unlock, call emitStateChange, and go on at l; return from it.
EmitThen(a, l) == pc' = [pc EXCEPT ![a] = "emit"] /\ ret' = [ret EXCEPT ![a] = l]
EmitReturn(a) == pc' = [pc EXCEPT ![a] = ret[a]] /\ ret' = [ret EXCEPT ![a] = "idle"]
Return(p) == pc' = [pc EXCEPT ![p] = "idle"] /\ UNCHANGED ret
             /\ loc' = [loc EXCEPT ![p] = IdleLocal]

cancelWorkerLocked(f) ==
  [i \in Sends |-> IF i = s.workerCancel THEN [f[i] EXCEPT !.workerCtx = "done"] ELSE f[i]]
cancelSend(f) ==
  [i \in Sends |-> IF i = s.sendCancel THEN [f[i] EXCEPT !.sendCtx = "done"] ELSE f[i]]

\* stopCorrLocked up to its wait: the session's fields, and the goroutines to wait for.
stopCorrLocked(x) ==
  IF x.corrCancel = None
  THEN [x EXCEPT !.corrState = "stopped"]
  ELSE [x EXCEPT !.corrCancel = None, !.corrStopping = "yes"]
CancelCorr(k) == [j \in Corrs |-> IF j = k THEN [corr[j] EXCEPT !.ctx = "done"] ELSE corr[j]]
CorrDone(k) == corr[k].pc = "off"

-----------------------------------------------------------------------------
(* Publishing the state. *)

\* The top of emitStateChange: leave the work to the goroutine that is at it, or
\* take the state to deliver.
emitStateChange(a) ==
  /\ pc[a] = "emit"
  /\ IF emitting # None \/ s.seq = "old"
     THEN /\ EmitReturn(a)
          /\ UNCHANGED <<s, emitVars>>
     ELSE /\ emitting' = a /\ event' = [event EXCEPT ![a] = s.state]
          /\ s' = [s EXCEPT !.seq = "old"]
          /\ Goto(a, "publish")
          /\ UNCHANGED published
  /\ UNCHANGED <<loc, m, snd, corr, lifecycle, envVars, port, ops, last>>

\* Variant: the event loop ends without a look at stateSeq.
publish_Once(a) ==
  /\ pc[a] = "publish"
  /\ published' = event[a]
  /\ IF s.seq = "old" \/ TRUE
     THEN /\ emitting' = None /\ event' = [event EXCEPT ![a] = None]
          /\ EmitReturn(a) /\ UNCHANGED s
     ELSE /\ event' = [event EXCEPT ![a] = s.state] /\ s' = [s EXCEPT !.seq = "old"]
          /\ UNCHANGED <<pc, ret, emitting>>
  /\ UNCHANGED <<loc, m, snd, corr, lifecycle, envVars, port, ops, last>>

\* The sink has the event; go round the loop again if the state has moved on.
publish(a) ==
  /\ pc[a] = "publish"
  /\ published' = event[a]
  /\ IF s.seq = "old"
     THEN /\ emitting' = None /\ event' = [event EXCEPT ![a] = None]
          /\ EmitReturn(a) /\ UNCHANGED s
     ELSE /\ event' = [event EXCEPT ![a] = s.state] /\ s' = [s EXCEPT !.seq = "old"]
          /\ UNCHANGED <<pc, ret, emitting>>
  /\ UNCHANGED <<loc, m, snd, corr, lifecycle, envVars, port, ops, last>>

-----------------------------------------------------------------------------
(* Connect and Disconnect. *)

reserveLifecycle(p, call) ==
  /\ pc[p] = "idle" /\ MayCall
  /\ s' = [s EXCEPT !.gen = @ + 1]
  /\ loc' = [loc EXCEPT ![p].call = call, ![p].gen = s.gen + 1]
  /\ last' = call
  /\ Goto(p, "lock")
  /\ UNCHANGED <<m, snd, corr, emitVars, lifecycle, envVars, port, ops>>

Superseded(p) == s.gen # loc[p].gen

\* closeLocked up to where it first waits: everything is cancelled and the state
\* is Disconnected before mu is released.
closeLocked(p) ==
  LET x == setStateLocked([s EXCEPT !.sendCancel = None, !.workerCancel = None,
                                    !.connCtx = IF @ = "live" THEN "done" ELSE @],
                          "disconnected")
      y == stopCorrLocked(x)
  IN  /\ snd' = cancelWorkerLocked(cancelSend(snd))
      /\ corr' = CancelCorr(s.corrCancel)
      /\ IF s.corrCancel = None
         THEN /\ s' = [y EXCEPT !.pipe = 0] /\ Goto(p, "closeWait") /\ UNCHANGED loc
         ELSE /\ s' = y /\ Goto(p, "closeCorr")
              /\ loc' = [loc EXCEPT ![p].wg = s.corrCancel]

beginLifecycle(p) ==
  /\ pc[p] = "lock" /\ lifecycle = None
  /\ IF Superseded(p)
     THEN Return(p) /\ UNCHANGED <<s, snd, corr, lifecycle>>
     ELSE closeLocked(p) /\ lifecycle' = p
  /\ UNCHANGED <<m, emitVars, envVars, port, ops, last>>

closeCorr(p) ==
  /\ pc[p] = "closeCorr" /\ CorrDone(loc[p].wg)
  /\ s' = [s EXCEPT !.corrStopping = "no", !.pipe = 0]
  /\ loc' = [loc EXCEPT ![p].wg = None]
  /\ Goto(p, "closeWait")
  /\ UNCHANGED <<m, snd, corr, emitVars, lifecycle, envVars, port, ops, last>>

\* The goroutines that connWg counts: the manager, the two of a send, and the one
\* that waits for a correction session.
ConnWg == {a \in Sends \cup {Mgr} : pc[a] # "idle"}
            \cup {i \in Sends : snd[i].worker # "off"}
            \cup {k \in Corrs : corr[k].pc # "off"}

\* The rest of closeLocked, and of the call up to its next release of mu.
closeWait(p) ==
  /\ pc[p] = "closeWait" /\ ConnWg = {}
  /\ open' = open \ {s.conn}
  /\ lifecycle' = None
  /\ CASE Superseded(p) -> s' = closeConn(s) /\ Return(p)
       [] ~Superseded(p) /\ loc[p].call = "connect" ->
            s' = setStateLocked(closeConn(s), "connecting") /\ EmitThen(p, "open") /\ UNCHANGED loc
       [] OTHER -> /\ s' = closeConn(s) /\ EmitThen(p, "idle")
                   /\ loc' = [loc EXCEPT ![p] = IdleLocal]
  /\ UNCHANGED <<m, snd, corr, emitVars, lost, opened, port, ops, last>>

\* op.Open: opens a transport, or fails or times out.
Open(p) ==
  /\ pc[p] = "open"
  /\ \/ /\ opened < MaxRuns
        /\ opened' = opened + 1 /\ open' = open \cup {opened + 1}
        /\ loc' = [loc EXCEPT ![p].run = opened + 1]
     \/ UNCHANGED <<opened, open, loc>>
  /\ Goto(p, "handover")
  /\ UNCHANGED <<s, m, snd, corr, emitVars, lifecycle, lost, port, ops, last>>

\* Variant: no second look at connectGen after the open.
handover_Unchecked(p) ==
  /\ pc[p] = "handover" /\ lifecycle = None
  /\ CASE FALSE ->
            /\ open' = open \ {loc[p].run}
            /\ Return(p) /\ UNCHANGED <<s, m>>
       [] loc[p].run = 0 ->
            /\ s' = setStateLocked(s, "disconnected")
            /\ loc' = [loc EXCEPT ![p] = IdleLocal]
            /\ EmitThen(p, "idle") /\ UNCHANGED <<open, m>>
       [] OTHER ->
            /\ s' = [s EXCEPT !.connCtx = "live"]
            /\ m' = [IdleManager EXCEPT !.conn = loc[p].run]
            /\ pc' = [pc EXCEPT ![p] = "idle", ![Mgr] = "install"]
            /\ loc' = [loc EXCEPT ![p] = IdleLocal]
            /\ UNCHANGED <<open, ret>>
  /\ UNCHANGED <<snd, corr, emitVars, lifecycle, lost, opened, port, ops, last>>

\* connect after the open: a superseded call closes what it has opened.
handover(p) ==
  /\ pc[p] = "handover" /\ lifecycle = None
  /\ CASE Superseded(p) ->
            /\ open' = open \ {loc[p].run}
            /\ Return(p) /\ UNCHANGED <<s, m>>
       [] ~Superseded(p) /\ loc[p].run = 0 ->
            /\ s' = setStateLocked(s, "disconnected")
            /\ loc' = [loc EXCEPT ![p] = IdleLocal]
            /\ EmitThen(p, "idle") /\ UNCHANGED <<open, m>>
       [] OTHER ->
            /\ s' = [s EXCEPT !.connCtx = "live"]
            /\ m' = [IdleManager EXCEPT !.conn = loc[p].run]
            /\ pc' = [pc EXCEPT ![p] = "idle", ![Mgr] = "install"]
            /\ loc' = [loc EXCEPT ![p] = IdleLocal]
            /\ UNCHANGED <<open, ret>>
  /\ UNCHANGED <<snd, corr, emitVars, lifecycle, lost, opened, port, ops, last>>

-----------------------------------------------------------------------------
(* The connection manager: runConn, packetWorker, endRun, reconnecting. *)

runConn ==
  /\ pc[Mgr] = "install"
  /\ s' = [s EXCEPT !.conn = m.conn, !.run = m.conn, !.runCtx = "live", !.pipe = m.conn,
                    !.reset = "no"]
  /\ m' = [m EXCEPT !.conn = 0]
  /\ Goto(Mgr, "probePort")
  /\ UNCHANGED <<loc, snd, corr, emitVars, lifecycle, envVars, port, ops, last>>

EndWith(v) == m' = [m EXCEPT !.verdict = v] /\ Goto(Mgr, "endRun")

probePort ==
  /\ pc[Mgr] = "probePort"
  /\ \/ RunDone(s.run) /\ EndWith("disconnect") /\ UNCHANGED port
     \/ /\ port[s.run] = None /\ port' = [port EXCEPT ![s.run] = Mgr]
        /\ Goto(Mgr, "probe") /\ UNCHANGED m
  /\ UNCHANGED <<s, loc, snd, corr, emitVars, lifecycle, envVars, ops, last>>

\* The probe ends, with an answer or with none that is a hard error, or it fails.
probe ==
  /\ pc[Mgr] = "probe"
  /\ port' = [port EXCEPT ![s.run] = None]
  /\ \/ Goto(Mgr, "probeDone") /\ UNCHANGED m
     \/ EndWith(IF RunDone(s.run) THEN "disconnect" ELSE "probeFailed")
  /\ UNCHANGED <<s, loc, snd, corr, emitVars, lifecycle, envVars, ops, last>>

probeDone ==
  /\ pc[Mgr] = "probeDone"
  /\ IF s.state = "disconnected" \/ s.connCtx = "done"
     THEN EndWith("disconnect") /\ UNCHANGED s
     ELSE s' = setStateLocked(s, "connected") /\ EmitThen(Mgr, "loop") /\ UNCHANGED m
  /\ UNCHANGED <<loc, snd, corr, emitVars, lifecycle, envVars, port, ops, last>>

streamDied ==
  /\ pc[Mgr] = "loop" /\ SubClosed(s.run)
  /\ EndWith(IF RunDone(s.run) THEN "disconnect"
             ELSE IF s.reset = "yes" THEN "reconnect" ELSE "lost")
  /\ UNCHANGED <<s, loc, snd, corr, emitVars, lifecycle, envVars, port, ops, last>>

\* packetWorker receives a request that sendConfigRequest is offering on configCh.
takeRequest(p) ==
  /\ pc[Mgr] = "loop" /\ pc[p] = "offer" /\ loc[p].ch = s.run
  /\ m' = [m EXCEPT !.req = p, !.reset = IF loc[p].call = "reset" THEN "yes" ELSE "no"]
  /\ pc' = [pc EXCEPT ![Mgr] = "cfgPort", ![p] = "result"]
  /\ UNCHANGED <<s, ret, loc, snd, corr, emitVars, lifecycle, envVars, port, ops, last>>

\* resultCh has room for the result: who sent the request may have stopped waiting.
Answer(l) ==
  /\ pc' = [pc EXCEPT ![Mgr] = l, ![IF m.req = None THEN Mgr ELSE m.req] =
                        IF m.req = None THEN l ELSE "endOp"]
  /\ UNCHANGED ret

\* Wait for the port, then remember whether the request resets the receiver.
configPort ==
  /\ pc[Mgr] = "cfgPort"
  /\ \/ /\ RunDone(s.run) /\ Answer("endRun")
        /\ m' = [m EXCEPT !.req = None, !.verdict = "disconnect"]
        /\ UNCHANGED <<s, port>>
     \/ /\ port[s.run] = None /\ port' = [port EXCEPT ![s.run] = Mgr]
        /\ s' = [s EXCEPT !.reset = m.reset]
        /\ Goto(Mgr, "cfg") /\ UNCHANGED m
  /\ UNCHANGED <<loc, snd, corr, emitVars, lifecycle, envVars, ops, last>>

configDone ==
  /\ pc[Mgr] = "cfg"
  /\ port' = [port EXCEPT ![s.run] = None]
  /\ Answer("loop")
  /\ m' = [m EXCEPT !.req = None]
  /\ UNCHANGED <<s, loc, snd, corr, emitVars, lifecycle, envVars, ops, last>>

\* endRun after its wait: the broadcast and the transport are closed.
closeRun(x) == [x EXCEPT !.pipe = 0, !.conn = 0]

\* Variant: the send is not cancelled with the run.
endRun_KeepSend ==
  /\ pc[Mgr] = "endRun"
  /\ LET x == stopCorrLocked([s EXCEPT !.sendCancel = None, !.workerCancel = None,
                                        !.runCtx = "done"])
     IN  IF s.corrCancel = None
         THEN /\ s' = closeRun(x) /\ open' = open \ {s.conn}
              /\ Goto(Mgr, "verdict") /\ UNCHANGED m
         ELSE /\ s' = x /\ m' = [m EXCEPT !.wg = s.corrCancel]
              /\ Goto(Mgr, "endCorr") /\ UNCHANGED open
  /\ snd' = cancelWorkerLocked(snd)
  /\ corr' = CancelCorr(s.corrCancel)
  /\ UNCHANGED <<loc, emitVars, lifecycle, lost, opened, port, ops, last>>

endRun ==
  /\ pc[Mgr] = "endRun"
  /\ LET x == stopCorrLocked([s EXCEPT !.sendCancel = None, !.workerCancel = None,
                                        !.runCtx = "done"])
     IN  IF s.corrCancel = None
         THEN /\ s' = closeRun(x) /\ open' = open \ {s.conn}
              /\ Goto(Mgr, "verdict") /\ UNCHANGED m
         ELSE /\ s' = x /\ m' = [m EXCEPT !.wg = s.corrCancel]
              /\ Goto(Mgr, "endCorr") /\ UNCHANGED open
  /\ snd' = cancelWorkerLocked(cancelSend(snd))
  /\ corr' = CancelCorr(s.corrCancel)
  /\ UNCHANGED <<loc, emitVars, lifecycle, lost, opened, port, ops, last>>

endCorr ==
  /\ pc[Mgr] = "endCorr" /\ CorrDone(m.wg)
  /\ s' = closeRun([s EXCEPT !.corrStopping = "no"]) /\ open' = open \ {s.conn}
  /\ m' = [m EXCEPT !.wg = None]
  /\ Goto(Mgr, "verdict")
  /\ UNCHANGED <<loc, snd, corr, emitVars, lifecycle, lost, opened, port, ops, last>>

enterReconnect ==
  /\ pc[Mgr] = "verdict" /\ m.verdict = "reconnect"
  /\ IF s.state = "disconnected" \/ s.connCtx # "live"
     THEN Goto(Mgr, "idle") /\ m' = IdleManager /\ UNCHANGED s
     ELSE /\ s' = setStateLocked(s, "reconnecting") /\ EmitThen(Mgr, "reopen")
          /\ m' = IdleManager
  /\ UNCHANGED <<loc, snd, corr, emitVars, lifecycle, envVars, port, ops, last>>

\* One attempt of reopen.
reopen ==
  /\ pc[Mgr] = "reopen"
  /\ \/ /\ opened < MaxRuns
        /\ opened' = opened + 1 /\ open' = open \cup {opened + 1}
        /\ m' = [m EXCEPT !.conn = opened + 1, !.tries = 0] /\ Goto(Mgr, "install")
     \/ /\ IF m.tries + 1 = MaxReopenAttempts \/ s.connCtx = "done"
           THEN Goto(Mgr, "endConn") /\ m' = [m EXCEPT !.tries = 0]
           ELSE m' = [m EXCEPT !.tries = @ + 1] /\ UNCHANGED <<pc, ret>>
        /\ UNCHANGED <<open, opened>>
  /\ UNCHANGED <<s, loc, snd, corr, emitVars, lifecycle, lost, port, ops, last>>

endConn ==
  /\ \/ pc[Mgr] = "endConn"
     \/ pc[Mgr] = "verdict" /\ m.verdict \in {"lost", "probeFailed"}
  /\ LET x == [s EXCEPT !.connCtx = IF @ = "live" THEN "done" ELSE @]
     IN  s' = IF s.state = "disconnected" THEN x ELSE setStateLocked(x, "disconnected")
  /\ EmitThen(Mgr, "idle") /\ m' = IdleManager
  /\ UNCHANGED <<loc, snd, corr, emitVars, lifecycle, envVars, port, ops, last>>

managerReturn ==
  /\ pc[Mgr] = "verdict" /\ m.verdict = "disconnect"
  /\ Goto(Mgr, "idle") /\ m' = IdleManager
  /\ UNCHANGED <<s, loc, snd, corr, emitVars, lifecycle, envVars, port, ops, last>>

\* The transport of the current run dies: unplugged, or reset.
TransportLost ==
  /\ s.conn \in open \ lost
  /\ lost' = lost \cup {s.conn}
  /\ UNCHANGED <<s, pc, ret, loc, m, snd, corr, emitVars, lifecycle, open, opened, port, ops, last>>

-----------------------------------------------------------------------------
(* ReadConfig and ApplyConfig. *)

Idle(p) == pc[p] = "idle" /\ MayCall
CountOp == ops' = ops + 1

\* The calls that are refused because of the state change nothing and are left out.
beginConfig(p, call) ==
  /\ Idle(p) /\ s.state = "connected"
  /\ snd' = cancelWorkerLocked(snd)
  /\ s' = setStateLocked([s EXCEPT !.workerCancel = None], "configuring")
  /\ loc' = [loc EXCEPT ![p].call = call, ![p].run = s.run]
  /\ EmitThen(p, IF call = "noop" THEN "endOp" ELSE "request")
  /\ CountOp
  /\ UNCHANGED <<m, corr, emitVars, lifecycle, envVars, port, last>>

\* sendConfigRequest looks up configCh and runCtx afresh.
sendConfigRequest(p) ==
  /\ pc[p] = "request"
  /\ IF s.pipe = 0
     THEN Goto(p, "endOp") /\ UNCHANGED loc
     ELSE Goto(p, "offer") /\ loc' = [loc EXCEPT ![p].ch = s.pipe]
  /\ UNCHANGED <<s, m, snd, corr, emitVars, lifecycle, envVars, port, ops, last>>

\* The caller's context or the run's is done before the request is taken, or the
\* run's before the result is there.
giveUpRequest(p) ==
  /\ \/ pc[p] = "offer"
     \/ pc[p] = "result" /\ RunDone(loc[p].ch)
  /\ Goto(p, "endOp")
  /\ m' = [m EXCEPT !.req = IF @ = p THEN None ELSE @]
  /\ UNCHANGED <<s, loc, snd, corr, emitVars, lifecycle, envVars, port, ops, last>>

\* Variant: the end of an operation is not scoped to its run.
EndStateSet_AnyRun(r) == s.state \in {"connected", "configuring", "sending"}

\* setEndState(r, Connected), then go on at l.
EndStateSet(r) ==
  /\ s.run = r /\ s.state \in {"connected", "configuring", "sending"}
  /\ s.connCtx = "done" \/ s.runCtx = "live"
setEndState(a, r, l) ==
  IF EndStateSet(r)
  THEN /\ s' = setStateLocked(s, IF s.connCtx = "done" THEN "disconnected" ELSE "connected")
       /\ EmitThen(a, l)
  ELSE UNCHANGED s /\ Goto(a, l)

endConfig(p) ==
  /\ pc[p] = "endOp"
  /\ setEndState(p, loc[p].run, "idle")
  /\ loc' = [loc EXCEPT ![p] = IdleLocal]
  /\ UNCHANGED <<m, snd, corr, emitVars, lifecycle, envVars, port, ops, last>>

-----------------------------------------------------------------------------
(* SendMsgFile: the caller, the coordinator (pc[i]) and the worker of send i. *)

FreeSend(i) == pc[i] = "idle" /\ snd[i].worker = "off" /\ \A p \in Callers : loc[p].slot # i

\* The first critical section: capture the run, end what is left of an earlier send.
beginSend(p, i) ==
  /\ Idle(p) /\ FreeSend(i)
  /\ s.state = "connected" /\ ~RunDone(s.run)
  /\ snd' = [cancelWorkerLocked(cancelSend(snd)) EXCEPT ![i] = [IdleSend EXCEPT !.run = s.run]]
  /\ s' = [s EXCEPT !.workerCancel = None]
  /\ loc' = [loc EXCEPT ![p].call = "send", ![p].slot = i]
  /\ Goto(p, "gap") /\ CountOp
  /\ UNCHANGED <<m, corr, emitVars, lifecycle, envVars, port, last>>

\* There may be no message to send; otherwise the second critical section.
commitSend(p) ==
  LET i == loc[p].slot
  IN  /\ pc[p] = "gap"
      /\ \/ Return(p) /\ UNCHANGED s
         \/ /\ s.state = "connected" /\ ~RunDone(snd[i].run)
            /\ s' = setStateLocked([s EXCEPT !.sendCancel = i, !.workerCancel = i], "sending")
            /\ EmitThen(p, "spawn") /\ UNCHANGED loc
      /\ UNCHANGED <<m, snd, corr, emitVars, lifecycle, envVars, port, ops, last>>

\* The two goroutines are started after the event, without mu.
spawnSend(p) ==
  LET i == loc[p].slot
  IN  /\ pc[p] = "spawn"
      /\ snd' = [snd EXCEPT ![i].worker = "port", ![i].left = Msgs]
      /\ pc' = [pc EXCEPT ![p] = "idle", ![i] = "step"]
      /\ loc' = [loc EXCEPT ![p] = IdleLocal]
      /\ UNCHANGED <<s, ret, m, corr, emitVars, lifecycle, envVars, port, ops, last>>

CancelMsgSend(p) ==
  /\ Idle(p) /\ s.state = "sending"
  /\ snd' = cancelWorkerLocked(cancelSend(snd))
  /\ s' = [s EXCEPT !.workerCancel = None]
  /\ CountOp
  /\ UNCHANGED <<pc, ret, loc, m, corr, emitVars, lifecycle, envVars, port, last>>

\* The coordinator: hand a message to the worker, wait for its reply.
coordStep(i) ==
  /\ pc[i] = "step" /\ snd[i].worker = "loop"
  /\ snd' = [snd EXCEPT ![i].worker = "wait"]
  /\ Goto(i, "reply")
  /\ UNCHANGED <<s, loc, m, corr, emitVars, lifecycle, envVars, port, ops, last>>

coordReply(i) ==
  /\ pc[i] = "reply" /\ snd[i].reply # "none"
  /\ snd' = [snd EXCEPT ![i].reply = "none", ![i].left = @ - 1]
  /\ Goto(i, IF snd[i].reply = "ok" /\ snd[i].left > 1 THEN "step" ELSE "finish")
  /\ UNCHANGED <<s, loc, m, corr, emitVars, lifecycle, envVars, port, ops, last>>

coordCancelled(i) ==
  /\ pc[i] \in {"step", "reply"} /\ snd[i].sendCtx = "done"
  /\ Goto(i, "finish")
  /\ UNCHANGED <<s, loc, m, snd, corr, emitVars, lifecycle, envVars, port, ops, last>>

finishSend(i) ==
  /\ pc[i] = "finish"
  /\ s' = IF s.run = snd[i].run THEN [s EXCEPT !.sendCancel = None] ELSE s
  /\ Goto(i, "endOp")
  /\ UNCHANGED <<loc, m, snd, corr, emitVars, lifecycle, envVars, port, ops, last>>

endSend(i) ==
  /\ pc[i] = "endOp"
  /\ setEndState(i, snd[i].run, "idle")
  /\ UNCHANGED <<loc, m, snd, corr, emitVars, lifecycle, envVars, port, ops, last>>

workerPort(i) ==
  /\ snd[i].worker = "port"
  /\ \/ WorkerDone(i) /\ snd' = [snd EXCEPT ![i].worker = "off"] /\ UNCHANGED port
     \/ /\ port[snd[i].run] = None /\ port' = [port EXCEPT ![snd[i].run] = i]
        /\ snd' = [snd EXCEPT ![i].worker = "loop"]
  /\ UNCHANGED <<s, pc, ret, loc, m, corr, emitVars, lifecycle, envVars, ops, last>>

\* The write and workerWaitStep: the write may fail, the delay and the pacing end.
workerWaitStep(i) ==
  /\ snd[i].worker = "wait"
  /\ \E r \in {"ok", "err"} : snd' = [snd EXCEPT ![i].worker = "loop", ![i].reply = r]
  /\ UNCHANGED <<s, pc, ret, loc, m, corr, emitVars, lifecycle, envVars, port, ops, last>>

\* The worker returns the port however it ends; once stepCh is closed, when the
\* responses are complete or their time is up.
StepChClosed(i) == pc[i] \notin {"step", "reply"}

workerExit(i) ==
  /\ snd[i].worker = "loop"
  /\ SubClosed(snd[i].run) \/ WorkerDone(i) \/ StepChClosed(i)
  /\ snd' = [snd EXCEPT ![i].worker = "off"]
  /\ port' = [port EXCEPT ![snd[i].run] = None]
  /\ UNCHANGED <<s, pc, ret, loc, m, corr, emitVars, lifecycle, envVars, ops, last>>

-----------------------------------------------------------------------------
(* StartCorrections and StopCorrections. *)

CanStart == s.state = "connected" /\ ~RunDone(s.run)

\* Start session k on the run that is current, under the same lock.
startSession(x, k) ==
  /\ s' = [x EXCEPT !.corrCancel = k, !.corrState = "active"]
  /\ corr' = [corr EXCEPT ![k] = [pc |-> "run", ctx |-> "live", run |-> s.run,
                                left |-> MaxWrites]]

\* stopCorrLocked waits without mu when there is a session to stop.
StopAndWait(p, l) ==
  /\ s' = stopCorrLocked(s) /\ corr' = CancelCorr(s.corrCancel)
  /\ loc' = [loc EXCEPT ![p].call = "corr", ![p].wg = s.corrCancel]
  /\ Goto(p, l)

StartCorrections(p) ==
  /\ Idle(p) /\ CanStart /\ s.corrStopping = "no"
  /\ IF s.corrCancel = None
     THEN (\E k \in Corrs : CorrDone(k) /\ startSession(s, k)) /\ UNCHANGED <<pc, ret, loc>>
     ELSE StopAndWait(p, "restart")
  /\ CountOp
  /\ UNCHANGED <<m, snd, emitVars, lifecycle, envVars, port, last>>

\* Variant: does not wait for the old session.
restart_Early(p) ==
  LET x == [s EXCEPT !.corrStopping = "no"]
  IN  /\ pc[p] = "restart"
      /\ IF CanStart THEN \E k \in Corrs : CorrDone(k) /\ startSession(x, k)
                     ELSE s' = x /\ UNCHANGED corr
      /\ Return(p)
      /\ UNCHANGED <<m, snd, emitVars, lifecycle, envVars, port, ops, last>>

\* The old session is gone; the connection may be gone too.
restart(p) ==
  LET x == [s EXCEPT !.corrStopping = "no"]
  IN  /\ pc[p] = "restart" /\ CorrDone(loc[p].wg)
      /\ IF CanStart THEN \E k \in Corrs : CorrDone(k) /\ startSession(x, k)
                     ELSE s' = x /\ UNCHANGED corr
      /\ Return(p)
      /\ UNCHANGED <<m, snd, emitVars, lifecycle, envVars, port, ops, last>>

StopCorrections(p) ==
  /\ Idle(p) /\ s.corrStopping = "no"
  /\ IF s.corrCancel = None THEN s' = stopCorrLocked(s) /\ UNCHANGED <<pc, ret, loc, corr>>
                            ELSE StopAndWait(p, "stopWait")
  /\ CountOp
  /\ UNCHANGED <<m, snd, emitVars, lifecycle, envVars, port, last>>

stopWait(p) ==
  /\ pc[p] = "stopWait" /\ CorrDone(loc[p].wg)
  /\ s' = [s EXCEPT !.corrStopping = "no"]
  /\ Return(p)
  /\ UNCHANGED <<m, snd, corr, emitVars, lifecycle, envVars, port, ops, last>>

\* The goroutines of a session: write a packet to the receiver, report a state,
\* and end on their own or because they are told to.
corrWrite(k) ==
  /\ corr[k].pc = "run" /\ corr[k].left > 0 /\ port[corr[k].run] = None
  /\ port' = [port EXCEPT ![corr[k].run] = k]
  /\ corr' = [corr EXCEPT ![k].pc = "write", ![k].left = @ - 1]
  /\ UNCHANGED <<s, pc, ret, loc, m, snd, emitVars, lifecycle, envVars, ops, last>>

corrWritten(k) ==
  /\ corr[k].pc = "write"
  /\ port' = [port EXCEPT ![corr[k].run] = None]
  /\ corr' = [corr EXCEPT ![k].pc = "run"]
  /\ UNCHANGED <<s, pc, ret, loc, m, snd, emitVars, lifecycle, envVars, ops, last>>

corrReport(k) ==
  /\ corr[k].pc = "run" /\ s.corrState = "stopped"
  /\ s' = [s EXCEPT !.corrState = "active"]
  /\ UNCHANGED <<pc, ret, loc, m, snd, corr, emitVars, lifecycle, envVars, port, ops, last>>

CorrCancelled(k) == corr[k].ctx = "done" \/ RunDone(corr[k].run)

corrExit(k) ==
  /\ corr[k].pc = "run"
  /\ \/ CorrCancelled(k) /\ s' = [s EXCEPT !.corrState = "stopped"]
     \/ s' = [s EXCEPT !.corrState = "failed"]
  /\ corr' = [corr EXCEPT ![k] = IdleCorr]
  /\ UNCHANGED <<pc, ret, loc, m, snd, emitVars, lifecycle, envVars, port, ops, last>>

-----------------------------------------------------------------------------
LifecycleStep(p) ==
  \/ beginLifecycle(p) \/ closeCorr(p) \/ closeWait(p) \/ Open(p) \/ handover(p)
ConfigStep(p) == sendConfigRequest(p) \/ giveUpRequest(p) \/ endConfig(p)
ManagerStep ==
  \/ runConn \/ probePort \/ probe \/ probeDone \/ streamDied \/ configPort \/ configDone
  \/ endRun \/ endCorr \/ enterReconnect \/ reopen \/ endConn \/ managerReturn
  \/ \E p \in Callers : takeRequest(p)
CoordStep(i) == coordStep(i) \/ coordReply(i) \/ coordCancelled(i) \/ finishSend(i) \/ endSend(i)
WorkerStep(i) == workerPort(i) \/ workerWaitStep(i) \/ workerExit(i)
CorrStep(k) == corrWrite(k) \/ corrWritten(k) \/ corrReport(k) \/ corrExit(k)

Call(p) ==
  \/ \E c \in {"connect", "disconnect"} : reserveLifecycle(p, c)
  \/ \E c \in {"config", "reset", "noop"} : beginConfig(p, c)
  \/ \E i \in Sends : beginSend(p, i)
  \/ CancelMsgSend(p) \/ StartCorrections(p) \/ StopCorrections(p)

Next ==
  \/ \E p \in Callers : \/ Call(p) \/ LifecycleStep(p) \/ ConfigStep(p)
                        \/ commitSend(p) \/ spawnSend(p) \/ restart(p) \/ stopWait(p)
  \/ \E i \in Sends : CoordStep(i) \/ WorkerStep(i)
  \/ \E k \in Corrs : CorrStep(k)
  \/ \E a \in Actors : emitStateChange(a) \/ publish(a)
  \/ ManagerStep \/ TransportLost

\* What goes on by itself: everything but the calls of the shell, the loss of the
\* transport, and a caller's context that is done.
Progress ==
  \/ \E p \in Callers : \/ LifecycleStep(p) \/ sendConfigRequest(p) \/ endConfig(p)
                        \/ commitSend(p) \/ spawnSend(p) \/ restart(p) \/ stopWait(p)
                        \/ RunDone(loc[p].ch) /\ giveUpRequest(p)
  \/ \E i \in Sends : CoordStep(i) \/ WorkerStep(i)
  \/ \E k \in Corrs : corrWritten(k) \/ (CorrCancelled(k) /\ corrExit(k))
  \/ \E a \in Actors : emitStateChange(a) \/ publish(a)
  \/ ManagerStep

\* A goroutine that can go on does.  No step repeats for ever here, so that this is
\* all it takes: the scheduler stops only when nothing can run.
Fairness == WF_vars(Progress)

Spec == Init /\ [][Next]_vars /\ Fairness

-----------------------------------------------------------------------------
(* Properties. *)

LifecyclePC == {"lock", "closeCorr", "closeWait", "open", "handover"}
InLifecycle(p) == pc[p] \in LifecyclePC \/ (pc[p] \in {"emit", "publish"} /\ ret[p] = "open")

\* "The last Connect or Disconnect wins": once every lifecycle call is through,
\* nothing of a superseded one is left.  After a final Disconnect the session is
\* disconnected, without manager and with every transport closed, those included
\* that a superseded Connect opened late or a reconnect opened while it was being
\* closed; and whenever the manager is gone, whatever the last call was.
LastCallWins ==
  (\A p \in Callers : ~InLifecycle(p)) =>
     /\ last = "disconnect" => pc[Mgr] = "idle"
     /\ pc[Mgr] = "idle" => s.state = "disconnected" /\ open = {}

\* "The last event consumers see always matches the final state even when
\* transitions race": with nobody inside a call or an operation, the state the
\* sink was given last is the state.
LastEventIsState ==
  ((\A a \in Callers \cup Sends : pc[a] = "idle") /\ pc[Mgr] \in {"idle", "loop"})
    => published = s.state

OpPC == {"request", "offer", "result", "endOp", "spawn", "step", "reply", "finish"}
At(a) == IF pc[a] \in {"emit", "publish"} THEN ret[a] ELSE pc[a]
OpRun(a) == IF a \in Sends THEN snd[a].run
            ELSE IF loc[a].slot # None THEN snd[loc[a].slot].run ELSE loc[a].run
OpState(a) == IF a \in Sends \/ loc[a].slot # None THEN "sending" ELSE "configuring"
Operating(a) == At(a) \in OpPC /\ ~RunDone(OpRun(a))

\* Operations on a run are mutually exclusive, and "operation completion is scoped
\* to the pipeline run where it started": while an operation is under way on a
\* run that lives, the state says so.  No operation that began on an earlier run,
\* and none of the same run, has ended it under its feet.
OperationHoldsState ==
  \A a \in Callers \cup Sends : Operating(a) =>
     /\ s.state = OpState(a)
     /\ \A b \in (Callers \cup Sends) \ {a} : ~Operating(b)

\* The port of a run is held by a goroutine that will give it back, whichever way
\* probe, configuration, send or correction write ended.
PortHeldByLiving ==
  \A r \in Runs : port[r] # None =>
     \/ port[r] = Mgr /\ pc[Mgr] \in {"probe", "cfg"} /\ s.run = r
     \/ \E i \in Sends : port[r] = i /\ snd[i].worker \in {"loop", "wait"} /\ snd[i].run = r
     \/ \E k \in Corrs : port[r] = k /\ corr[k].pc = "write" /\ corr[k].run = r

\* Operations are exclusive, by the state and on the port, and the state is of its type.
OperationsExclusive == TypeOK /\ OperationHoldsState /\ PortHeldByLiving

\* "At most one correction session exists at a time", and one that is not being
\* stopped writes to the transport that is current.
OneCorrection ==
  /\ \A k, j \in Corrs : corr[k].pc # "off" /\ corr[j].pc # "off" => k = j
  /\ \A k \in Corrs : corr[k].pc # "off" /\ ~CorrCancelled(k) =>
        s.corrCancel = k /\ corr[k].run = s.conn

\* The corrections state that late joiners are shown: never "active" once the
\* goroutines are gone, never "stopped" while a session runs that nobody stops.
CorrStateTrue ==
  /\ (\A k \in Corrs : corr[k].pc = "off") => s.corrState # "active"
  /\ (\E k \in Corrs : corr[k].pc # "off" /\ ~CorrCancelled(k)) => s.corrState = "active"

\* There is one correction session and it is the one that is shown, although
\* stopping, replacing and the end of the run all let go of mu while they wait for it.
CorrectionsExclusive == OneCorrection /\ CorrStateTrue

\* Every call returns and the transitional states are left: Disconnect although it
\* waits for goroutines that take mu and for corrections, a configuration or a send
\* although its run dies under it or is cancelled; the session is never stuck
\* connecting, reconnecting, configuring or sending.  (The calls are bounded, so
\* that they all come to an end.)
Settles ==
  <>[](/\ \A p \in Callers : pc[p] = "idle"
       /\ s.state \in {"connected", "disconnected"}
       /\ \A i \in Sends : pc[i] = "idle" /\ snd[i].worker = "off")

\* Disconnect "waits for the connection goroutines to exit": when the last
\* lifecycle call was Disconnect and is through, no goroutine of a send runs.
DisconnectWaits ==
  last = "disconnect" /\ (\A p \in Callers : ~InLifecycle(p)) => ConnWg = {}
=============================================================================
