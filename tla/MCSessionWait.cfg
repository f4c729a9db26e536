\* A send is being started while the session is disconnected.
CONSTANTS
  Callers = {c1, c2}
  Sends = {t1}
  Corrs = {k1, k2}
  None = None
  Msgs = 1
  MaxWrites = 1
  MaxReopenAttempts = 2
  MaxCalls = 3
  MaxRuns = 2
SPECIFICATION Spec
INVARIANTS DisconnectWaits
\* As in MCSession.cfg, the calls are bounded.
CHECK_DEADLOCK FALSE
