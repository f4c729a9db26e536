\* Two callers, one of them in a Connect or Disconnect and the other in an operation,
\* or both in either; one loss of the transport and the reconnect after it.
CONSTANTS
  Callers = {c1, c2}
  Sends = {t1}
  Corrs = {k1, k2}
  None = None
  Msgs = 1
  MaxWrites = 1
  MaxReopenAttempts = 2
  MaxCalls = 3
  MaxRuns = 2
SPECIFICATION Spec
INVARIANTS LastCallWins LastEventIsState OperationsExclusive CorrectionsExclusive
PROPERTIES Settles
\* The calls are bounded, and in the end nobody calls.
CHECK_DEADLOCK FALSE
