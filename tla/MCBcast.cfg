\* Two subscribers, one of which lags while the other is served, and enough
\* messages for q to be trimmed with entries left in it.  No symmetry, because
\* liveness is checked too.
CONSTANTS
  Chans = {c1, c2}
  MaxMsgs = 3
SPECIFICATION Spec
INVARIANTS NoPanic GapFree QueueBounded
PROPERTIES ImplementsBcastAbs NobodyWaitsForEver
\* Everyone may be done; a caller that is stuck is what NobodyWaitsForEver rules out.
CHECK_DEADLOCK FALSE
