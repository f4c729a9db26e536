\* Two leap second states; enough changes to leave and re-enter tracking while
\* requests are delayed and fail.
CONSTANTS
  Leaps = {noleap, leap61}
  MaxChanges = 6
  MaxFailures = 3
SPECIFICATION Spec
INVARIANTS OneInFlight ConfirmedInEffect NoSyncAtExit
PROPERTIES SentIsCurrent Settles
\* The daemon ends; a dispatcher that waits for ever in Close is what Settles rules out.
CHECK_DEADLOCK FALSE
