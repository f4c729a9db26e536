\* One type of MSM, in epochs of one packet or more.
CONSTANTS
  Alphabet <- MCAlphabet
  QueueMax = 2
  MaxPackets = 5
  MaxFailures = 1
SPECIFICATION Spec
INVARIANTS Consistent LossJustified
PROPERTIES Finishes
\* Run may have returned.
CHECK_DEADLOCK FALSE
