\* A unit is 1/6 s.
CONSTANTS
  Second = 6
  Receivers <- MCReceivers
  ReadWindow = 3
  PulseWindow = 2
  MinDelta = 4
  MaxSeconds = 6
  MaxFaults = 2
SPECIFICATION BufferSpec
INVARIANTS BufferExact LabelsRight LeapExact CorrectionFound
PROPERTY UtcOncePerEpoch
\* The receiver may have sent everything.
CHECK_DEADLOCK FALSE
