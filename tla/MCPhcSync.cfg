\* A unit is 0.05 s.  The longest correction timeout that the configuration allows; windows
\* as small as it allows, and enough faults to fill them.
SPECIFICATION Spec
INVARIANTS Consistent SyncWithdrawn
PROPERTIES PulsesAccounted ConvergedStable Relocks
CONSTANTS
  Second = 20
  TickInterval = 5
  SampleIntervalMax = 30
  PulseCorrectionTimeout = 14
  Phases = {1, 3, 5}
  PulseWindow = 3
  MedianWindow = 3
  StableWindow = 2
  BadSampleLimit = 2
  BadSampleRunLimit = 2
  BadSampleWindow = 4
  BadSampleRatioLimit = 50
  MADWindow = 3
  MADMinSamples = 3
  OutlierRatioLimit = 30
  MaxMedian = 1
  MaxFaults = 5
  MaxBadPhases = 1
  MaxStepFailures = 1
