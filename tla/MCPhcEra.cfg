\* A step during a session with two pulses besides the one left over from before,
\* and a loss of carrier or of netlink.
CONSTANTS
  MaxPulses = 2
  MaxSteps = 1
  MaxLosses = 1
SPECIFICATION Spec
INVARIANTS TypeOK EraSound
PROPERTIES StaleUnseen WorkerLives
\* Worker and dispatcher end; that neither waits for ever is WorkerLives.
CHECK_DEADLOCK FALSE
