\* A client of a service for one protocol, which writes once, and the correction stream.
CONSTANTS
  Conns = {a}
  Tagged = {a}
  ReadOnly = {}
  MaxAge = 0
  MaxTime = 1
  MaxPackets = 3
  MaxWrites = 1
SPECIFICATION Spec
INVARIANTS DropsOnlyOld PortConserved
PROPERTIES NobodyStuck
\* Everything may be over.
CHECK_DEADLOCK FALSE
