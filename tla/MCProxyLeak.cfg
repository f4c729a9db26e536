\* A client that writes or hangs up while the receiver is silent.
CONSTANTS
  Conns = {a}
  Tagged = {a}
  ReadOnly = {}
  MaxAge = 0
  MaxTime = 1
  MaxPackets = 1
  MaxWrites = 1
SPECIFICATION Spec
PROPERTIES OtherReturns
\* Everything may be over.
CHECK_DEADLOCK FALSE
