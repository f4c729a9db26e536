\* nmeaSendInterval = 0: a position is sent once for each connection.
CONSTANTS
  Alphabet <- MCAlphabet
  Modes = {"gga"}
  Resends = FALSE
  maxGGASendTimeouts = 1
  QueueMax = 2
  MaxPackets <- MCMaxPackets
  MaxConns = 2
SPECIFICATION Spec
PROPERTIES PositionSent
\* Run may have returned.
CHECK_DEADLOCK FALSE
