\* Two connects; one message type of MSM; one timeout is tolerated.
CONSTANTS
  Alphabet <- MCAlphabet
  Modes = {"plain", "gga"}
  Resends = TRUE
  maxGGASendTimeouts = 1
  QueueMax = 2
  MaxPackets <- MCMaxPackets
  MaxConns = 2
SPECIFICATION Spec
INVARIANTS CorrectionsRight StallsTolerated NothingLeft
PROPERTIES Finishes PositionSent
\* Run may have returned.
CHECK_DEADLOCK FALSE
