\* Two clients that give two lines between them.
CONSTANTS
  c1 = c1
  c2 = c2
  Clients = {c1, c2}
  Descriptors = {4, 5}
  MAX_CLIENTS = 2
  Room = 1
  Endings = {"fin"}
  Speakers = {c1, c2}
  MaxSends = 2
  Endless = {c1}
SPECIFICATION ExecFairSpec
INVARIANTS ExecTypeOK LogWhole
PROPERTIES LogTurnComes ExecCtrlCStops ExitIsSeen
CHECK_DEADLOCK FALSE
