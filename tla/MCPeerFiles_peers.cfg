\* A file of two pieces, two names, room for both peers.
CONSTANTS
  a = a
  b = b
  Peers = {a, b}
  Names = {"n1", "n2"}
  Drawn <- MCDrawn
  Quitters = {a}
  Size = 2
  MAX_CLIENTS = 2
  MaxCommands = 2
SPECIFICATION FairSpec
INVARIANTS TypeOK RightTransfer SavedWhole
PROPERTIES ListIsFresh CommandsReturn ReceiverReturns
CHECK_DEADLOCK FALSE
