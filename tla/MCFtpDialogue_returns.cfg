\* One client, one message per recv, local files open: liveness.
SPECIFICATION FairDSpec
CONSTANTS
  s1 = s1
  Sessions = {s1}
  g_accounts <- MCAccounts
  Usernames = {"u"}
  Passwords = {"p", "q"}
  DefaultRoot = "/tmp"
  Directories <- MCDirs
  Entries <- MCEntries
  CwdArgs <- MCCwdUp
  PortLo = 255
  CounterHi = 257
  PasvHi = 259
  Stride = 2
  Backlog = 1
  MaxNames = 2
  MaxPasv = 2
  MaxChunks = 1
  Coalesces = FALSE
  LocalFails = FALSE
  MaxUnread = 1
PROPERTIES CommandReturns SessionEnds
CHECK_DEADLOCK FALSE
