\* A reply is swallowed by the recv of the one before.
SPECIFICATION DSpec
CONSTANTS
  s1 = s1
  Sessions = {s1}
  g_accounts <- MCAccounts
  Usernames = {"u"}
  Passwords = {"p"}
  DefaultRoot = "/tmp"
  Directories <- MCDirs
  Entries <- MCEntries
  CwdArgs <- MCCwdArgs
  PortLo = 255
  CounterHi = 257
  PasvHi = 259
  Stride = 2
  Backlog = 1
  MaxNames = 1
  MaxPasv = 2
  MaxChunks = 0
  Coalesces = TRUE
  LocalFails = FALSE
  MaxUnread = 1
INVARIANT NoMutualWait
CHECK_DEADLOCK FALSE
