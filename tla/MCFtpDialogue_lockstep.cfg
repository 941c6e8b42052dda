\* Two clients, one message per recv, local files open.
SPECIFICATION DSpec
CONSTANTS
  s1 = s1
  s2 = s2
  Sessions = {s1, s2}
  g_accounts <- MCAccounts
  Usernames = {"u"}
  Passwords = {"p"}
  DefaultRoot = "/tmp"
  Directories <- MCDirs
  Entries <- MCEntries
  CwdArgs <- MCCwdArgs
  PortLo = 255
  CounterHi = 257
  PasvHi = 259
  Stride = 1
  Backlog = 1
  MaxNames = 1
  MaxPasv = 1
  MaxChunks = 1
  Coalesces = FALSE
  LocalFails = FALSE
  MaxUnread = 1
INVARIANTS DTypeOK PromptIsQuiet NoMutualWait
PROPERTIES ExchangeSpec ServerSpec
SYMMETRY Perms
CHECK_DEADLOCK FALSE
