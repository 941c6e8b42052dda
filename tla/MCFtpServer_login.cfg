\* One session, two accounts: logins, re-logins, directories, transfers.
SPECIFICATION Spec
CONSTANTS
  Sessions = {s1}
  g_accounts <- MCAccounts
  Usernames = {"u", "w", "x"}
  Passwords = {"p", "q"}
  DefaultRoot = "/tmp"
  Directories <- MCDirs
  Entries <- MCEntries
  CwdArgs <- MCCwdArgs
  PortLo = 255
  CounterHi = 255
  PasvHi = 256
  Stride = 2
  Backlog = 1
  MaxNames = 3
  MaxPasv = 2
  MaxChunks = 1
INVARIANTS TypeOK SessionIdentity DescriptorsReleased
CHECK_DEADLOCK FALSE
