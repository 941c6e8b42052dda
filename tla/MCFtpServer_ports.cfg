\* Two sessions, each within its range of ports and no wrap of the counter.
SPECIFICATION Spec
CONSTANTS
  s1 = s1
  s2 = s2
  Sessions = {s1, s2}
  g_accounts <- MCOneAccount
  Usernames = {"u"}
  Passwords = {"p"}
  DefaultRoot = "/tmp"
  Directories <- MCFlatDirs
  Entries <- MCFlatEntries
  CwdArgs = {}
  PortLo = 255
  CounterHi = 257
  PasvHi = 259
  Stride = 2
  Backlog = 1
  MaxNames = 0
  MaxPasv = 2
  MaxChunks = 0
INVARIANTS PortInv OwnData
CHECK_DEADLOCK FALSE
SYMMETRY Perms
