\* Three connections, which may all be in the room at once.
SPECIFICATION Spec
CONSTANTS
  c1 = c1
  c2 = c2
  c3 = c3
  Clients = {c1, c2, c3}
  Descriptors = {4, 5, 6}
  MAX_CLIENTS = 3
  Room = 1
  Endings = {"err"}
  Speakers = {c1, c2, c3}
  MaxSends = 2
INVARIANTS RegistryExact
PROPERTIES AtomicSpec
SYMMETRY Perms
CHECK_DEADLOCK FALSE
