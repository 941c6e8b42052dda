\* Three connections that are always read, and a room for two.
SPECIFICATION ReadersSpec
CONSTANTS
  c1 = c1
  c2 = c2
  c3 = c3
  Clients = {c1, c2, c3}
  Descriptors = {4, 5, 6}
  MAX_CLIENTS = 2
  Room = 1
  Endings = {"fin"}
  Speakers = {c1}
  MaxSends = 2
PROPERTIES CtrlCStops LeaversForgotten
CHECK_DEADLOCK FALSE
