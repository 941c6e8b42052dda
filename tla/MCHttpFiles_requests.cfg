\* A file of 3 pieces, read by np20 two at a time, and one edit.
CONSTANTS
  r1 = r1
  r2 = r2
  Requests = {r1, r2}
  Pieces <- MCPieces
  Stored = 3
  Block = 2
  MaxEdits = 1
SPECIFICATION FairSpec
INVARIANTS WholeDownload TornIsReported
PROPERTIES RequestsEnd
CHECK_DEADLOCK FALSE
