\* Files of 1 to 5 blocks, two faults of the network, two copies of a packet.
CONSTANTS
  MaxShort = 3
  MaxFull = 4
  MaxFaults = 2
  MaxCopies = 2
SPECIFICATION FairSpec
INVARIANTS InStep LongNeverComplete
PROPERTIES TransferSpec DownloadEnds UploadEnds
CHECK_DEADLOCK FALSE
