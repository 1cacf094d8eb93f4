\* The set-file-size call of Close may fail.
CONSTANTS
  kBlockSize = 4
  kBufferSize = 8
  FileSize = 12
  Datanodes <- DistinctHosts
  MaxFaults = 1
  CloseMayFail = TRUE
  Drivers = {"PutFile"}
  WriteLoop = 2
SPECIFICATION Spec
INVARIANT DoneMeansCapacityRecorded
CHECK_DEADLOCK FALSE
