\* Two storage servers on host 1, ports 1 and 2, both below kBlockSize as
\* real ports are below 65536.
CONSTANTS
  kBlockSize = 4
  kBufferSize = 8
  FileSize = 12
  Datanodes <- SameHost
  MaxFaults = 1
  CloseMayFail = FALSE
  Drivers = {"PutFile"}
  WriteLoop = 2
SPECIFICATION Spec
INVARIANT WritesLandInAssignedBlock
CHECK_DEADLOCK FALSE
