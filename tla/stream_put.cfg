\* A 12-byte file over 4-byte blocks on two hosts.  PutFile's buffer holds
\* two blocks, as kBufferSize holds eight in the build (512 KiB over 64 KiB),
\* so each full buffer is cut at block boundaries and the last is partial.
\* Write's 6-byte buffer and PutKey's 12-byte one start and end inside
\* blocks.  Two round trips may fail, and so may the final set-file-size.
CONSTANTS
  kBlockSize = 4
  kBufferSize = 8
  FileSize = 12
  Datanodes <- DistinctHosts
  MaxFaults = 2
  CloseMayFail = TRUE
  Drivers = {"PutFile", "WriteFile", "PutKey", "Write"}
  WriteLoop = 2
SPECIFICATION Spec
INVARIANT TypeOK
INVARIANT WritesLandInAssignedBlock
INVARIANT DoneMeansDataPlaced
PROPERTY RefinesAppendOnlyFile
PROPERTY PutFileTerminates
\* PutFile returns: the loop ends in "done" or "failed".
CHECK_DEADLOCK FALSE
