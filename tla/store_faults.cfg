\* The store facade with every round trip allowed to fail, twice in all:
\* a call that returned 0 took effect, and a benchmark that returned 0 made every name.
CONSTANTS
  Names = {n1, n2}
  LongNames = {}
  MaxFds = 3
  MaxSlots = 3
  MaxFaults = 2
  FailingCalls = {"nn", "write", "read"}
  BenchLoop = 2
  n1 = n1
  n2 = n2
SPECIFICATION Spec
INVARIANT TypeOK
INVARIANT SuccessMeansApplied
INVARIANT BenchmarkReachedAll
