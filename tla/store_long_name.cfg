\* A record longer than a 512-byte slot runs into the next slot.
CONSTANTS
  Names = {n1, n2}
  LongNames = {n1}
  MaxFds = 3
  MaxSlots = 3
  MaxFaults = 0
  FailingCalls = {}
  BenchLoop = 2
  n1 = n1
  n2 = n2
SPECIFICATION Spec
INVARIANT ListingMatches
