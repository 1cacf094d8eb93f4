\* The store facade with no failures and short names: Enumerate lists
\* exactly the enumerable children the namenode holds.  Three names and
\* four slots let a tombstone sit between live records and a name be
\* created again in a fresh slot.
CONSTANTS
  Names = {n1, n2, n3}
  LongNames = {}
  MaxFds = 4
  MaxSlots = 4
  MaxFaults = 0
  FailingCalls = {}
  BenchLoop = 2
  n1 = n1
  n2 = n2
  n3 = n3
SPECIFICATION Spec
INVARIANT ListingMatches
