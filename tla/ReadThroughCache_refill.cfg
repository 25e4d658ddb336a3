\* A fetch that began before a change is stored after its invalidation.
SPECIFICATION SafeSpec
CONSTANTS
  r1 = r1
  r2 = r2
  w1 = w1
  w2 = w2
  Readers <- MCReaders
  Writers <- MCWriters
  Uncovered = {}
  NoReader = NoReader
  TTL = 2
  LockTTL = 2
  MaxFetch = 1
  MaxFaults = 0
INVARIANT InvalidationClears
