\* Two readers at a time, two writers, one of which does not invalidate the key.
SPECIFICATION Spec
CONSTANTS
  r1 = r1
  r2 = r2
  w1 = w1
  w2 = w2
  Readers <- MCReaders
  Writers <- MCWriters
  Uncovered <- MCUncovered
  NoReader = NoReader
  TTL = 2
  LockTTL = 2
  MaxFetch = 1
  MaxFaults = 1
INVARIANTS Consistent LockExclusive
PROPERTIES BoundedStaleness EveryRequestEnds FreshAtLast
