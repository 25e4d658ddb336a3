\* Both slots, every kind of fault, four of them, anywhere.
SPECIFICATION Spec
CONSTANTS
  s1 = s1
  s2 = s2
  NoSlot = NoSlot
  Slots <- MCSlots
  FaultKinds = {"relay", "query", "answer", "crash", "lock"}
  MaxFaults = 4
  OutboxMaxAttempts = 2
  JobAttempts = 2
  MaxStalls = 1
INVARIANTS Consistent QueuedIsCarried
PROPERTIES LifecycleSafety RunEnds
\* A run that has ended is the end of the flow.
CHECK_DEADLOCK FALSE
