\* Two confirmations, two PUTs, four faults: as many as three attempts, and one more.
SPECIFICATION Spec
CONSTANTS
  c1 = c1
  c2 = c2
  Confirms <- MCConfirms2
  MaxPuts = 2
  MaxFaults = 4
  OutboxMaxAttempts = 3
  JobAttempts = 3
  MaxStalls = 1
INVARIANTS Consistent NeverStranded
PROPERTIES LifecycleSafety SettlesDespiteOneFault EndsOnRecord
\* An upload that is settled is the end of the flow.
CHECK_DEADLOCK FALSE
