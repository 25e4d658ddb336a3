\* The worker dies once, one query rejects, or its answer is lost: each of the
\* three fails (-continue reports them all).
SPECIFICATION SafeSpec
CONSTANTS
  s1 = s1
  s2 = s2
  NoSlot = NoSlot
  Slots <- MCSlots
  FaultKinds = {"answer", "crash", "query"}
  MaxFaults = 1
  OutboxMaxAttempts = 5
  JobAttempts = 2
  MaxStalls = 1
PROPERTIES CompletedIsFinal ClaimMissIsHandled
INVARIANT TerminalIsPersisted
\* A run that has ended is the end of the flow.
CHECK_DEADLOCK FALSE
