\* What a document says of the dead-letter queue, and what retention would need:
\* TLC refutes both (-continue reports the invariant and goes on).
SPECIFICATION Spec
CONSTANTS
  Loads = {{"telegram"}, {"retention"}}
  MaxEvents = 1
  BatchSize = 1
  OutboxMaxAttempts = 2
  Notifications = {1}
  Concurrency = 1
  JobAttempts = 2
  DlqAttempts = 2
  MaxFaults = 1
  CleanupBatch = 1
  MaxOld = 1
INVARIANT HoldsAllFailed
PROPERTY ForgottenAnyway
\* A behaviour without work comes to rest.
CHECK_DEADLOCK FALSE
