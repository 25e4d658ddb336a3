\* One kind of work per behaviour: the parts share only the process. Batches of two
\* events and of one row, so that more than one batch is needed.
SPECIFICATION Spec
CONSTANTS
  Loads = {{"relay"}, {"telegram"}, {"retention"}}
  MaxEvents = 3
  BatchSize = 2
  OutboxMaxAttempts = 3
  Notifications = {1, 2}
  Concurrency = 1
  JobAttempts = 2
  DlqAttempts = 2
  MaxFaults = 3
  CleanupBatch = 1
  MaxOld = 2
INVARIANTS Consistent Cleaned DeadLettered
PROPERTIES DoneIsDone ValidIsPublished NotificationEnds Forgotten
\* A behaviour without work comes to rest.
CHECK_DEADLOCK FALSE
