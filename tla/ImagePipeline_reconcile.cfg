\* A mark that fails, then a relay that gives up.
SPECIFICATION SafeSpec
CONSTANTS
  c1 = c1
  c2 = c2
  Confirms <- MCConfirms1
  MaxPuts = 1
  MaxFaults = 2
  OutboxMaxAttempts = 2
  JobAttempts = 2
  MaxStalls = 1
PROPERTY ReconcileOnlyUndelivered
\* A settled upload is the end of the pipeline.
CHECK_DEADLOCK FALSE
