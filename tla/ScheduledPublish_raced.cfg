\* A cancellation that runs after a later request has scheduled again, and two
\* overlapping updates, one of them deciding from a stale row: both properties
\* fail (-continue reports both).
SPECIFICATION SafeSpec
CONSTANTS
  r1 = r1
  r2 = r2
  r3 = r3
  NoRequest = NoRequest
  Requests <- MCRequests3
  Bodies = {"draft", "scheduled", "published"}
  MaxTime = 2
  MaxSchedules = 2
  MaxInFlight = 2
  MaxFaults = 0
  OutboxMaxAttempts = 2
  BatchSize = 2
  JobAttempts = 2
  MaxStalls = 1
  Skew = 0
INVARIANT PublishedIsVisible
PROPERTY CancelSparesSchedules
\* Requests and time are bounded: when they are used up, the system is done.
CHECK_DEADLOCK FALSE
