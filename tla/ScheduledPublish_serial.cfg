\* One request at a time, up to two schedulings, one failure anywhere.
SPECIFICATION OrderedSpec
CONSTANTS
  r1 = r1
  r2 = r2
  r3 = r3
  NoRequest = NoRequest
  Requests <- MCRequests3
  Bodies = {"draft", "scheduled", "published"}
  MaxTime = 2
  MaxSchedules = 2
  MaxInFlight = 1
  MaxFaults = 1
  OutboxMaxAttempts = 5
  BatchSize = 2
  JobAttempts = 2
  MaxStalls = 1
  Skew = 0
INVARIANT PublishedIsVisible
PROPERTY CarriedIsPublished
\* Requests and time are bounded: when they are used up, the system is done.
CHECK_DEADLOCK FALSE
