\* Updates one at a time, some without a status, and a published post that goes
\* back to draft: both properties fail (-continue reports both).
SPECIFICATION SafeSpec
CONSTANTS
  r1 = r1
  r2 = r2
  r3 = r3
  NoRequest = NoRequest
  Requests <- MCRequests2
  Bodies = {"absent", "draft", "scheduled", "published"}
  MaxTime = 1
  MaxSchedules = 1
  MaxInFlight = 1
  MaxFaults = 0
  OutboxMaxAttempts = 2
  BatchSize = 2
  JobAttempts = 2
  MaxStalls = 1
  Skew = 0
INVARIANT DraftHasNoTimestamps
PROPERTY OmittedStatusIsKept
\* Requests and time are bounded: when they are used up, the system is done.
CHECK_DEADLOCK FALSE
