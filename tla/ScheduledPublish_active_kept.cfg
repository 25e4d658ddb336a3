\* A reschedule relayed while the processor finishes with the old one.
SPECIFICATION SafeSpec
CONSTANTS
  r1 = r1
  r2 = r2
  r3 = r3
  NoRequest = NoRequest
  Requests <- MCRequests3
  Bodies = {"draft", "scheduled", "published"}
  MaxTime = 2
  MaxSchedules = 2
  MaxInFlight = 1
  MaxFaults = 0
  OutboxMaxAttempts = 2
  BatchSize = 2
  JobAttempts = 2
  MaxStalls = 1
  Skew = 0
INVARIANT ScheduleNeverLost
\* Requests and time are bounded: when they are used up, the system is done.
CHECK_DEADLOCK FALSE
