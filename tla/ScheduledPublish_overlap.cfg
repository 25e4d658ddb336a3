\* The post is scheduled at most once; two requests overlap; two failures.
SPECIFICATION SafeSpec
CONSTANTS
  r1 = r1
  r2 = r2
  r3 = r3
  NoRequest = NoRequest
  Requests <- MCRequests3
  Bodies = {"draft", "scheduled", "published"}
  MaxTime = 1
  MaxSchedules = 1
  MaxInFlight = 2
  MaxFaults = 2
  OutboxMaxAttempts = 2
  BatchSize = 2
  JobAttempts = 2
  MaxStalls = 1
  Skew = 0
SYMMETRY Symmetry3
INVARIANTS Consistent ScheduleNeverLost
PROPERTIES LifecycleSafety
\* Requests and time are bounded: when they are used up, the system is done.
CHECK_DEADLOCK FALSE
