\* What overlapping moderations, a stale page, a failure of Redis, a comment withdrawn
\* between two pages and one approved between two queries break: each of the five fails
\* (-continue reports them all).
SPECIFICATION Spec
CONSTANTS
  q1 = q1
  q2 = q2
  r1 = r1
  Requests <- MCRequests
  Readers <- MCReaders
  MaxComments = 5
  Existing = 4
  Preview = 3
  PerPage = 2
  MaxFaults = 1
SYMMETRY Symmetry
CONSTRAINT OneVisit
INVARIANTS TransitionsInvalidate PageFollows NothingCutShort NothingSkipped
PROPERTY CooldownSurvives
\* Every request is served once and a section is read to its end.
CHECK_DEADLOCK FALSE
