\* Four comments and one more; the preview and the pages overlap as 30 and 20 do.
SPECIFICATION Spec
CONSTANTS
  q1 = q1
  q2 = q2
  r1 = r1
  Requests <- MCRequests
  Readers <- MCReaders
  MaxComments = 5
  Existing = 4
  Preview = 3
  PerPage = 2
  MaxFaults = 1
SYMMETRY Symmetry
CONSTRAINT OneVisit
INVARIANTS Consistent AllShown
PROPERTY CooldownHolds
\* Every request is served once and a section is read to its end.
CHECK_DEADLOCK FALSE
