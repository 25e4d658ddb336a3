\* Four choices; a worker that may never settle anything.
SPECIFICATION CoverSpec
CONSTANTS
  MaxChoices = 4
  MaxAttempts = 3
INVARIANT CoverConsistent
PROPERTIES NewestWins UploadEnds
\* Once the post is saved the page is gone.
CHECK_DEADLOCK FALSE
