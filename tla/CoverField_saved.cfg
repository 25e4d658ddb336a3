\* A form that is saved while its cover is uploaded.
SPECIFICATION CoverSpec
CONSTANTS
  MaxChoices = 4
  MaxAttempts = 3
PROPERTY SavedWithCover
\* Once the post is saved the page is gone.
CHECK_DEADLOCK FALSE
