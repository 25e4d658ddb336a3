\* A POST that is refused, by an API that answers.
SPECIFICATION ServedSpec
CONSTANTS
  t1 = t1
  t2 = t2
  c1 = c1
  c2 = c2
  NoTopic = NoTopic
  NoCategory = NoCategory
  Topics <- MCTopics
  Categories <- MCCategories
  MaxStarts = 1
  MaxEdits = 0
PROPERTY FailureIsShown
\* The administrator may have left, and requests and edits are bounded.
CHECK_DEADLOCK FALSE
