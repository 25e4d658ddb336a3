\* The switch of the automatic slug, and a draft applied late: both properties
\* fail (-continue reports both).
SPECIFICATION SafeSpec
CONSTANTS
  t1 = t1
  t2 = t2
  c1 = c1
  c2 = c2
  NoTopic = NoTopic
  NoCategory = NoCategory
  Topics <- MCTopics
  Categories <- MCCategories
  MaxStarts = 2
  MaxEdits = 3
PROPERTIES AutoSlugSyncs AppliedIsShown
\* The administrator may have left, and requests and edits are bounded.
CHECK_DEADLOCK FALSE
