\* Three runs asked for, two edits of the form.
SPECIFICATION Spec
CONSTANTS
  t1 = t1
  t2 = t2
  c1 = c1
  c2 = c2
  NoTopic = NoTopic
  NoCategory = NoCategory
  Topics <- MCTopics
  Categories <- MCCategories
  MaxStarts = 3
  MaxEdits = 2
INVARIANTS Consistent RejectedIsTold
PROPERTY Settles
\* The administrator may have left, and requests and edits are bounded.
CHECK_DEADLOCK FALSE
