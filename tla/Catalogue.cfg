\* Two requests on one or two rows; names that share a slug, and names that differ in case.
SPECIFICATION Spec
CONSTANTS
  r1 = r1
  r2 = r2
  cpp = cpp
  csharp = csharp
  React = React
  react = react
  Requests <- MCRequests
  Names <- MCNames
  SkillNames <- MCSkillNames
  Lower <- MCLower
  Base <- MCBase
  Categories = {"language", "tool"}
  MaxHighlighted = 1
  MaxRows = 3
  Dates = 2
SYMMETRY Symmetry
INVARIANTS Consistent SerialChecksHold AcceptanceSurvives
\* Every request is served once.
CHECK_DEADLOCK FALSE
