\* What requests that overlap break, and a suggestion whose slug another name
\* has: each of the five fails (-continue reports them all).
SPECIFICATION Spec
CONSTANTS
  r1 = r1
  r2 = r2
  cpp = cpp
  csharp = csharp
  React = React
  react = react
  Requests <- MCRequests
  Names <- MCNames
  SkillNames <- MCSkillNames
  Lower <- MCLower
  Base <- MCBase
  Categories = {"language", "tool"}
  MaxHighlighted = 1
  MaxRows = 3
  Dates = 2
SYMMETRY Symmetry
INVARIANTS CapAlways NeverTwins DatesAlways SuggestionMeant RacesAreHandled
\* Every request is served once.
CHECK_DEADLOCK FALSE
