----------------------------- MODULE MCCatalogue -----------------------------
EXTENDS Career, TLC

CONSTANTS r1, r2, cpp, csharp, React, react

MCRequests == {r1, r2}
Symmetry == Permutations(MCRequests)
MCNames == {cpp, csharp, React, react}
MCSkillNames == {cpp, csharp}

\* C++ and C# have the slug c; React and react differ in case.
MCLower == [n \in MCNames |-> IF n = React THEN react ELSE n]
MCBase == [n \in MCNames |-> CASE n \in {cpp, csharp} -> cpp [] OTHER -> react]
==============================================================================
