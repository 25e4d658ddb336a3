-------------------------- MODULE MCCommentsSection --------------------------
EXTENDS CommentsSection, TLC

CONSTANTS q1, q2, r1

MCRequests == {q1, q2}
MCReaders == {r1}

\* Bound: one visit.  An open section asks neither the page nor the cache again, and
\* they do not ask it: it is followed with both of them at rest.
OneVisit ==
  section.open => page.present /\ ~entry.present /\ \A r \in Readers : ~fill[r].active

\* Requests are interchangeable, and nothing is checked of liveness.
Symmetry == Permutations(MCRequests)
==============================================================================
