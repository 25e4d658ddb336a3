-------------------------- MODULE MCScheduledPublish --------------------------
EXTENDS ScheduledPublish, TLC

CONSTANTS r1, r2, r3

MCRequests2 == {r1, r2}
MCRequests3 == {r1, r2, r3}

\* Requests are interchangeable; used by the runs without liveness only.
Symmetry3 == Permutations(MCRequests3)

\* With liveness the same reduction is had by using the requests in order: it
\* only chooses among behaviours that differ in the names of the requests.
InOrder ==
  /\ req[r2].pc # "new" => req[r1].pc # "new"
  /\ req[r3].pc # "new" => req[r2].pc # "new"

OrderedNext ==
  \/ ApiStep /\ InOrder'
  \/ Tick \/ RelayStep \/ QueueStep \/ ProcStep \/ FaultStep

OrderedSpec == Init /\ [][OrderedNext]_vars /\ Fairness
==============================================================================
