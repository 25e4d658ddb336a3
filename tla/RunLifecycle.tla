---------------------------- MODULE RunLifecycle ----------------------------
(***************************************************************************)
(* What the handling of one AI generation run promises:                    *)
(*   - the run is worked on only after it was claimed, and claimed only    *)
(*     when it is queued: never twice at the same time;                    *)
(*   - it is claimed, and so paid for, a bounded number of times;          *)
(*   - a result, once stored, stays, and a run that has ended does not     *)
(*     start again (a stored result may still be overruled by a failure);  *)
(*   - a queued run ends.                                                  *)
(***************************************************************************)
EXTENDS Integers

CONSTANT MaxTries

VARIABLES
  status,  \* "active" stands for running and validating
  result,  \* result_payload IS NOT NULL
  tries    \* how often the run was claimed

lifecycleVars == <<status, result, tries>>

Ended == {"completed", "failed", "timed_out"}

Init == status = "none" /\ result = FALSE /\ tries = 0

Create ==
  /\ status = "none"
  /\ status' = "queued"
  /\ UNCHANGED <<result, tries>>

Claim ==
  /\ status = "queued"
  /\ tries < MaxTries
  /\ status' = "active"
  /\ tries' = tries + 1
  /\ UNCHANGED result

Retry ==
  /\ status = "active"
  /\ status' = "queued"
  /\ UNCHANGED <<result, tries>>

Complete ==
  /\ status = "active"
  /\ status' = "completed"
  /\ result' = TRUE
  /\ UNCHANGED tries

Fail ==
  /\ status \in {"active", "completed"}
  /\ status' \in {"failed", "timed_out"}
  /\ UNCHANGED <<result, tries>>

Next == Create \/ Claim \/ Retry \/ Complete \/ Fail

SafeSpec == Init /\ [][Next]_lifecycleVars

Ends == (status = "queued") ~> (status \in Ended)
==============================================================================
