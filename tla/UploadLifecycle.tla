--------------------------- MODULE UploadLifecycle ---------------------------
(***************************************************************************)
(* What the handling of one uploaded image promises:                       *)
(*   - an upload is confirmed at most once, however many requests ask;     *)
(*   - it is then settled, processed or failed, and never goes back to     *)
(*     being unconfirmed or unsettled;                                     *)
(*   - a confirmed upload does not stay unsettled for ever.                *)
(* A settled upload may be settled again: the queue delivers at least once *)
(* and a later run may end otherwise.                                      *)
(***************************************************************************)
EXTENDS Integers

VARIABLES
  status,        \* uploads.status
  confirmations  \* how many confirm requests took effect

lifecycleVars == <<status, confirmations>>

Settled == {"processed", "failed"}

Init == status = "pending" /\ confirmations = 0

Confirm ==
  /\ status = "pending"
  /\ status' = "uploaded"
  /\ confirmations' = confirmations + 1

Settle ==
  /\ status # "pending"
  /\ status' \in Settled
  /\ UNCHANGED confirmations

Next == Confirm \/ Settle

SafeSpec == Init /\ [][Next]_lifecycleVars

Settles == (status = "uploaded") ~> (status \in Settled)
==============================================================================
