---------------------------- MODULE PostLifecycle ----------------------------
(***************************************************************************)
(* What the scheduling of one blog post promises, whatever machinery      *)
(* (outbox, relay, queue, processor) carries it out:                       *)
(*   - the status of a post is changed by administrators' decisions;       *)
(*   - the system on its own does one thing only: it publishes a post that *)
(*     is scheduled, not deleted, and whose time has come;                 *)
(*   - a deleted post never changes again;                                 *)
(*   - a post whose time has come does not stay scheduled for ever.        *)
(***************************************************************************)
EXTENDS Integers

CONSTANT MaxTime        \* the last instant of the bounded clock

VARIABLES
  now,                  \* the database clock
  status,               \* "absent" until the post is created
  at,                   \* scheduled_at, NoTime when NULL
  deleted,              \* deleted_at IS NOT NULL
  decisions             \* how many decisions of administrators took effect

lifecycleVars == <<now, status, at, deleted, decisions>>

NoTime   == -1
Clock    == 0..MaxTime
Time     == Clock \cup {NoTime}
Statuses == {"draft", "scheduled", "published"}

\* SQL's comparison with NULL is never true.
Due(t, clock) == t # NoTime /\ t <= clock

Init ==
  /\ now = 0
  /\ status = "absent"
  /\ at = NoTime
  /\ deleted = FALSE
  /\ decisions = 0

Tick ==
  /\ now < MaxTime
  /\ now' = now + 1
  /\ UNCHANGED <<status, at, deleted, decisions>>

\* An administrator creates, edits or schedules the post.
Decide(s, t) ==
  /\ ~deleted
  /\ (s = "scheduled") <=> (t # NoTime)
  /\ status' = s
  /\ at' = t
  /\ decisions' = decisions + 1
  /\ UNCHANGED <<now, deleted>>

Delete ==
  /\ status # "absent"
  /\ ~deleted
  /\ deleted' = TRUE
  /\ decisions' = decisions + 1
  /\ UNCHANGED <<now, status, at>>

\* The one step the system takes on its own.
AutoPublish ==
  /\ status = "scheduled"
  /\ ~deleted
  /\ Due(at, now)
  /\ status' = "published"
  /\ at' = NoTime
  /\ UNCHANGED <<now, deleted, decisions>>

Next ==
  \/ Tick
  \/ \E s \in Statuses, t \in Time : Decide(s, t)
  \/ Delete
  \/ AutoPublish

SafeSpec == Init /\ [][Next]_lifecycleVars

\* What is due does not wait for ever.
Liveness == WF_lifecycleVars(AutoPublish)

Spec == SafeSpec /\ Liveness
==============================================================================
