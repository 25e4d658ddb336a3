------------------------------- MODULE Retention -------------------------------
(***************************************************************************)
(* The daily data-retention job of the worker: three cleanups, each in     *)
(* batches, over the rows that were older than 90 days when the job began. *)
(* The module WorkerProcess says when the process may take its steps.      *)
(***************************************************************************)
EXTENDS Integers, Sequences, FiniteSets

CONSTANTS
  CleanupBatch,   \* RETENTION_BATCH_SIZE
  MaxOld          \* bound on the rows of one table past their 90 days

VARIABLES
  due,      \* per table, the rows before the cutoff of the latest job
  later,    \* per table, those that have passed their 90 days since
  broken,   \* the tables whose statement always fails, a lock or a bug
  run       \* the job: its state, the step it is at, the steps that failed

retentionVars == <<due, later, broken, run>>

Steps  == <<"contacts", "comments", "analytics_events">>
Tables == {Steps[i] : i \in DOMAIN Steps}

\* "unregistered": the scheduler was never stored, so there is no next job.
Run == [state : {"unregistered", "idle", "waiting", "running", "completed", "failed"},
        step : DOMAIN Steps, errors : SUBSET Tables, held : BOOLEAN, stalled : BOOLEAN]

TypeOK ==
  /\ due \in [Tables -> 0..MaxOld]
  /\ later \in [Tables -> 0..MaxOld]
  /\ \A t \in Tables : due[t] + later[t] <= MaxOld
  /\ broken \subseteq Tables
  /\ run \in Run

NoRun(state) ==
  [state |-> state, step |-> 1, errors |-> {}, held |-> FALSE, stalled |-> FALSE]

Init ==
  /\ due = [t \in Tables |-> 0]
  /\ later = [t \in Tables |-> 0]
  /\ broken \in SUBSET Tables
  /\ run = NoRun("unregistered")

Ended == run.state \in {"completed", "failed"}

Running == run.state = "running" /\ run.held

Current == Steps[run.step]

-----------------------------------------------------------------------------
\* A contact, a comment or an analytics event passes its 90 days.
Age(t) ==
  /\ due[t] + later[t] < MaxOld
  /\ later' = [later EXCEPT ![t] = @ + 1]
  /\ UNCHANGED <<due, broken, run>>

\* upsertJobScheduler(). An overdue job that nothing has taken yet may be
\* replaced by the next day's.
Register ==
  /\ \/ run.state = "unregistered" /\ run' = NoRun("idle")
     \/ run.state # "unregistered" /\ UNCHANGED run
     \/ run.state = "waiting" /\ ~run.stalled /\ run' = NoRun("idle")
  /\ UNCHANGED <<due, later, broken>>

\* 03:00 UTC. A job is over by the next day.
Day ==
  /\ run.state = "idle" \/ Ended
  /\ run' = NoRun("waiting")
  /\ UNCHANGED <<due, later, broken>>

\* processRetention() takes its cutoff.
Begin ==
  /\ run.state = "waiting"
  /\ run' = [run EXCEPT !.state = "running", !.held = TRUE]
  /\ due' = [t \in Tables |-> due[t] + later[t]]
  /\ later' = [t \in Tables |-> 0]
  /\ UNCHANGED broken

\* The steps that failed are thrown together. Nothing sets attempts, so the
\* job is not tried again before the next day.
Result(errors) == IF errors = {} THEN "completed" ELSE "failed"

NextStep(errors) ==
  run' = IF run.step < Len(Steps) THEN [run EXCEPT !.step = @ + 1, !.errors = errors]
         ELSE [run EXCEPT !.state = Result(errors), !.errors = errors, !.held = FALSE]

\* Mutant: one batch is all there is.
Batch_Once ==
  /\ Running /\ Current \notin broken
  /\ due' = [due EXCEPT ![Current] = IF @ < CleanupBatch THEN 0 ELSE @ - CleanupBatch]
  /\ NextStep(run.errors)
  /\ UNCHANGED <<later, broken>>

\* A turn of runBatchedCleanup(): the oldest rows, as many as a batch holds,
\* are deleted or anonymized, until a batch is not full.
Batch ==
  /\ Running /\ Current \notin broken
  /\ due' = [due EXCEPT ![Current] = IF @ < CleanupBatch THEN 0 ELSE @ - CleanupBatch]
  /\ IF due[Current] < CleanupBatch THEN NextStep(run.errors) ELSE UNCHANGED run
  /\ UNCHANGED <<later, broken>>

\* Mutant: the first failure ends the job.
StepFails_Thrown ==
  /\ Running
  /\ run' = [run EXCEPT !.state = "failed", !.errors = Tables, !.held = FALSE]
  /\ UNCHANGED <<due, later, broken>>

\* A batch throws: the step is over, the others are not.
StepFails ==
  /\ Running
  /\ NextStep(run.errors \cup {Current})
  /\ UNCHANGED <<due, later, broken>>

\* The process dies under the job; BullMQ finds it stalled and starts it
\* again, once.
Dropped == run' = [run EXCEPT !.held = FALSE] /\ UNCHANGED <<due, later, broken>>

Stalled ==
  /\ run.state = "running" /\ ~run.held
  /\ run' = IF run.stalled THEN [run EXCEPT !.state = "failed", !.errors = Tables]
            ELSE [NoRun("waiting") EXCEPT !.stalled = TRUE]
  /\ UNCHANGED <<due, later, broken>>

-----------------------------------------------------------------------------
\* A job that says it is complete has left nothing from before its cutoff,
\* however many batches that took; one that has failed, nothing in the tables
\* it does not name, whichever step failed.
Cleaned ==
  /\ run.state = "completed" => \A t \in Tables : due[t] = 0
  /\ run.state = "failed" => \A t \in Tables \ run.errors : due[t] = 0

\* Why: the steps behind the one a job is at have left nothing, or failed, and a
\* job that waits is before its first step.
RunInv ==
  /\ run.state = "waiting" => run.step = 1
  /\ run.state = "running" =>
       \A i \in DOMAIN Steps : i < run.step => due[Steps[i]] = 0 \/ Steps[i] \in run.errors

\* The policy: once the scheduler is stored, what has passed its 90 days is
\* taken into account and goes, failures of the other tables, crashes and
\* restarts notwithstanding.
Forgotten ==
  \A t \in Tables :
    /\ run.state # "unregistered" /\ later[t] > 0 ~> due[t] > 0
    /\ t \notin broken /\ run.state # "unregistered" /\ due[t] > 0 ~> due[t] = 0

\* The same without the assumption that the scheduler was stored: its failure
\* at startup is logged and not tried again.
ForgottenAnyway == \A t \in Tables : later[t] > 0 ~> due[t] > 0

=============================================================================
