------------------------- MODULE WorkerProcess_proofs -------------------------
(***************************************************************************)
(* For every number of notifications, events, attempts, rows and faults:   *)
(* what the dead-letter queue holds, and what a retention job that is over *)
(* has left behind.                                                        *)
(***************************************************************************)
EXTENDS WorkerProcess, TLAPS

(***************************************************************************)
(* The notifications.  The attempts of a job are set where the API queues  *)
(* it, those of the listener where the worker is registered: two constants *)
(* of two packages that must agree.                                        *)
(***************************************************************************)
AttemptsAgree == DlqAttempts = JobAttempts

\* JobInv and DeadLettered, of one job.
Accounted(j) ==
  /\ j \in Job
  /\ j.held => j.state = "active"
  /\ j.state # "failed" => j.attemptsMade < JobAttempts /\ j.copy = "none"
  /\ j.state = "failed" /\ j.attemptsMade = JobAttempts => j.copy # "none"

JobsAccounted ==
  /\ jobs \in [Notifications -> Job]
  /\ \A n \in Notifications : Accounted(jobs[n])

LEMMA InitJobs == WorkerInit => JobsAccounted
BY ConstantsAssumption DEF WorkerInit, JobsAccounted, Accounted, NoJob, Job

LEMMA JobMoves ==
  ASSUME JobsAccounted, NEW n \in Notifications, NEW j, Accounted(j),
         jobs' = [jobs EXCEPT ![n] = j]
  PROVE  JobsAccounted'
<1>1. jobs' \in [Notifications -> Job]
  BY DEF JobsAccounted, Accounted
<1>2. \A m \in Notifications : Accounted(jobs'[m])
  BY DEF JobsAccounted
<1> QED
  BY <1>1, <1>2 DEF JobsAccounted, Accounted

\* The counting of an attempt: a job that has others left waits, and one that
\* has not fails and is copied.
LEMMA AttemptFailsAccounted ==
  ASSUME AttemptsAgree, JobsAccounted, NEW n \in Notifications, jobs[n].held, AttemptFails(n)
  PROVE  JobsAccounted'
<1> USE ConstantsAssumption
<1> DEFINE made == jobs[n].attemptsMade + 1
<1> DEFINE state == IF made < JobAttempts THEN "waiting" ELSE "failed"
<1> DEFINE copy == IF made >= DlqAttempts THEN "copying" ELSE jobs[n].copy
<1> DEFINE j == [jobs[n] EXCEPT !.state = state, !.attemptsMade = made, !.held = FALSE, !.copy = copy]
<1>1. jobs[n] \in Job /\ jobs[n].attemptsMade < JobAttempts /\ jobs[n].copy = "none"
  BY DEF JobsAccounted, Accounted
<1>2. made \in 0..JobAttempts
  BY <1>1 DEF Job
<1>3. jobs' = [jobs EXCEPT ![n] = j]
  BY DEF AttemptFails, IsExhausted, JobsAccounted
<1>4. \/ state = "waiting" /\ copy = "none" /\ made < JobAttempts
      \/ state = "failed" /\ copy = "copying"
  BY <1>1, <1>2 DEF AttemptsAgree
<1> HIDE DEF made, state, copy
<1>5. j \in Job /\ j.state = state /\ j.attemptsMade = made /\ ~j.held /\ j.copy = copy
  BY <1>1, <1>2, <1>4 DEF Job
<1> HIDE DEF j
<1>6. Accounted(j)
  BY <1>4, <1>5 DEF Accounted
<1> QED
  BY <1>3, <1>6, JobMoves

LEMMA TelegramAccounted ==
  ASSUME AttemptsAgree, JobsAccounted, NEW n \in Notifications, TelegramStep(n)
  PROVE  JobsAccounted'
<1> USE ConstantsAssumption
<1>0. jobs[n] \in Job /\ Accounted(jobs[n])
  BY DEF JobsAccounted, Accounted
<1>1. CASE Notify(n)
  <2>1. PICK s \in {"waiting", "unqueued"} : jobs' = [jobs EXCEPT ![n] = [jobs[n] EXCEPT !.state = s]]
    BY <1>1 DEF Notify, JobsAccounted
  <2>2. Accounted([jobs[n] EXCEPT !.state = s])
    BY <1>0, <1>1 DEF Notify, Accounted, Job
  <2> QED
    BY <2>1, <2>2, JobMoves
<1>2. CASE Take(n)
  <2>1. jobs' = [jobs EXCEPT ![n] = [jobs[n] EXCEPT !.state = "active", !.held = TRUE]]
    BY <1>2 DEF Take, JobsAccounted
  <2>2. Accounted([jobs[n] EXCEPT !.state = "active", !.held = TRUE])
    BY <1>0, <1>2 DEF Take, Accounted, Job
  <2> QED
    BY <2>1, <2>2, JobMoves
<1>3. CASE Delivered(n)
  <2>1. jobs' = [jobs EXCEPT ![n] = [jobs[n] EXCEPT !.state = "completed", !.held = FALSE]]
    BY <1>3 DEF Delivered, JobsAccounted
  <2>2. Accounted([jobs[n] EXCEPT !.state = "completed", !.held = FALSE])
    BY <1>0, <1>3 DEF Delivered, Accounted, Job
  <2> QED
    BY <2>1, <2>2, JobMoves
<1>4. CASE Refused(n) \/ TimesOut(n)
  BY <1>4, AttemptFailsAccounted DEF Refused, TimesOut
<1>5. CASE JobStalled(n) /\ jobs[n].stalled
  <2>1. jobs' = [jobs EXCEPT ![n] = [jobs[n] EXCEPT !.state = "failed"]]
    BY <1>5 DEF JobStalled, JobsAccounted
  <2>2. Accounted([jobs[n] EXCEPT !.state = "failed"])
    BY <1>0, <1>5 DEF JobStalled, Accounted, Job
  <2> QED
    BY <2>1, <2>2, JobMoves
<1>6. CASE JobStalled(n) /\ ~jobs[n].stalled
  <2>1. jobs' = [jobs EXCEPT ![n] = [jobs[n] EXCEPT !.state = "waiting", !.stalled = TRUE]]
    BY <1>6 DEF JobStalled, JobsAccounted
  <2>2. Accounted([jobs[n] EXCEPT !.state = "waiting", !.stalled = TRUE])
    BY <1>0, <1>6 DEF JobStalled, Accounted, Job
  <2> QED
    BY <2>1, <2>2, JobMoves
<1>7. CASE Copy(n) \/ CopyFails(n)
  <2>1. PICK c \in {"copied", "lost"} : jobs' = [jobs EXCEPT ![n] = [jobs[n] EXCEPT !.copy = c]]
    BY <1>7 DEF Copy, CopyFails, JobsAccounted
  <2>2. Accounted([jobs[n] EXCEPT !.copy = c])
    BY <1>0, <1>7 DEF Copy, CopyFails, Accounted, Job
  <2> QED
    BY <2>1, <2>2, JobMoves
<1> QED
  BY <1>1, <1>2, <1>3, <1>4, <1>5, <1>6, <1>7 DEF TelegramStep

\* The end of the process loses copies and drops jobs, and changes no state.
LEMMA GoneAccounted ==
  ASSUME JobsAccounted, Gone
  PROVE  JobsAccounted'
<1>1. jobs' = [n \in Notifications |->
        [jobs[n] EXCEPT !.held = FALSE, !.copy = IF @ = "copying" THEN "lost" ELSE @]]
  BY DEF Gone
<1>2. \A n \in Notifications : jobs[n] \in Job /\ Accounted(jobs[n])
  BY DEF JobsAccounted
<1>3. ASSUME NEW n \in Notifications
      PROVE  Accounted([jobs[n] EXCEPT !.held = FALSE, !.copy = IF @ = "copying" THEN "lost" ELSE @])
  BY <1>2 DEF Accounted, Job
<1>4. \A n \in Notifications : Accounted(jobs'[n])
  BY <1>1, <1>3
<1>5. jobs' \in [Notifications -> Job]
  BY <1>1, <1>4 DEF Accounted
<1> QED
  BY <1>4, <1>5 DEF JobsAccounted, Accounted

LEMMA JobsUnchanged ==
  ASSUME JobsAccounted, UNCHANGED jobs
  PROVE  JobsAccounted'
BY DEF JobsAccounted, Accounted

LEMMA NextJobs ==
  ASSUME AttemptsAgree, JobsAccounted, [Next]_vars
  PROVE  JobsAccounted'
<1>1. CASE (\E e \in Events : Emit(e)) \/ Poll \/ (\E k \in Slots : RelayStep(k))
  <2>1. UNCHANGED jobs
    BY <1>1 DEF Emit, Poll, RelayStep, ReadBatch, FinishCycle, Publish, MarkProcessed, MarkFails, CatchEvent
  <2> QED
    BY <2>1, JobsUnchanged
<1>2. CASE \E n \in Notifications : TelegramStep(n)
  BY <1>2, TelegramAccounted
<1>3. CASE RetentionStep
  <2>1. UNCHANGED jobs
    BY <1>3 DEF RetentionStep, RowAges, NextDay, Cleanup, CleanBatch, CleanFails, CleanAgain, Else
  <2> QED
    BY <2>1, JobsUnchanged
<1>4. CASE ProcessStep
  <2>1. CASE Start \/ Signal \/ CloseQueues
    BY <2>1, JobsUnchanged DEF Start, Signal, CloseQueues
  <2>2. CASE Exit \/ Crash
    BY <2>2, GoneAccounted DEF Exit, Crash
  <2> QED
    BY <1>4, <2>1, <2>2 DEF ProcessStep
<1>5. CASE UNCHANGED vars
  BY <1>5, JobsUnchanged DEF vars
<1> QED
  BY <1>1, <1>2, <1>3, <1>4, <1>5 DEF Next

\* The dead-letter queue has only jobs that are over, and every job that used
\* up its attempts unless its copy was lost, provided that the two constants
\* agree: however often the process dies and jobs stall.
THEOREM DeadLetteredAlways ==
  ASSUME AttemptsAgree
  PROVE  SafeSpec => []DeadLettered
<1>1. JobsAccounted /\ [Next]_vars => JobsAccounted'
  BY NextJobs
<1>2. JobsAccounted => DeadLettered
  BY DEF JobsAccounted, Accounted, DeadLettered
<1> QED
  BY InitJobs, <1>1, <1>2, PTL DEF SafeSpec

-----------------------------------------------------------------------------
(***************************************************************************)
(* The retention job.  Cleaned is about jobs that are over; what it needs  *)
(* of a job under way is RunInv.                                           *)
(***************************************************************************)
RetentionKept == TypeOK /\ RunInv /\ Cleaned

LEMMA StepsAreTables ==
  /\ DOMAIN Steps = 1..3 /\ Len(Steps) = 3
  /\ Tables = {Steps[1], Steps[2], Steps[3]}
  /\ \A i \in DOMAIN Steps : Steps[i] \in Tables
<1>1. DOMAIN Steps = 1..3 /\ Len(Steps) = 3
  BY DEF Steps
<1> QED
  BY <1>1 DEF Tables

LEMMA InitRetention == WorkerInit => RetentionKept
BY ConstantsAssumption, StepsAreTables
   DEF WorkerInit, Init, RetentionKept, TypeOK, RunInv, Cleaned, NoRun, Run

\* A cleanup only takes rows away.
LEMMA TypeKept ==
  ASSUME RetentionKept, UNCHANGED <<later, broken>>, run' \in Run,
         due' \in [Tables -> 0..MaxOld], \A t \in Tables : due'[t] <= due[t]
  PROVE  TypeOK'
<1>1. MaxOld \in Nat /\ TypeOK
  BY ConstantsAssumption DEF RetentionKept
<1>2. ASSUME NEW t \in Tables PROVE due'[t] + later'[t] <= MaxOld
  <2>1. due[t] \in Nat /\ later[t] \in Nat /\ due'[t] \in Nat /\ due[t] + later[t] <= MaxOld
    BY <1>1 DEF TypeOK
  <2> QED
    BY <1>1, <2>1
<1> QED
  BY <1>1, <1>2 DEF TypeOK

\* The end of a step: what lies behind the job is empty or has failed, and if it
\* was the last step, that is every table.
LEMMA NextStepKept ==
  ASSUME RetentionKept, Running, NEW errors \in SUBSET Tables, NextStep(errors),
         run.errors \subseteq errors, UNCHANGED <<later, broken>>, due' \in [Tables -> 0..MaxOld],
         due'[Current] = 0 \/ Current \in errors,
         \A t \in Tables : due'[t] <= due[t]
  PROVE  RetentionKept'
<1> USE StepsAreTables
<1>1. run \in Run /\ run.state = "running" /\ run.step \in 1..3
  BY DEF RetentionKept, TypeOK, Running, Run
<1>2. run' \in Run => TypeOK'
  BY TypeKept
<1>3. \A t \in Tables : due[t] = 0 => due'[t] = 0
  BY DEF RetentionKept, TypeOK
<1>4. \A i \in 1..3 : i <= run.step => due'[Steps[i]] = 0 \/ Steps[i] \in errors
  <2> SUFFICES ASSUME NEW i \in 1..3, i <= run.step
               PROVE  due'[Steps[i]] = 0 \/ Steps[i] \in errors
    OBVIOUS
  <2>1. CASE i = run.step
    BY <2>1 DEF Current
  <2>2. CASE i < run.step
    BY <1>1, <1>3, <2>2 DEF RetentionKept, RunInv
  <2> QED
    BY <1>1, <2>1, <2>2
<1>5. CASE run.step < 3
  <2>1. run' = [run EXCEPT !.step = @ + 1, !.errors = errors]
    BY <1>5 DEF NextStep
  <2>2. run' \in Run /\ run'.state = "running" /\ run'.step = run.step + 1 /\ run'.errors = errors
    <3>1. run.step + 1 \in DOMAIN Steps
      BY <1>1, <1>5
    <3> QED
      BY <1>1, <2>1, <3>1 DEF Run
  <2>3. RunInv' /\ Cleaned'
    BY <1>1, <1>4, <2>2 DEF RunInv, Cleaned
  <2> QED
    BY <1>2, <2>2, <2>3 DEF RetentionKept
<1>6. CASE run.step = 3
  <2>1. run' = [run EXCEPT !.state = Result(errors), !.errors = errors, !.held = FALSE]
    BY <1>6 DEF NextStep
  <2>2. run' \in Run /\ run'.state = Result(errors) /\ run'.errors = errors
    BY <1>1, <2>1 DEF Run, Result
  <2>3. \A t \in Tables : due'[t] = 0 \/ t \in errors
    BY <1>4, <1>6
  <2>4. RunInv' /\ Cleaned'
    BY <2>2, <2>3 DEF RunInv, Cleaned, Result
  <2> QED
    BY <1>2, <2>2, <2>4 DEF RetentionKept
<1> QED
  BY <1>1, <1>5, <1>6

LEMMA BatchKept ==
  ASSUME RetentionKept, Batch
  PROVE  RetentionKept'
<1> USE StepsAreTables
<1>1. run \in Run /\ Current \in Tables /\ due \in [Tables -> 0..MaxOld] /\ MaxOld \in Nat
      /\ CleanupBatch \in Nat \ {0}
  BY ConstantsAssumption DEF RetentionKept, TypeOK, Run, Current
<1>2. due' = [due EXCEPT ![Current] = IF @ < CleanupBatch THEN 0 ELSE @ - CleanupBatch]
      /\ UNCHANGED <<later, broken>> /\ Running
  BY DEF Batch
<1>3. due' \in [Tables -> 0..MaxOld]
  BY <1>1, <1>2
<1>4. \A t \in Tables : due'[t] <= due[t]
  BY <1>1, <1>2
<1>5. CASE due[Current] < CleanupBatch
  <2>1. due'[Current] = 0 /\ NextStep(run.errors) /\ run.errors \in SUBSET Tables
    BY <1>1, <1>2, <1>5 DEF Batch, Run
  <2> QED
    BY <1>2, <1>3, <1>4, <2>1, NextStepKept
<1>6. CASE ~(due[Current] < CleanupBatch)
  <2>1. run' = run
    BY <1>6 DEF Batch
  <2>2. RunInv' /\ Cleaned'
    <3>1. \A t \in Tables : due[t] = 0 => due'[t] = 0
      BY <1>1, <1>3, <1>4
    <3> QED
      BY <1>2, <2>1, <3>1 DEF RetentionKept, RunInv, Cleaned, Running
  <2> QED
    BY <1>1, <1>2, <1>3, <1>4, <2>1, <2>2, TypeKept DEF RetentionKept
<1> QED
  BY <1>5, <1>6

LEMMA StepFailsKept ==
  ASSUME RetentionKept, StepFails
  PROVE  RetentionKept'
<1>1. run \in Run /\ Current \in Tables
  BY StepsAreTables DEF RetentionKept, TypeOK, Run, Current
<1>2. run.errors \cup {Current} \in SUBSET Tables
  BY <1>1 DEF Run
<1>3. Running /\ NextStep(run.errors \cup {Current}) /\ UNCHANGED <<due, later, broken>>
  BY DEF StepFails
<1>4. due' \in [Tables -> 0..MaxOld] /\ \A t \in Tables : due'[t] <= due[t]
  BY <1>3, ConstantsAssumption DEF RetentionKept, TypeOK
<1> QED
  BY <1>2, <1>3, <1>4, NextStepKept

\* What only changes the job, or puts it aside: no job that is over, none under way.
LEMMA RunReplaced ==
  ASSUME RetentionKept, run' \in Run, run'.state \in {"unregistered", "idle", "waiting"},
         run'.state = "waiting" => run'.step = 1, UNCHANGED <<due, later, broken>>
  PROVE  RetentionKept'
BY DEF RetentionKept, TypeOK, RunInv, Cleaned

LEMMA RetentionMoves ==
  ASSUME RetentionKept,
         (\E t \in Tables : Age(t)) \/ Register \/ Day \/ Begin \/ Dropped \/ Stalled
  PROVE  RetentionKept'
<1> USE StepsAreTables, ConstantsAssumption
<1>0. run \in Run /\ due \in [Tables -> 0..MaxOld] /\ later \in [Tables -> 0..MaxOld] /\ MaxOld \in Nat
  BY DEF RetentionKept, TypeOK
<1>1. CASE \E t \in Tables : Age(t)
  <2>1. PICK t \in Tables : Age(t)
    BY <1>1
  <2>2. later' \in [Tables -> 0..MaxOld]
    BY <1>0, <2>1 DEF Age
  <2> QED
    BY <2>1, <2>2 DEF Age, RetentionKept, TypeOK, RunInv, Cleaned
<1>2. \A s \in {"idle", "waiting"} : NoRun(s) \in Run /\ NoRun(s).state = s /\ NoRun(s).step = 1
  BY DEF NoRun, Run
<1>3. CASE Register
  <2>1. CASE run' = NoRun("idle")
    BY <1>2, <1>3, <2>1, RunReplaced DEF Register
  <2>2. CASE UNCHANGED run
    BY <1>3, <2>2 DEF Register, RetentionKept, TypeOK, RunInv, Cleaned
  <2> QED
    BY <1>3, <2>1, <2>2 DEF Register
<1>4. CASE Day
  BY <1>2, <1>4, RunReplaced DEF Day
<1>5. CASE Begin
  <2>1. run.step = 1
    BY <1>5 DEF Begin, RetentionKept, RunInv
  <2>2. run' \in Run /\ run'.state = "running" /\ run'.step = 1
    BY <1>0, <1>5, <2>1 DEF Begin, Run
  <2>3. UNCHANGED broken /\ due' = [t \in Tables |-> due[t] + later[t]] /\ later' = [t \in Tables |-> 0]
    BY <1>5 DEF Begin
  <2>4. /\ due' \in [Tables -> 0..MaxOld] /\ later' \in [Tables -> 0..MaxOld]
        /\ \A t \in Tables : due'[t] + later'[t] <= MaxOld
    BY <1>0, <2>3 DEF RetentionKept, TypeOK
  <2>5. RunInv' /\ Cleaned'
    BY <2>2 DEF RunInv, Cleaned
  <2> QED
    BY <1>0, <2>2, <2>3, <2>4, <2>5 DEF RetentionKept, TypeOK
<1>6. CASE Dropped
  <2>1. run' \in Run /\ run'.state = run.state /\ run'.step = run.step /\ run'.errors = run.errors
    BY <1>0, <1>6 DEF Dropped, Run
  <2> QED
    BY <1>6, <2>1 DEF Dropped, RetentionKept, TypeOK, RunInv, Cleaned
<1>7. CASE Stalled /\ run.stalled
  <2>1. run' \in Run /\ run'.state = "failed" /\ run'.errors = Tables
    BY <1>0, <1>7 DEF Stalled, Run
  <2> QED
    BY <1>7, <2>1 DEF Stalled, RetentionKept, TypeOK, RunInv, Cleaned
<1>8. CASE Stalled /\ ~run.stalled
  <2>1. run' = [NoRun("waiting") EXCEPT !.stalled = TRUE]
    BY <1>8 DEF Stalled
  <2>2. run' \in Run /\ run'.state = "waiting" /\ run'.step = 1
    BY <1>2, <2>1 DEF Run
  <2> QED
    BY <1>8, <2>2, RunReplaced DEF Stalled
<1> QED
  BY <1>1, <1>3, <1>4, <1>5, <1>6, <1>7, <1>8

LEMMA NextRetention ==
  ASSUME RetentionKept, [Next]_vars
  PROVE  RetentionKept'
<1>1. CASE UNCHANGED retentionVars
  BY <1>1 DEF retentionVars, RetentionKept, TypeOK, RunInv, Cleaned
<1>2. CASE (\E e \in Events : Emit(e)) \/ Poll \/ (\E k \in Slots : RelayStep(k))
  BY <1>1, <1>2 DEF Emit, Poll, RelayStep, ReadBatch, FinishCycle, Publish, MarkProcessed, MarkFails, CatchEvent
<1>3. CASE \E n \in Notifications : TelegramStep(n)
  BY <1>1, <1>3 DEF TelegramStep, Notify, Take, Delivered, Refused, TimesOut, JobStalled, Copy, CopyFails, JobStep
<1>4. CASE RetentionStep
  BY <1>4, RetentionMoves, BatchKept, StepFailsKept
     DEF RetentionStep, RowAges, NextDay, Cleanup, CleanBatch, CleanFails, CleanAgain
<1>5. CASE ProcessStep
  <2>1. CASE Start
    BY <1>1, <2>1, RetentionMoves DEF Start
  <2>2. CASE Signal \/ CloseQueues
    BY <1>1, <2>2 DEF Signal, CloseQueues
  <2>3. CASE Exit \/ Crash
    BY <2>3, RetentionMoves DEF Exit, Crash, Gone
  <2> QED
    BY <1>5, <2>1, <2>2, <2>3 DEF ProcessStep
<1> QED
  BY <1>1, <1>2, <1>3, <1>4, <1>5 DEF Next, vars, retentionVars

\* A retention job that is complete has left nothing from before its cutoff,
\* one that has failed nothing in the tables it does not name: for any number
\* of rows and batches, whatever fails, and whenever the process dies.
THEOREM CleanedAlways == SafeSpec => []Cleaned
<1>1. RetentionKept /\ [Next]_vars => RetentionKept'
  BY NextRetention
<1>2. RetentionKept => Cleaned
  BY DEF RetentionKept
<1> QED
  BY InitRetention, <1>1, <1>2, PTL DEF SafeSpec

-----------------------------------------------------------------------------
(***************************************************************************)
(* The relay.  There is one cycle at a time, so that what it read of its   *)
(* events is what they are, and no event it has at hand is processed, but  *)
(* for the one whose mark it has lost the answer of.                       *)
(***************************************************************************)
RelayKept ==
  /\ proc \in {"down", "up", "closing", "closed"}
  /\ events \in [Events -> Event] /\ guard \in BOOLEAN /\ cycles \in [Slots -> Cycle]
  /\ RelayInv
  /\ guard <=> \E k \in Slots : cycles[k].state # "none"
  /\ proc = "down" => ~guard

\* DoneIsDone, of one step.
StayDone ==
  \A e \in Events :
    /\ events'[e].attempts >= events[e].attempts
    /\ events[e].status = "failed" => events'[e] = events[e]
    /\ events[e].status = "processed" /\ events'[e] # events[e] =>
         /\ \E k \in Slots : \E b \in cycles[k].batch : b.id = e /\ Unsure(k, b)
         /\ events'[e].status \in {"processed", "failed"}

LEMMA SameStayDone ==
  ASSUME RelayKept, UNCHANGED events
  PROVE  StayDone
<1>1. \A e \in Events : events[e].attempts \in Nat
  BY ConstantsAssumption DEF RelayKept, Event
<1> QED
  BY <1>1 DEF StayDone

\* What a cycle whose state is c knows of its events, given as ev.
First(c) == {b \in c.batch : c.state = "working" /\ \A d \in c.batch : b.id <= d.id}
Knows(c, ev) ==
  /\ c.state = "reading" => c.at = "add"
  /\ \A b \in c.batch :
       /\ ev[b.id].attempts = b.attempts /\ b.attempts < OutboxMaxAttempts
       /\ ev[b.id].status = IF c.at = "unsure" /\ b \in First(c) THEN "processed" ELSE "pending"

LEMMA KnowsEach ==
  ASSUME RelayKept, NEW k \in Slots
  PROVE  Knows(cycles[k], events) /\ Turn(k) = First(cycles[k])
BY DEF RelayKept, RelayInv, Knows, First, Turn, Unsure

LEMMA NoCycleType == NoCycle \in Cycle /\ NoCycle.state = "none" /\ NoCycle.batch = {}
BY DEF NoCycle, Cycle

LEMMA InitRelay == WorkerInit => RelayKept
<1> SUFFICES ASSUME WorkerInit PROVE RelayKept
  OBVIOUS
<1> USE ConstantsAssumption
<1>1. proc = "down" /\ guard = FALSE
  BY DEF WorkerInit
<1>2. cycles \in [Slots -> Cycle] /\ \A k \in Slots : cycles[k] = NoCycle
  BY NoCycleType DEF WorkerInit
<1>3. events \in [Events -> Event]
      /\ \A e \in Events : events[e].attempts = 0 /\ events[e].status = "absent"
  BY DEF WorkerInit, Event
<1>4. RelayInv
  BY <1>2, <1>3, NoCycleType DEF RelayInv
<1> QED
  BY <1>1, <1>2, <1>3, <1>4, NoCycleType DEF RelayKept

\* A step that leaves the outbox, the guard and the cycles alone.
LEMMA RelayUnchanged ==
  ASSUME RelayKept, UNCHANGED relayVars, proc' \in {"down", "up", "closing", "closed"},
         proc' = "down" => proc = "down"
  PROVE  RelayKept'
BY DEF RelayKept, RelayInv, relayVars, Unsure, Turn

LEMMA EmitKept ==
  ASSUME RelayKept, NEW e \in Events, Emit(e)
  PROVE  RelayKept' /\ StayDone
<1>1. PICK valid \in BOOLEAN : events' = [events EXCEPT ![e].status = "pending", ![e].valid = valid]
  BY DEF Emit
<1>2. UNCHANGED <<proc, guard, cycles>> /\ events[e].status = "absent"
  BY DEF Emit
<1>3. events' \in [Events -> Event]
  BY <1>1 DEF RelayKept, Event
<1>4. \A f \in Events : f # e => events'[f] = events[f]
  BY <1>1 DEF RelayKept
<1>5. events'[e].status = "pending" /\ events'[e].attempts = events[e].attempts
  BY <1>1 DEF RelayKept, Event
<1>6. \A k \in Slots : \A b \in cycles[k].batch : b.id \in Events /\ b.id # e
  BY <1>2 DEF RelayKept, RelayInv, Cycle
<1>7. RelayInv'
  BY <1>2, <1>4, <1>5, <1>6 DEF RelayKept, RelayInv, Unsure, Turn
<1>8. \A f \in Events : events[f].attempts \in Nat
  BY ConstantsAssumption DEF RelayKept, Event
<1> QED
  BY <1>2, <1>3, <1>4, <1>5, <1>7, <1>8 DEF RelayKept, StayDone

\* The slots that are not at work are all alike; a cycle changes only its own.
LEMMA CycleMoves ==
  ASSUME RelayKept, NEW k \in Slots, NEW c \in Cycle, cycles' = [cycles EXCEPT ![k] = c],
         c.state # "none", guard',
         \A l \in Slots : l # k => cycles[l].state = "none",
         proc' = proc, proc # "down", events' \in [Events -> Event],
         Knows(c, events'),
         \A e \in Events : events'[e].status \in {"absent", "pending"} => events'[e].attempts < OutboxMaxAttempts
  PROVE  RelayKept'
<1>1. cycles' \in [Slots -> Cycle] /\ \A l \in Slots : cycles'[l] = IF l = k THEN c ELSE cycles[l]
  BY DEF RelayKept
<1>2. \A l \in Slots : cycles[l].state = "none" => cycles[l].batch = {}
  BY NoCycleType DEF RelayKept, RelayInv
<1>3. \A l \in Slots :
        /\ l # k => cycles'[l].batch = {} /\ cycles'[l].state = "none"
        /\ l = k => cycles'[l] = c
  BY <1>1, <1>2
<1>4. \A l \in Slots : cycles'[l].state = "none" => cycles'[l] = NoCycle
  BY <1>1 DEF RelayKept, RelayInv
<1>5. \A b \in c.batch : Unsure(k, b)' <=> c.at = "unsure" /\ b \in First(c)
  BY <1>3 DEF Unsure, Turn, First
<1>6. RelayInv'
  BY <1>3, <1>4, <1>5 DEF RelayInv, Knows
<1> QED
  BY <1>1, <1>3, <1>6 DEF RelayKept

\* The only cycle there is.
LEMMA OnlyCycle ==
  ASSUME RelayKept, NEW k \in Slots, cycles[k].state # "none"
  PROVE  /\ guard = TRUE /\ proc # "down"
         /\ \A l \in Slots : l # k => cycles[l].state = "none"
BY DEF RelayKept, RelayInv

LEMMA PollKept ==
  ASSUME RelayKept, Poll
  PROVE  RelayKept' /\ events' = events
<1>1. PICK k \in Slots : cycles' = [cycles EXCEPT ![k].state = "reading"]
  BY DEF Poll
<1>2. guard' = TRUE /\ ~guard /\ proc = "up" /\ UNCHANGED <<proc, events>>
  BY DEF Poll, TryStartCycle
<1>3. \A l \in Slots : cycles[l].state = "none" /\ cycles[l] = NoCycle
  BY <1>2 DEF RelayKept, RelayInv
<1>4. cycles' = [cycles EXCEPT ![k] = [NoCycle EXCEPT !.state = "reading"]]
  BY <1>1, <1>3 DEF RelayKept
<1>5. [NoCycle EXCEPT !.state = "reading"] \in Cycle
      /\ [NoCycle EXCEPT !.state = "reading"].state # "none"
      /\ Knows([NoCycle EXCEPT !.state = "reading"], events')
  BY DEF NoCycle, Cycle, Knows
<1> QED
  BY <1>2, <1>3, <1>4, <1>5, CycleMoves DEF RelayKept, RelayInv

LEMMA ReadBatchKept ==
  ASSUME RelayKept, NEW k \in Slots, ReadBatch(k)
  PROVE  RelayKept' /\ events' = events
<1>1. cycles[k] \in Cycle /\ cycles[k].state = "reading" /\ UNCHANGED <<proc, events, guard>>
  BY DEF ReadBatch, RelayKept
<1>2. \A b \in Selected : /\ b \in [id : Events, attempts : 0..OutboxMaxAttempts]
                          /\ events[b.id].status = "pending" /\ events[b.id].attempts = b.attempts
                          /\ b.attempts < OutboxMaxAttempts
  BY DEF Selected, Pending, RelayKept, Event
<1> DEFINE c == [cycles[k] EXCEPT !.state = "working", !.batch = Selected]
<1>3. c \in Cycle /\ c.state = "working" /\ c.batch = Selected /\ c.at = "add"
  BY <1>1, <1>2, KnowsEach DEF Cycle, Knows
<1>4. cycles' = [cycles EXCEPT ![k] = c]
  BY DEF ReadBatch, RelayKept
<1> HIDE DEF c
<1>5. Knows(c, events')
  BY <1>1, <1>2, <1>3 DEF Knows
<1> QED
  BY <1>1, <1>3, <1>4, <1>5, OnlyCycle, CycleMoves DEF RelayKept, RelayInv

\* A cycle that ends, and the end of all of them, leave none.
LEMMA NoneLeft ==
  ASSUME RelayKept, cycles' \in [Slots -> {NoCycle}], guard' = FALSE, UNCHANGED events,
         proc' \in {"down", "up", "closing", "closed"}
  PROVE  RelayKept'
BY NoCycleType DEF RelayKept, RelayInv, NoCycle

LEMMA FinishCycleKept ==
  ASSUME RelayKept, NEW k \in Slots, FinishCycle(k)
  PROVE  RelayKept' /\ events' = events
<1>1. cycles[k].state # "none" /\ cycles' = [cycles EXCEPT ![k] = NoCycle] /\ guard' = FALSE
      /\ UNCHANGED <<proc, events>>
  BY DEF FinishCycle
<1>2. \A l \in Slots : l # k => cycles[l] = NoCycle
  BY <1>1, OnlyCycle DEF RelayKept, RelayInv
<1>3. cycles' \in [Slots -> {NoCycle}]
  BY <1>1, <1>2 DEF RelayKept
<1> QED
  BY <1>1, <1>3, NoneLeft DEF RelayKept

\* An event whose turn it is: pending, unless the cycle is unsure of it, and no
\* other of the batch is about it.
LEMMA TurnIsPending ==
  ASSUME RelayKept, NEW k \in Slots, NEW b \in Turn(k)
  PROVE  /\ b \in cycles[k].batch /\ b.id \in Events /\ b.attempts + 1 \in 0..OutboxMaxAttempts
         /\ cycles[k] \in Cycle /\ cycles[k].state = "working"
         /\ events[b.id] \in Event /\ events[b.id].attempts = b.attempts
         /\ b.attempts \in Nat /\ b.attempts < OutboxMaxAttempts
         /\ events[b.id].status = IF cycles[k].at = "unsure" THEN "processed" ELSE "pending"
         /\ \A d \in cycles[k].batch \ {b} :
              /\ d.id \in Events /\ d.id # b.id /\ events[d.id].status = "pending"
              /\ d \notin Turn(k)
<1>1. b \in cycles[k].batch /\ cycles[k].state = "working" /\ cycles[k] \in Cycle
  BY DEF Turn, RelayKept
<1>2. \A d \in cycles[k].batch :
        /\ d \in [id : Events, attempts : 0..OutboxMaxAttempts]
        /\ events[d.id].attempts = d.attempts /\ d.attempts < OutboxMaxAttempts
        /\ events[d.id].status =
             IF cycles[k].at = "unsure" /\ d \in Turn(k) THEN "processed" ELSE "pending"
  BY <1>1, KnowsEach DEF Knows, Cycle
<1>3. \A d \in cycles[k].batch : d.id = b.id => d = b
  BY <1>1, <1>2
<1>4. \A d \in cycles[k].batch : d \in Turn(k) => d = b
  <2> SUFFICES ASSUME NEW d \in cycles[k].batch, d \in Turn(k) PROVE d = b
    OBVIOUS
  <2>1. d.id <= b.id /\ b.id <= d.id /\ d.id \in Int /\ b.id \in Int
    BY <1>1, <1>2 DEF Turn, Events
  <2> QED
    BY <1>3, <2>1
<1>5. b.attempts \in Nat /\ OutboxMaxAttempts \in Nat /\ b.attempts < OutboxMaxAttempts
  BY <1>1, <1>2, ConstantsAssumption
<1> QED
  BY <1>1, <1>2, <1>3, <1>4, <1>5 DEF RelayKept

\* What comes next for an event, which is or is not marked on the way.
LEMMA GoesKept ==
  ASSUME RelayKept, NEW k \in Slots, NEW b \in Turn(k), UNCHANGED <<proc, guard>>,
         NEW at \in {"mark", "catch", "unsure"}, Goes(k, at), cycles[k].at # "unsure",
         IF at = "unsure" THEN Marked(b) ELSE UNCHANGED events
  PROVE  RelayKept' /\ StayDone
<1> DEFINE c == [cycles[k] EXCEPT !.at = at]
<1>0. cycles[k] \in Cycle /\ cycles[k].state = "working"
  BY TurnIsPending
<1>1. c \in Cycle /\ c.state = "working" /\ c.batch = cycles[k].batch /\ c.at = at
  BY <1>0 DEF Cycle
<1>2. cycles' = [cycles EXCEPT ![k] = c]
  BY DEF Goes, RelayKept
<1> HIDE DEF c
<1>3. First(c) = Turn(k)
  BY <1>0, <1>1 DEF First, Turn
<1>4. /\ events' \in [Events -> Event]
      /\ \A e \in Events : events'[e].attempts = events[e].attempts
      /\ \A e \in Events : e # b.id => events'[e] = events[e]
      /\ events'[b.id].status = IF at = "unsure" THEN "processed" ELSE "pending"
  <2>1. CASE at = "unsure"
    BY <2>1, TurnIsPending DEF Marked, RelayKept, Event
  <2>2. CASE at # "unsure"
    BY <2>2, TurnIsPending DEF RelayKept
  <2> QED
    BY <2>1, <2>2
<1>5. Knows(c, events')
  <2>1. ASSUME NEW d \in c.batch
        PROVE  /\ events'[d.id].attempts = d.attempts /\ d.attempts < OutboxMaxAttempts
               /\ events'[d.id].status = IF c.at = "unsure" /\ d \in First(c) THEN "processed" ELSE "pending"
    <3>1. d \in cycles[k].batch /\ d.id \in Events
      BY <1>0, <1>1 DEF Cycle
    <3>2. events'[d.id].attempts = d.attempts /\ d.attempts < OutboxMaxAttempts
      BY <1>4, <3>1, KnowsEach DEF Knows
    <3>3. CASE d = b
      BY <1>1, <1>3, <1>4, <3>2, <3>3
    <3>4. CASE d # b
      BY <1>3, <1>4, <3>1, <3>2, <3>4, TurnIsPending
    <3> QED
      BY <3>3, <3>4
  <2> QED
    BY <1>1, <2>1 DEF Knows
<1>6. guard /\ proc # "down" /\ \A l \in Slots : l # k => cycles[l].state = "none"
  BY <1>0, OnlyCycle
<1>7. \A e \in Events : events'[e].status \in {"absent", "pending"} => events'[e].attempts < OutboxMaxAttempts
  BY <1>4, TurnIsPending DEF RelayKept, RelayInv
<1>8. RelayKept'
  BY <1>1, <1>2, <1>4, <1>5, <1>6, <1>7, CycleMoves
<1>9. StayDone
  <2>1. \A e \in Events : events[e].attempts \in Nat
    BY ConstantsAssumption DEF RelayKept, Event
  <2>2. events[b.id].status = "pending"
    BY TurnIsPending
  <2> QED
    BY <1>4, <2>1, <2>2 DEF StayDone
<1> QED
  BY <1>8, <1>9

\* The event is done with, for this cycle.
LEMMA AdvanceKept ==
  ASSUME RelayKept, NEW k \in Slots, NEW b \in Turn(k), Advance(k, b), UNCHANGED <<proc, guard>>,
         NEW ev \in Event, events' = [events EXCEPT ![b.id] = ev],
         ev.attempts >= events[b.id].attempts,
         ev.status \in {"absent", "pending"} => ev.attempts < OutboxMaxAttempts,
         events[b.id].status = "processed" => ev.status \in {"processed", "failed"}
  PROVE  RelayKept' /\ StayDone
<1> DEFINE c == [cycles[k] EXCEPT !.batch = @ \ {b}, !.at = "add"]
<1>1. c \in Cycle /\ c.state = "working" /\ c.batch = cycles[k].batch \ {b} /\ c.at = "add"
  BY TurnIsPending DEF Cycle
<1>2. cycles' = [cycles EXCEPT ![k] = c]
  BY DEF Advance, RelayKept
<1>3. events' \in [Events -> Event] /\ \A f \in Events : f # b.id => events'[f] = events[f]
  BY DEF RelayKept
<1>4. events'[b.id] = ev /\ events[b.id].status \in {"pending", "processed"} /\ b.id \in Events
  BY TurnIsPending DEF RelayKept
<1>5. \A d \in c.batch : /\ d \in cycles[k].batch /\ d.id \in Events /\ d.id # b.id
                         /\ events[d.id].status = "pending"
  BY <1>1, TurnIsPending
<1> HIDE DEF c
<1>6. Knows(c, events')
  BY <1>1, <1>3, <1>5, KnowsEach DEF Knows
<1>7. \A e \in Events : events'[e].status \in {"absent", "pending"} => events'[e].attempts < OutboxMaxAttempts
  BY <1>3, <1>4 DEF RelayKept, RelayInv
<1>8. guard /\ proc # "down" /\ \A l \in Slots : l # k => cycles[l].state = "none"
  BY OnlyCycle, TurnIsPending
<1>9. RelayKept'
  BY <1>1, <1>2, <1>3, <1>6, <1>7, <1>8, CycleMoves
<1>10. StayDone
  <2>1. \A e \in Events : events[e].attempts \in Nat
    BY ConstantsAssumption DEF RelayKept, Event
  <2>2. events[b.id].status = "processed" => b \in cycles[k].batch /\ Unsure(k, b)
    BY TurnIsPending DEF Unsure
  <2> QED
    BY <1>3, <1>4, <2>1, <2>2 DEF StayDone
<1> QED
  BY <1>9, <1>10

LEMMA AttemptedEvent ==
  ASSUME RelayKept, NEW k \in Slots, NEW b \in Turn(k), events' = Attempted(b)
  PROVE  \E ev \in Event :
           /\ events' = [events EXCEPT ![b.id] = ev]
           /\ ev.attempts >= events[b.id].attempts
           /\ ev.status \in {"absent", "pending"} => ev.attempts < OutboxMaxAttempts
           /\ events[b.id].status = "processed" => ev.status \in {"processed", "failed"}
<1> USE ConstantsAssumption
<1> DEFINE made == b.attempts + 1
<1> DEFINE status == IF made >= OutboxMaxAttempts THEN "failed" ELSE events[b.id].status
<1> DEFINE ev == [events[b.id] EXCEPT !.attempts = made, !.status = status]
<1>1. events' = [events EXCEPT ![b.id] = ev]
  BY TurnIsPending DEF Attempted, RelayKept, Event
<1>2. /\ made \in 0..OutboxMaxAttempts /\ events[b.id] \in Event
      /\ events[b.id].status \in {"pending", "processed"}
      /\ made >= events[b.id].attempts
  BY TurnIsPending
<1>3. \/ status = "failed"
      \/ status = events[b.id].status /\ made < OutboxMaxAttempts
  BY <1>2
<1> HIDE DEF made, status
<1>4. ev \in Event /\ ev.attempts = made /\ ev.status = status
  BY <1>2, <1>3 DEF Event
<1> HIDE DEF ev
<1> QED
  BY <1>1, <1>2, <1>3, <1>4

LEMMA RelayStepKept ==
  ASSUME RelayKept, NEW k \in Slots, RelayStep(k)
  PROVE  RelayKept' /\ StayDone
<1>1. CASE ReadBatch(k) \/ FinishCycle(k)
  BY <1>1, ReadBatchKept, FinishCycleKept, SameStayDone
<1>2. CASE Publish(k)
  <2>1. PICK b \in Turn(k), at \in {"mark", "catch"} :
          cycles[k].at = "add" /\ Goes(k, at) /\ UNCHANGED <<proc, guard, events>>
    BY <1>2 DEF Publish
  <2> QED
    BY <2>1, GoesKept
<1>3. CASE MarkProcessed(k)
  <2>1. PICK b \in Turn(k) :
          cycles[k].at = "mark" /\ Marked(b) /\ Advance(k, b) /\ UNCHANGED <<proc, guard>>
    BY <1>3 DEF MarkProcessed
  <2> DEFINE ev == [events[b.id] EXCEPT !.status = "processed"]
  <2>2. ev \in Event /\ ev.status = "processed" /\ ev.attempts = b.attempts
        /\ events[b.id].attempts = b.attempts /\ b.attempts \in Nat
    BY TurnIsPending DEF Event
  <2>3. events' = [events EXCEPT ![b.id] = ev]
    BY <2>1 DEF Marked
  <2> HIDE DEF ev
  <2>4. /\ ev.attempts >= events[b.id].attempts
        /\ ev.status \in {"absent", "pending"} => ev.attempts < OutboxMaxAttempts
        /\ events[b.id].status = "processed" => ev.status \in {"processed", "failed"}
    BY <2>2
  <2> QED
    BY <2>1, <2>2, <2>3, <2>4, AdvanceKept
<1>4. CASE MarkFails(k)
  <2>1. PICK b \in Turn(k), at \in {"catch", "unsure"} :
          /\ cycles[k].at = "mark" /\ Goes(k, at) /\ UNCHANGED <<proc, guard>>
          /\ IF at = "unsure" THEN Marked(b) ELSE UNCHANGED events
    BY <1>4 DEF MarkFails
  <2> QED
    BY <2>1, GoesKept
<1>5. CASE CatchEvent(k)
  <2>1. PICK b \in Turn(k) :
          Advance(k, b) /\ UNCHANGED <<proc, guard>> /\ (events' = Attempted(b) \/ UNCHANGED events)
    BY <1>5 DEF CatchEvent
  <2>2. CASE events' = Attempted(b)
    <3>1. PICK ev \in Event :
            /\ events' = [events EXCEPT ![b.id] = ev]
            /\ ev.attempts >= events[b.id].attempts
            /\ ev.status \in {"absent", "pending"} => ev.attempts < OutboxMaxAttempts
            /\ events[b.id].status = "processed" => ev.status \in {"processed", "failed"}
      BY <2>2, AttemptedEvent
    <3> QED
      BY <2>1, <3>1, AdvanceKept
  <2>3. CASE UNCHANGED events
    <3>1. events' = [events EXCEPT ![b.id] = events[b.id]]
      BY <2>3 DEF RelayKept
    <3>2. /\ events[b.id] \in Event /\ events[b.id].attempts < OutboxMaxAttempts
          /\ events[b.id].attempts \in Nat
      BY TurnIsPending
    <3>3. /\ events[b.id].attempts >= events[b.id].attempts
          /\ events[b.id].status = "processed" => events[b.id].status \in {"processed", "failed"}
      BY <3>2
    <3> QED
      BY <2>1, <3>1, <3>2, <3>3, AdvanceKept
  <2> QED
    BY <2>1, <2>2, <2>3
<1> QED
  BY <1>1, <1>2, <1>3, <1>4, <1>5 DEF RelayStep

LEMMA NextRelay ==
  ASSUME RelayKept, [Next]_vars
  PROVE  RelayKept' /\ StayDone
<1>1. CASE \E e \in Events : Emit(e)
  BY <1>1, EmitKept
<1>2. CASE Poll
  BY <1>2, PollKept, SameStayDone
<1>3. CASE \E k \in Slots : RelayStep(k)
  BY <1>3, RelayStepKept
<1>4. CASE UNCHANGED <<proc, relayVars>>
  BY <1>4, RelayUnchanged, SameStayDone DEF RelayKept, relayVars
<1>5. CASE \E n \in Notifications : TelegramStep(n)
  BY <1>4, <1>5 DEF TelegramStep, Notify, Take, Delivered, Refused, TimesOut, JobStalled, Copy, CopyFails, JobStep
<1>6. CASE RetentionStep
  BY <1>4, <1>6 DEF RetentionStep, RowAges, NextDay, Cleanup, CleanBatch, CleanFails, CleanAgain, Else
<1>7. CASE ProcessStep
  <2>1. CASE Start \/ Signal \/ CloseQueues
    <3>1. UNCHANGED relayVars /\ proc' \in {"up", "closing", "closed"}
      BY <2>1 DEF Start, Signal, CloseQueues
    <3> QED
      BY <3>1, RelayUnchanged, SameStayDone DEF relayVars
  <2>2. CASE Exit \/ Crash
    <3>1. cycles' \in [Slots -> {NoCycle}] /\ guard' = FALSE /\ UNCHANGED events /\ proc' = "down"
      BY <2>2 DEF Exit, Crash, Gone
    <3> QED
      BY <3>1, NoneLeft, SameStayDone
  <2> QED
    BY <1>7, <2>1, <2>2 DEF ProcessStep
<1> QED
  BY <1>1, <1>2, <1>3, <1>4, <1>5, <1>6, <1>7 DEF Next, vars, relayVars

\* What is done with an event stays done, for any number of events and any size
\* of the batch: the guard lets no second cycle read it before and charge or
\* fail it after; only the cycle that marked it may, once, if the answer was lost.
THEOREM DoneIsDoneAlways == SafeSpec => DoneIsDone
<1>1. RelayKept /\ [Next]_vars => RelayKept'
  BY NextRelay
<1>2. RelayKept /\ [Next]_vars =>
        [\A e \in Events :
           /\ events'[e].attempts >= events[e].attempts
           /\ events[e].status = "failed" => events'[e] = events[e]
           /\ events[e].status = "processed" /\ events'[e] # events[e] =>
                /\ \E k \in Slots : \E b \in cycles[k].batch : b.id = e /\ Unsure(k, b)
                /\ events'[e].status \in {"processed", "failed"}]_vars
  BY NextRelay DEF StayDone
<1> QED
  BY InitRelay, <1>1, <1>2, PTL DEF SafeSpec, DoneIsDone

-----------------------------------------------------------------------------
(***************************************************************************)
(* The process, and the invariant as a whole.                              *)
(***************************************************************************)

\* What nobody holds is not at work.
ProcessKept ==
  /\ load \in Loads /\ faults \in 0..MaxFaults
  /\ proc = "down" =>
       /\ ~run.held
       /\ \A n \in Notifications : ~jobs[n].held /\ jobs[n].copy # "copying"

LEMMA InitProcess == WorkerInit => ProcessKept
BY ConstantsAssumption DEF WorkerInit, ProcessKept, Init, NoRun, NoJob

LEMMA ProcessUnchanged ==
  ASSUME ProcessKept, UNCHANGED <<load, jobs, run>>, NoFault \/ Fault,
         proc' = "down" => proc = "down"
  PROVE  ProcessKept'
BY ConstantsAssumption DEF ProcessKept, NoFault, Fault

LEMMA TelegramProcess ==
  ASSUME JobsAccounted, ProcessKept, NEW n \in Notifications, TelegramStep(n)
  PROVE  ProcessKept'
<1>1. UNCHANGED <<load, proc, run>> /\ (NoFault \/ Fault)
  BY DEF TelegramStep, Notify, Take, Delivered, Refused, TimesOut, JobStalled, Copy, CopyFails,
         JobStep, retentionVars
<1>2. load' \in Loads /\ faults' \in 0..MaxFaults
  BY <1>1, ConstantsAssumption DEF ProcessKept, NoFault, Fault
<1>3. CASE proc # "down"
  BY <1>1, <1>2, <1>3 DEF ProcessKept
<1>4. CASE proc = "down"
  <2>1. Notify(n)
    BY <1>4 DEF ProcessKept, TelegramStep, Take, Delivered, Refused, TimesOut, JobStalled, Copy, CopyFails
  <2>2. \A m \in Notifications : jobs'[m].held = jobs[m].held /\ jobs'[m].copy = jobs[m].copy
    BY <2>1 DEF Notify, JobsAccounted, Accounted, Job
  <2> QED
    BY <1>1, <1>2, <2>2 DEF ProcessKept
<1> QED
  BY <1>3, <1>4

LEMMA RetentionProcess ==
  ASSUME RetentionKept, ProcessKept, RetentionStep
  PROVE  ProcessKept'
<1>1. UNCHANGED <<load, proc, jobs>> /\ (NoFault \/ Fault)
  BY DEF RetentionStep, RowAges, NextDay, Cleanup, CleanBatch, CleanFails, CleanAgain, Else, relayVars
<1>2. load' \in Loads /\ faults' \in 0..MaxFaults
  BY <1>1, ConstantsAssumption DEF ProcessKept, NoFault, Fault
<1>3. CASE proc # "down"
  BY <1>1, <1>2, <1>3 DEF ProcessKept
<1>4. CASE proc = "down"
  <2>1. RowAges \/ NextDay
    BY <1>4 DEF ProcessKept, RetentionStep, Cleanup, CleanBatch, CleanFails, CleanAgain, Batch,
                StepFails, Running
  <2>2. ~run'.held
    BY <1>4, <2>1 DEF ProcessKept, RowAges, NextDay, Age, Day, NoRun
  <2> QED
    BY <1>1, <1>2, <1>4, <2>2 DEF ProcessKept
<1> QED
  BY <1>3, <1>4

LEMMA GoneProcess ==
  ASSUME RetentionKept, JobsAccounted, ProcessKept, Gone, NoFault \/ Fault
  PROVE  ProcessKept'
<1>1. ~run'.held
  BY DEF Gone, Dropped, RetentionKept, TypeOK, Run
<1>2. ASSUME NEW n \in Notifications
      PROVE  ~jobs'[n].held /\ jobs'[n].copy # "copying"
  <2>1. jobs[n] \in Job
    BY DEF JobsAccounted
  <2> QED
    BY <2>1 DEF Gone, Job
<1>3. UNCHANGED load
  BY DEF Gone
<1> QED
  BY <1>1, <1>2, <1>3, ConstantsAssumption DEF ProcessKept, NoFault, Fault

LEMMA NextProcess ==
  ASSUME RetentionKept, JobsAccounted, ProcessKept, [Next]_vars
  PROVE  ProcessKept'
<1>1. CASE (\E e \in Events : Emit(e)) \/ Poll \/ (\E k \in Slots : RelayStep(k))
  <2>1. UNCHANGED <<load, proc, jobs, run>> /\ (NoFault \/ Fault)
    BY <1>1 DEF Emit, Poll, RelayStep, ReadBatch, FinishCycle, Publish, MarkProcessed, MarkFails,
                CatchEvent, retentionVars
  <2> QED
    BY <2>1, ProcessUnchanged
<1>2. CASE \E n \in Notifications : TelegramStep(n)
  BY <1>2, TelegramProcess
<1>3. CASE RetentionStep
  BY <1>3, RetentionProcess
<1>4. CASE ProcessStep
  <2>1. CASE Start \/ Signal \/ CloseQueues
    <3>1. UNCHANGED load /\ (NoFault \/ Fault) /\ proc' # "down"
      BY <2>1 DEF Start, Signal, CloseQueues
    <3> QED
      BY <3>1, ConstantsAssumption DEF ProcessKept, NoFault, Fault
  <2>2. CASE Exit \/ Crash
    BY <2>2, GoneProcess DEF Exit, Crash
  <2> QED
    BY <1>4, <2>1, <2>2 DEF ProcessStep
<1>5. CASE UNCHANGED vars
  BY <1>5 DEF vars, retentionVars, ProcessKept
<1> QED
  BY <1>1, <1>2, <1>3, <1>4, <1>5 DEF Next

\* The invariant of the runs, provided that the two constants agree.
THEOREM ConsistentAlways ==
  ASSUME AttemptsAgree
  PROVE  SafeSpec => []Consistent
<1> DEFINE Inv == RetentionKept /\ JobsAccounted /\ RelayKept /\ ProcessKept
<1>1. WorkerInit => Inv
  BY InitRetention, InitJobs, InitRelay, InitProcess
<1>2. Inv /\ [Next]_vars => Inv'
  BY NextRetention, NextJobs, NextRelay, NextProcess
<1>3. Inv => Consistent
  <2>1. JobsAccounted => JobInv /\ jobs \in [Notifications -> Job]
    BY DEF JobsAccounted, Accounted, JobInv
  <2> QED
    BY <2>1 DEF RetentionKept, RelayKept, ProcessKept, Consistent
<1> HIDE DEF Inv
<1> QED
  BY <1>1, <1>2, <1>3, PTL DEF SafeSpec

================================================================================
