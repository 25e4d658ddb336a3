----------------------------- MODULE WorkerProcess -----------------------------
(***************************************************************************)
(* The worker as a process: it starts, polls the outbox under the guard    *)
(* against overlapping cycles, runs jobs, copies the exhausted ones to the *)
(* dead-letter queue, and is stopped by a signal or dies. What the jobs of *)
(* images, posts and AI runs do is the other modules' business; the        *)
(* Telegram notifications stand for the queues here, and the retention job *)
(* is the module Retention.                                                *)
(***************************************************************************)
EXTENDS Retention

CONSTANTS
  Loads,               \* the sets of work a behaviour may have
  MaxEvents,           \* bound on the events of the outbox
  BatchSize,           \* OUTBOX_BATCH_SIZE
  OutboxMaxAttempts,   \* OUTBOX_MAX_ATTEMPTS
  Notifications,       \* comments and contact messages to be notified
  Concurrency,         \* of the Telegram worker
  JobAttempts,         \* attempts of a Telegram job, in the API's queue
  DlqAttempts,         \* dlq.maxAttempts of the Telegram worker
  MaxFaults            \* bound on failed calls, crashes and signals

ASSUME ConstantsAssumption ==
  /\ Loads \subseteq SUBSET {"relay", "telegram", "retention"}
  /\ {MaxEvents, MaxFaults, MaxOld} \subseteq Nat
  /\ {BatchSize, OutboxMaxAttempts, Concurrency, JobAttempts, DlqAttempts, CleanupBatch}
       \subseteq Nat \ {0}

VARIABLES
  load,     \* the work of this behaviour
  proc,     \* the process
  events,   \* the outbox, in the order of created_at
  guard,    \* relayInFlight
  cycles,   \* the cycles of the relay under way
  jobs,     \* the Telegram jobs, with the listener of "failed" and the copy
  faults

vars == <<load, proc, events, guard, cycles, jobs, faults, retentionVars>>
relayVars == <<events, guard, cycles>>

-----------------------------------------------------------------------------
Events == 1..MaxEvents

\* "valid": the type is known and the payload parses.
Event == [status : {"absent", "pending", "processed", "failed"}, valid : BOOLEAN,
          attempts : 0..OutboxMaxAttempts]

\* What a cycle has read: events with the attempts they had then, and what
\* comes next for the event whose turn it is: the add(), the mark, or the catch,
\* which is "unsure" when the mark took effect and only its answer was lost.
\* Two cycles may run together if the guard lets them.
Cycle == [state : {"none", "reading", "working"},
          batch : SUBSET [id : Events, attempts : 0..OutboxMaxAttempts],
          at : {"add", "mark", "catch", "unsure"}]
NoCycle == [state |-> "none", batch |-> {}, at |-> "add"]
Slots == 1..2

\* "copying": the listener of "failed" is adding the copy. "lost" is
\* history: the copy could not be added, or the process ended first.
Job == [state : {"none", "unqueued", "waiting", "active", "completed", "failed"},
        attemptsMade : 0..JobAttempts, held : BOOLEAN, stalled : BOOLEAN,
        copy : {"none", "copying", "copied", "lost"}]
NoJob == [state |-> "none", attemptsMade |-> 0, held |-> FALSE, stalled |-> FALSE,
          copy |-> "none"]

\* A job in the worker's hands is active; one that is not given up has attempts
\* left and no copy.
JobInv ==
  \A n \in Notifications :
    /\ jobs[n].held => jobs[n].state = "active"
    /\ jobs[n].state # "failed" => jobs[n].attemptsMade < JobAttempts /\ jobs[n].copy = "none"

\* The event whose turn it is, if one is left.
Turn(k) ==
  {b \in cycles[k].batch :
     cycles[k].state = "working" /\ \A c \in cycles[k].batch : b.id <= c.id}

\* The answer of the mark of this event was lost, and the catch is to come.
Unsure(k, b) == cycles[k].at = "unsure" /\ b \in Turn(k)

\* One cycle at a time, which knows its events as they are, but for the one it is
\* unsure of; those that can be relayed have attempts left.
RelayInv ==
  /\ \A k \in Slots : cycles[k].state = "none" => cycles[k] = NoCycle
  /\ \A k, l \in Slots : cycles[k].state # "none" /\ cycles[l].state # "none" => k = l
  /\ \A k \in Slots : cycles[k].state = "reading" => cycles[k].at = "add"
  /\ \A k \in Slots : \A b \in cycles[k].batch :
       /\ events[b.id].attempts = b.attempts /\ b.attempts < OutboxMaxAttempts
       /\ events[b.id].status = IF Unsure(k, b) THEN "processed" ELSE "pending"
  /\ \A e \in Events :
       events[e].status \in {"absent", "pending"} => events[e].attempts < OutboxMaxAttempts

\* A cycle under way holds the guard, and what nobody holds is not at work.
Consistent ==
  /\ TypeOK
  /\ load \in Loads
  /\ proc \in {"down", "up", "closing", "closed"}
  /\ events \in [Events -> Event]
  /\ guard \in BOOLEAN
  /\ cycles \in [Slots -> Cycle]
  /\ jobs \in [Notifications -> Job]
  /\ faults \in 0..MaxFaults
  /\ JobInv /\ RunInv /\ RelayInv
  /\ guard <=> \E k \in Slots : cycles[k].state # "none"
  /\ proc = "down" =>
       /\ ~guard /\ ~run.held
       /\ \A n \in Notifications : ~jobs[n].held /\ jobs[n].copy # "copying"

WorkerInit ==
  /\ Init
  /\ load \in Loads
  /\ "retention" \in load \/ broken = {}
  /\ proc = "down"
  /\ events = [e \in Events |-> [status |-> "absent", valid |-> TRUE, attempts |-> 0]]
  /\ guard = FALSE
  /\ cycles = [k \in Slots |-> NoCycle]
  /\ jobs = [n \in Notifications |-> NoJob]
  /\ faults = 0

Fault == faults < MaxFaults /\ faults' = faults + 1
NoFault == UNCHANGED faults

Working == proc \in {"up", "closing"}

-----------------------------------------------------------------------------
\* The outbox and its relay. A transaction commits its event, not
\* necessarily in the order of created_at.
Emit(e) ==
  /\ "relay" \in load
  /\ events[e].status = "absent"
  /\ \E valid \in BOOLEAN :
       events' = [events EXCEPT ![e].status = "pending", ![e].valid = valid]
  /\ NoFault
  /\ UNCHANGED <<load, proc, guard, cycles, jobs, retentionVars>>

\* Mutant: a poll only notes that a cycle is in flight.
TryStartCycle_Always == guard' = TRUE

TryStartCycle == ~guard /\ guard' = TRUE

\* The initial run or a tick of the interval, which the signal clears.
Poll ==
  /\ "relay" \in load
  /\ proc = "up"
  /\ TryStartCycle
  /\ LET free == {k \in Slots : cycles[k].state = "none"}
     IN  /\ free # {}
         /\ LET k == CHOOSE k \in free : TRUE
            IN  cycles' = [cycles EXCEPT ![k].state = "reading"]
  /\ NoFault
  /\ UNCHANGED <<load, proc, events, jobs, retentionVars>>

Pending == {e \in Events : events[e].status = "pending" /\ events[e].attempts < OutboxMaxAttempts}

Before(e) == {f \in Pending : f < e}

\* The oldest pending events, as many as a cycle takes.
Selected ==
  {[id |-> e, attempts |-> events[e].attempts] :
     e \in {f \in Pending : Cardinality(Before(f)) < BatchSize}}

ReadBatch(k) ==
  /\ cycles[k].state = "reading"
  /\ cycles' = [cycles EXCEPT ![k].state = "working", ![k].batch = Selected]
  /\ NoFault
  /\ UNCHANGED <<load, proc, events, guard, jobs, retentionVars>>

\* Mutant: no finally.
FinishCycle_Success(k) ==
  /\ \/ cycles[k].state = "working" /\ cycles[k].batch = {} /\ NoFault /\ guard' = FALSE
     \/ cycles[k].state = "reading" /\ Fault /\ UNCHANGED guard
  /\ cycles' = [cycles EXCEPT ![k] = NoCycle]
  /\ UNCHANGED <<load, proc, events, jobs, retentionVars>>

\* finishCycle(), after the batch or a failed query.
FinishCycle(k) ==
  /\ \/ cycles[k].state = "working" /\ cycles[k].batch = {} /\ NoFault
     \/ cycles[k].state = "reading" /\ Fault
  /\ cycles' = [cycles EXCEPT ![k] = NoCycle]
  /\ guard' = FALSE
  /\ UNCHANGED <<load, proc, events, jobs, retentionVars>>

Advance(k, b) == cycles' = [cycles EXCEPT ![k].batch = @ \ {b}, ![k].at = "add"]
Goes(k, at)   == cycles' = [cycles EXCEPT ![k].at = at]

\* queue.add(): deduplicated by its jobId if it was made before. The payload may
\* not parse, and a signal closes the queues.
Publish(k) ==
  \E b \in Turn(k) :
    /\ cycles[k].at = "add"
    /\ IF events[b.id].valid /\ Working
         THEN \/ Goes(k, "mark") /\ NoFault
              \/ Goes(k, "catch") /\ Fault
         ELSE Goes(k, "catch") /\ NoFault
    /\ UNCHANGED <<load, proc, events, guard, jobs, retentionVars>>

Marked(b) == events' = [events EXCEPT ![b.id].status = "processed"]

MarkProcessed(k) ==
  \E b \in Turn(k) :
    /\ cycles[k].at = "mark"
    /\ Marked(b)
    /\ Advance(k, b)
    /\ NoFault
    /\ UNCHANGED <<load, proc, guard, jobs, retentionVars>>

\* The update fails, or takes effect and its answer is lost.
MarkFails(k) ==
  \E b \in Turn(k) :
    /\ cycles[k].at = "mark"
    /\ \/ Goes(k, "catch") /\ UNCHANGED events
       \/ Goes(k, "unsure") /\ Marked(b)
    /\ Fault
    /\ UNCHANGED <<load, proc, guard, jobs, retentionVars>>

\* Mutant: an event that cannot be published is left for the next cycle.
Attempted_Published(b) ==
  LET made == b.attempts + 1
  IN  IF events[b.id].valid
        THEN [events EXCEPT ![b.id].attempts = made,
                            ![b.id].status = IF made >= OutboxMaxAttempts THEN "failed" ELSE @]
        ELSE events

\* The catch of one event: the attempts are those that were read.
Attempted(b) ==
  LET made == b.attempts + 1
  IN  [events EXCEPT ![b.id].attempts = made,
                     ![b.id].status = IF made >= OutboxMaxAttempts THEN "failed" ELSE @]

\* The attempt is counted whatever the row has become; or that update fails.
CatchEvent(k) ==
  \E b \in Turn(k) :
    /\ cycles[k].at \in {"catch", "unsure"}
    /\ \/ events' = Attempted(b) /\ NoFault
       \/ UNCHANGED events /\ Fault
    /\ Advance(k, b)
    /\ UNCHANGED <<load, proc, guard, jobs, retentionVars>>

RelayStep(k) ==
  \/ ReadBatch(k) \/ FinishCycle(k)
  \/ Publish(k) \/ MarkProcessed(k) \/ MarkFails(k) \/ CatchEvent(k)

-----------------------------------------------------------------------------
\* The Telegram notifications, and the dead-letter queue.
JobStep == UNCHANGED <<load, proc, relayVars, retentionVars>>

\* submitContact() or createComment(): the row is stored, and the job queued
\* if Redis takes it.
Notify(n) ==
  /\ "telegram" \in load
  /\ jobs[n].state = "none"
  /\ \/ jobs' = [jobs EXCEPT ![n].state = "waiting"] /\ NoFault
     \/ jobs' = [jobs EXCEPT ![n].state = "unqueued"] /\ Fault
  /\ JobStep

Held == {n \in Notifications : jobs[n].held}

Take(n) ==
  /\ proc = "up"
  /\ jobs[n].state = "waiting"
  /\ Cardinality(Held) < Concurrency
  /\ jobs' = [jobs EXCEPT ![n].state = "active", ![n].held = TRUE]
  /\ NoFault
  /\ JobStep

Delivered(n) ==
  /\ jobs[n].held
  /\ jobs' = [jobs EXCEPT ![n].state = "completed", ![n].held = FALSE]
  /\ NoFault
  /\ JobStep

\* Mutant: the attempt that has just failed is counted once more.
IsExhausted_Next(attemptsMade) == attemptsMade + 1 >= DlqAttempts

IsExhausted(attemptsMade) == attemptsMade >= DlqAttempts

\* The attempt is over, and the listener of "failed" sees it counted.
AttemptFails(n) ==
  LET made == jobs[n].attemptsMade + 1
  IN  jobs' = [jobs EXCEPT
        ![n].state = IF made < JobAttempts THEN "waiting" ELSE "failed",
        ![n].attemptsMade = made, ![n].held = FALSE,
        ![n].copy = IF IsExhausted(made) THEN "copying" ELSE @]

\* Telegram says no, or the answer is lost.
Refused(n) ==
  /\ jobs[n].held
  /\ AttemptFails(n)
  /\ NoFault
  /\ JobStep

\* Mutant: fetch() without a signal.
TimesOut_Never(n) == FALSE /\ UNCHANGED vars

\* AbortSignal.timeout(): there is no answer.
TimesOut(n) ==
  /\ jobs[n].held
  /\ AttemptFails(n)
  /\ NoFault
  /\ JobStep

\* The process died under the job. The failure of a job that stalls twice
\* reaches the listener too, with few attempts made.
JobStalled(n) ==
  /\ proc = "up"
  /\ jobs[n].state = "active" /\ ~jobs[n].held
  /\ jobs' = IF jobs[n].stalled THEN [jobs EXCEPT ![n].state = "failed"]
             ELSE [jobs EXCEPT ![n].state = "waiting", ![n].stalled = TRUE]
  /\ NoFault
  /\ JobStep

Copy(n) ==
  /\ jobs[n].copy = "copying"
  /\ Working
  /\ jobs' = [jobs EXCEPT ![n].copy = "copied"]
  /\ NoFault
  /\ JobStep

\* The add fails, which is logged: a fault, or the queues are closed.
CopyFails(n) ==
  /\ jobs[n].copy = "copying"
  /\ IF Working THEN Fault ELSE NoFault
  /\ jobs' = [jobs EXCEPT ![n].copy = "lost"]
  /\ JobStep

TelegramStep(n) ==
  \/ Notify(n) \/ Take(n) \/ Delivered(n) \/ Refused(n) \/ TimesOut(n)
  \/ JobStalled(n) \/ Copy(n) \/ CopyFails(n)

-----------------------------------------------------------------------------
\* The retention job.
Else == "retention" \in load /\ UNCHANGED <<load, proc, relayVars, jobs>>

RowAges    == (\E t \in Tables : Age(t)) /\ NoFault /\ Else
NextDay    == Day /\ NoFault /\ Else
Cleanup    == proc = "up" /\ Begin /\ NoFault /\ Else
CleanBatch == Batch /\ NoFault /\ Else
CleanFails == StepFails /\ (IF Current \in broken THEN NoFault ELSE Fault) /\ Else
CleanAgain == proc = "up" /\ Stalled /\ NoFault /\ Else

RetentionStep ==
  RowAges \/ NextDay \/ Cleanup \/ CleanBatch \/ CleanFails \/ CleanAgain

-----------------------------------------------------------------------------
\* The process. Top-level code registers the scheduler, whose failure is
\* logged, before it polls.
Start ==
  /\ proc = "down"
  /\ proc' = "up"
  /\ \/ Register /\ NoFault
     \/ UNCHANGED retentionVars /\ Fault
  /\ UNCHANGED <<load, relayVars, jobs>>

\* SIGTERM: the intervals are cleared and no worker takes another job.
Signal ==
  /\ proc = "up"
  /\ proc' = "closing"
  /\ Fault
  /\ UNCHANGED <<load, relayVars, jobs, retentionVars>>

\* worker.close() waits for the active jobs; nothing waits for a cycle of
\* the relay or for the listeners.
CloseQueues ==
  /\ proc = "closing"
  /\ Held = {} /\ ~run.held
  /\ proc' = "closed"
  /\ NoFault
  /\ UNCHANGED <<load, relayVars, jobs, retentionVars>>

\* What was in memory is gone.
Gone ==
  /\ proc' = "down"
  /\ guard' = FALSE
  /\ cycles' = [k \in Slots |-> NoCycle]
  /\ jobs' = [n \in Notifications |->
       [jobs[n] EXCEPT !.held = FALSE, !.copy = IF @ = "copying" THEN "lost" ELSE @]]
  /\ Dropped
  /\ UNCHANGED <<load, events>>

Exit  == proc = "closed" /\ Gone /\ NoFault
Crash == proc # "down" /\ Gone /\ Fault

ProcessStep == Start \/ Signal \/ CloseQueues \/ Exit \/ Crash

Next ==
  \/ \E e \in Events : Emit(e)
  \/ Poll
  \/ \E k \in Slots : RelayStep(k)
  \/ \E n \in Notifications : TelegramStep(n)
  \/ RetentionStep
  \/ ProcessStep

SafeSpec == WorkerInit /\ [][Next]_vars

\* The container restarts the process, timers fire, and what the process has
\* begun goes on; Telegram owes nobody an answer, but a timeout comes.
Fairness ==
  /\ WF_vars(Start) /\ WF_vars(CloseQueues) /\ WF_vars(Exit)
  /\ WF_vars(Poll)
  /\ \A k \in Slots : WF_vars(RelayStep(k))
  /\ \A n \in Notifications :
       WF_vars(Take(n)) /\ WF_vars(TimesOut(n)) /\ WF_vars(JobStalled(n))
         /\ WF_vars(Copy(n) \/ CopyFails(n))
  /\ WF_vars(NextDay) /\ WF_vars(Cleanup) /\ WF_vars(CleanAgain)
  /\ WF_vars(CleanBatch \/ CleanFails)

Spec == SafeSpec /\ Fairness

-----------------------------------------------------------------------------
\* What is done with an event stays done: a cycle writes to an event that is
\* processed only if the answer of its own mark was lost, once, to count an attempt
\* that was none; it never makes it pending again, and nothing writes to one that
\* failed. No second cycle does with a copy from before, and no count of
\* attempts is taken back.
DoneIsDone ==
  [][\A e \in Events :
       /\ events'[e].attempts >= events[e].attempts
       /\ events[e].status = "failed" => events'[e] = events[e]
       /\ events[e].status = "processed" /\ events'[e] # events[e] =>
            /\ \E k \in Slots : \E b \in cycles[k].batch : b.id = e /\ Unsure(k, b)
            /\ events'[e].status \in {"processed", "failed"}]_vars

\* Every event that can be published is, although older ones cannot be and
\* fill the batch, calls fail and the process is stopped and dies on the way,
\* fewer times than an event has attempts.
ValidIsPublished ==
  [](faults < OutboxMaxAttempts) =>
    \A e \in Events :
      events[e].status = "pending" /\ events[e].valid ~> events[e].status = "processed"

\* The dead-letter queue has only jobs that are over, and all that have used
\* up their attempts, unless the copy was refused or the process was ended.
DeadLettered ==
  \A n \in Notifications :
    LET j == jobs[n]
    IN  /\ j.copy # "none" => j.state = "failed"
        /\ j.state = "failed" /\ j.attemptsMade = JobAttempts => j.copy # "none"

\* A queued notification is delivered or given up, even if Telegram never
\* answers: no job keeps the worker's concurrency.
NotificationEnds ==
  \A n \in Notifications :
    jobs[n].state = "waiting" ~> jobs[n].state \in {"completed", "failed"}

\* docs/outbox-queues-worker.md: the queue holds the jobs that exhausted all
\* attempts. Not if the process ends under the listener, which nothing
\* awaits, nor if the job failed by stalling.
HoldsAllFailed ==
  \A n \in Notifications :
    jobs[n].state = "failed" => jobs[n].copy \in {"copying", "copied"}

=============================================================================
