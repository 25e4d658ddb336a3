------------------------------- MODULE AiRun -------------------------------
(***************************************************************************)
(* One AI generation run, for a draft or for topics (the two jobs are the  *)
(* same program over two tables):                                          *)
(*   admin API      createDraftRun, createTopicRun                         *)
(*   PostgreSQL     the run's row and its outbox row                       *)
(*   outbox relay   processOutboxEvents, the AI branches                   *)
(*   BullMQ         the job of the run, and the lock of who works on it    *)
(*   processor      processAiPostDraftGeneration, ...TopicGeneration,      *)
(*                  on the worker's concurrent slots                       *)
(* A step is what happens between two awaits; stages that only the UI sees *)
(* are taken together.  Time is not modelled.                              *)
(***************************************************************************)
EXTENDS Integers, FiniteSets

CONSTANTS
  Slots,             \* the worker's concurrency on the queue
  NoSlot,
  FaultKinds,        \* which faults happen: a subset of AllFaults
  MaxFaults,         \* bound on their number
  OutboxMaxAttempts, \* OUTBOX_MAX_ATTEMPTS
  JobAttempts,       \* the job's "attempts" option
  MaxStalls          \* BullMQ's maxStalledCount

\* A call of the relay rejects; a query of the processor rejects, or takes
\* effect and only its answer is lost; the worker dies; a slot's lock expires
\* while it works (no contact to Redis).
AllFaults == {"relay", "query", "answer", "crash", "lock"}

ASSUME ConstantsAssumption ==
  /\ IsFiniteSet(Slots) /\ NoSlot \notin Slots
  /\ FaultKinds \subseteq AllFaults
  /\ {MaxFaults, MaxStalls} \subseteq Nat
  /\ {OutboxMaxAttempts, JobAttempts} \subseteq Nat \ {0}

VARIABLES
  run,     \* the run's row
  claims,  \* history: how often a claim took effect
  event,   \* the outbox row
  relay,   \* the relay's work on the event
  job,     \* the BullMQ job
  proc,    \* the processor on each slot
  faults   \* the faults that have happened: how many, and of which kinds

vars == <<run, claims, event, relay, job, proc, faults>>

-----------------------------------------------------------------------------
Active  == {"running", "validating"}
Ended   == {"completed", "failed", "timed_out"}

\* errorKind, as far as the code distinguishes kinds.
Kinds == {"provider", "timeout", "other"}

Run == [status : {"none", "queued"} \cup Active \cup Ended, result : BOOLEAN,
        error : Kinds \cup {"none"}]

Event == [status : {"none", "pending", "processed", "failed"},
          attempts : 0..OutboxMaxAttempts]

RelayState == {"idle", "add", "mark", "catch"}

Job == [state : {"missing", "waiting", "active", "completed", "failed"},
        holder : Slots \cup {NoSlot}, attemptsMade : 0..JobAttempts,
        stalls : 0..(MaxStalls + 1)]

\* "made" is the attemptsMade of the slot's own copy of the job.
Proc == [pc : {"idle", "claim", "provider", "validate", "save", "catch",
               "rethrow", "giveup", "finish"},
         kind : Kinds, made : 0..JobAttempts]

Faults == [count : 0..MaxFaults, kinds : SUBSET FaultKinds]

TypeOK ==
  /\ run \in Run
  /\ claims \in Nat
  /\ event \in Event
  /\ relay \in RelayState
  /\ job \in Job
  /\ proc \in [Slots -> Proc]
  /\ faults \in Faults

IdleProc == [pc |-> "idle", kind |-> "other", made |-> 0]

Init ==
  /\ run = [status |-> "none", result |-> FALSE, error |-> "none"]
  /\ claims = 0
  /\ event = [status |-> "none", attempts |-> 0]
  /\ relay = "idle"
  /\ job = [state |-> "missing", holder |-> NoSlot, attemptsMade |-> 0, stalls |-> 0]
  /\ proc = [s \in Slots |-> IdleProc]
  /\ faults = [count |-> 0, kinds |-> {}]

Fault(kind) ==
  /\ kind \in FaultKinds
  /\ faults.count < MaxFaults
  /\ faults' = [count |-> faults.count + 1, kinds |-> faults.kinds \cup {kind}]

-----------------------------------------------------------------------------
\* The configuration is resolved first; then the run and its event are
\* inserted in one transaction.
CreateRun ==
  /\ run.status = "none"
  /\ run' = [run EXCEPT !.status = "queued"]
  /\ event' = [status |-> "pending", attempts |-> 0]
  /\ UNCHANGED <<claims, relay, job, proc, faults>>

-----------------------------------------------------------------------------
(***************************************************************************)
(* The outbox relay.                                                       *)
(***************************************************************************)
relayRest == <<run, claims, proc>>

RelaySelect ==
  /\ relay = "idle"
  /\ event.status = "pending"
  /\ event.attempts <= OutboxMaxAttempts - 1
  /\ relay' = "add"
  /\ UNCHANGED <<relayRest, event, job, faults>>

\* Redis ignores an add() whose id it knows.
Added == IF job.state = "missing" THEN [job EXCEPT !.state = "waiting"] ELSE job

RelayAdd ==
  /\ relay = "add"
  /\ job' = Added
  /\ relay' = "mark"
  /\ UNCHANGED <<relayRest, event, faults>>

RelayAddFails ==
  /\ relay = "add"
  /\ Fault("relay")
  /\ job' \in {job, Added}
  /\ relay' = "catch"
  /\ UNCHANGED <<relayRest, event>>

Marked == [event EXCEPT !.status = "processed"]

RelayMark ==
  /\ relay = "mark"
  /\ event' = Marked
  /\ relay' = "idle"
  /\ UNCHANGED <<relayRest, job, faults>>

\* The update rejects, or takes effect and its answer is lost.
RelayMarkFails ==
  /\ relay = "mark"
  /\ Fault("relay")
  /\ event' \in {event, Marked}
  /\ relay' = "catch"
  /\ UNCHANGED <<relayRest, job>>

\* Mutant: giving up without a trace.
AfterFailure_Silent(n) == IF n >= OutboxMaxAttempts THEN "processed" ELSE event.status

AfterFailure(n) == IF n >= OutboxMaxAttempts THEN "failed" ELSE event.status

RelayCatch ==
  /\ relay = "catch"
  /\ event' = [attempts |-> event.attempts + 1,
               status |-> AfterFailure(event.attempts + 1)]
  /\ relay' = "idle"
  /\ UNCHANGED <<relayRest, job, faults>>

RelayCatchUnrecorded ==
  /\ relay = "catch"
  /\ Fault("relay")
  /\ relay' = "idle"
  /\ UNCHANGED <<relayRest, event, job>>

-----------------------------------------------------------------------------
(***************************************************************************)
(* BullMQ and the processor.                                               *)
(***************************************************************************)
procRest == <<event, relay>>

Goes(s, pc) == proc' = [proc EXCEPT ![s].pc = pc]

\* The slot's call has failed with an error of this kind: to the catch block.
Catches(s, kind) == proc' = [proc EXCEPT ![s].pc = "catch", ![s].kind = kind]

PickUp(s) ==
  /\ job.state = "waiting"
  /\ proc[s].pc = "idle"
  /\ job' = [job EXCEPT !.state = "active", !.holder = s]
  /\ proc' = [proc EXCEPT ![s] = [IdleProc EXCEPT !.pc = "claim", !.made = job.attemptsMade]]
  /\ UNCHANGED <<procRest, run, claims, faults>>

\* Mutant: UPDATE ... WHERE id, without the status.
Claimable_AnyStatus == run.status # "none"

\* UPDATE ... WHERE id AND status = 'queued'.
Claimable == run.status = "queued"

Claimed ==
  /\ run' = [run EXCEPT !.status = "running", !.error = "none"]
  /\ claims' = claims + 1

\* claimQueuedAiRun; a run that is not queued is somebody else's.
Claim(s) ==
  /\ proc[s].pc = "claim"
  /\ IF Claimable
     THEN Claimed /\ Goes(s, "provider")
     ELSE Goes(s, "finish") /\ UNCHANGED <<run, claims>>
  /\ UNCHANGED <<procRest, job, faults>>

\* The claim is outside the try block: its failure is BullMQ's to retry.
ClaimFails(s) ==
  /\ proc[s].pc = "claim"
  /\ Goes(s, "rethrow")
  /\ \/ Fault("query") /\ UNCHANGED <<run, claims>>
     \/ Fault("answer") /\ Claimable /\ Claimed
  /\ UNCHANGED <<procRest, job>>

\* The stages up to the provider's answer, and the first of validation.
Provider(s) ==
  /\ proc[s].pc = "provider"
  /\ Goes(s, "validate")
  /\ run' = [run EXCEPT !.status = "validating"]
  /\ UNCHANGED <<procRest, claims, job, faults>>

\* The provider fails, does not answer in time, or refuses.
ProviderFails(s) ==
  /\ proc[s].pc = "provider"
  /\ \E kind \in Kinds : Catches(s, kind)
  /\ UNCHANGED <<procRest, run, claims, job, faults>>

\* The answer is normalised and validated, which may fail.
Validate(s) ==
  /\ proc[s].pc = "validate"
  /\ Goes(s, "save") \/ Catches(s, "other")
  /\ UNCHANGED <<procRest, run, claims, job, faults>>

Saved == [run EXCEPT !.status = "completed", !.result = TRUE]

Save(s) ==
  /\ proc[s].pc = "save"
  /\ run' = Saved
  /\ Goes(s, "finish")
  /\ UNCHANGED <<procRest, claims, job, faults>>

\* A stage update, the query for the tags or the save rejects.
QueryFails(s) ==
  /\ proc[s].pc \in {"provider", "validate", "save"}
  /\ Catches(s, "other")
  /\ \/ Fault("query") /\ UNCHANGED run
     \/ Fault("answer") /\ proc[s].pc = "save" /\ run' = Saved
  /\ UNCHANGED <<procRest, claims, job>>

\* Mutants: every kind of failure is retried; one attempt too many.
ShouldRetry_AnyKind(s) == proc[s].made + 1 < JobAttempts
ShouldRetry_OneMore(s) ==
  proc[s].kind \in {"provider", "timeout"} /\ proc[s].made + 1 <= JobAttempts

\* shouldRetryProviderFailure
ShouldRetry(s) ==
  proc[s].kind \in {"provider", "timeout"} /\ proc[s].made + 1 < JobAttempts

\* Back to queued, without an error, or ended with one.
AfterCatch(s) ==
  IF ShouldRetry(s) THEN [run EXCEPT !.status = "queued", !.error = "none"]
  ELSE [run EXCEPT !.status = IF proc[s].kind = "timeout" THEN "timed_out" ELSE "failed",
                   !.error = proc[s].kind]

ThrowsOn(s) == Goes(s, IF ShouldRetry(s) THEN "rethrow" ELSE "giveup")

Catch(s) ==
  /\ proc[s].pc = "catch"
  /\ run' = AfterCatch(s)
  /\ ThrowsOn(s)
  /\ UNCHANGED <<procRest, claims, job, faults>>

\* The UPDATE of the catch block is best effort.
CatchUnrecorded(s) ==
  /\ proc[s].pc = "catch"
  /\ Fault("query")
  /\ ThrowsOn(s)
  /\ UNCHANGED <<procRest, run, claims, job>>

\* BullMQ accepts an outcome from the holder of the job's lock only.
Reports(s, outcome) ==
  /\ job' = IF job.holder = s THEN outcome ELSE job
  /\ proc' = [proc EXCEPT ![s] = IdleProc]
  /\ UNCHANGED <<procRest, run, claims, faults>>

Failed(state) ==
  [job EXCEPT !.state = state, !.holder = NoSlot, !.attemptsMade = @ + 1]

Rethrow(s) ==
  /\ proc[s].pc = "rethrow"
  /\ Reports(s, Failed(IF job.attemptsMade + 1 < JobAttempts THEN "waiting" ELSE "failed"))

\* UnrecoverableError
GiveUp(s) == proc[s].pc = "giveup" /\ Reports(s, Failed("failed"))

Finish(s) ==
  /\ proc[s].pc = "finish"
  /\ Reports(s, [job EXCEPT !.state = "completed", !.holder = NoSlot])

\* The worker dies with all its slots and the relay.
WorkerDies ==
  /\ relay # "idle" \/ \E s \in Slots : proc[s].pc # "idle"
  /\ Fault("crash")
  /\ relay' = "idle"
  /\ proc' = [s \in Slots |-> IdleProc]
  /\ job' = [job EXCEPT !.holder = NoSlot]
  /\ UNCHANGED <<run, claims, event>>

\* The lock of a slot that works on expires.
LoseLock ==
  /\ job.holder # NoSlot
  /\ Fault("lock")
  /\ job' = [job EXCEPT !.holder = NoSlot]
  /\ UNCHANGED <<run, claims, event, relay, proc>>

\* BullMQ's stalled-job check: an active job nobody holds.
StallCheck ==
  /\ job.state = "active"
  /\ job.holder = NoSlot
  /\ job' = [job EXCEPT !.stalls = @ + 1,
               !.state = IF job.stalls < MaxStalls THEN "waiting" ELSE "failed"]
  /\ UNCHANGED <<procRest, run, claims, proc, faults>>

-----------------------------------------------------------------------------
RelayStep == RelaySelect \/ RelayAdd \/ RelayMark \/ RelayCatch

QueueStep == StallCheck \/ \E s \in Slots : PickUp(s)

ProcStep(s) ==
  \/ Claim(s) \/ Provider(s) \/ ProviderFails(s) \/ Validate(s) \/ Save(s)
  \/ Catch(s) \/ Rethrow(s) \/ GiveUp(s) \/ Finish(s)

FaultStep ==
  \/ RelayAddFails \/ RelayMarkFails \/ RelayCatchUnrecorded
  \/ WorkerDies \/ LoseLock
  \/ \E s \in Slots : ClaimFails(s) \/ QueryFails(s) \/ CatchUnrecorded(s)

Next ==
  CreateRun \/ RelayStep \/ QueueStep \/ (\E s \in Slots : ProcStep(s)) \/ FaultStep

SafeSpec == Init /\ [][Next]_vars

\* The worker polls the outbox on an interval, BullMQ hands out jobs, and the
\* processor runs on: the provider's answer is awaited for AI_POSTS_TIMEOUT_MS.
Fairness ==
  /\ WF_vars(RelayStep)
  /\ WF_vars(QueueStep)
  /\ \A s \in Slots : WF_vars(ProcStep(s))

Spec == SafeSpec /\ Fairness

-----------------------------------------------------------------------------
(***************************************************************************)
(* Properties.                                                             *)
(***************************************************************************)

\* Between its claim and its last write to the run.
Working(s) == proc[s].pc \in {"provider", "validate", "save", "catch"}

\* What the claim is for (ai-post-draft-generation.ts:55): a job that is
\* delivered again, even while a slot still works on it, is never worked on
\* by two slots, and a run that waits to be claimed by none.
OneWorker ==
  /\ \A s, t \in Slots : Working(s) /\ Working(t) => s = t
  /\ run.status = "queued" => \A s \in Slots : ~Working(s)

\* formatDraftRunStatus reports an error from error_kind alone: the row has one
\* exactly when the run has failed, the timeout's exactly when it timed out.
ErrorExplainsStatus ==
  /\ run.error # "none" <=> run.status \in {"failed", "timed_out"}
  /\ run.error = "timeout" <=> run.status = "timed_out"
  /\ run.status = "completed" => run.result

\* Somebody is left to bring a queued run on: an event to relay, a job that
\* waits or that a slot holds, or a stalled job.
Carried ==
  \/ event.status = "pending" /\ event.attempts < OutboxMaxAttempts
  \/ job.state \in {"waiting", "active"}

\* A run is queued, at first or for the automatic retry that
\* docs/ai-generation.md:48 promises, only while somebody carries it, or the
\* failure to do so is on record. (A slot that loses its lock breaks this: the
\* job is redelivered, misses its claim and completes, and then the slot puts
\* the run back to queued.)
QueuedIsCarried ==
  run.status = "queued" /\ "lock" \notin faults.kinds =>
    Carried \/ event.status = "failed" \/ job.state = "failed"

\* The run goes through its life as RunLifecycle says, whatever is delivered
\* again, retried or lost, and no more often than attempts and stalls allow.
Lifecycle == INSTANCE RunLifecycle WITH
               status <- IF run.status \in Active THEN "active" ELSE run.status,
               result <- run.result, tries <- claims,
               MaxTries <- JobAttempts + MaxStalls

LifecycleSafety == Lifecycle!SafeSpec

\* A run that was accepted ends, although the provider fails at will, as long as
\* the relay's calls fail fewer times than it tries: an event that it gives up
\* leaves the run queued, on record as a failed event only.
RunEnds ==
  [](faults.kinds \subseteq {"relay"} /\ faults.count < OutboxMaxAttempts)
    => Lifecycle!Ends

-----------------------------------------------------------------------------
(***************************************************************************)
(* The inductive invariant behind the proofs (AiRun_proofs).               *)
(***************************************************************************)
RelayInv ==
  /\ relay \in {"add", "mark"} => event.status = "pending"
  /\ relay = "catch" =>
       event.status \in {"pending", "processed"} /\ event.attempts < OutboxMaxAttempts
  /\ event.status = "pending" => event.attempts < OutboxMaxAttempts
  /\ run.status = "none" <=> event.status = "none"
  /\ event.status = "none" => job.state = "missing"

JobInv ==
  /\ job.holder # NoSlot => job.state = "active" /\ proc[job.holder].pc # "idle"
  /\ job.state \in {"missing", "waiting", "active", "completed"} =>
       job.attemptsMade < JobAttempts /\ job.stalls <= MaxStalls
  /\ job.attemptsMade + job.stalls <= JobAttempts + MaxStalls

\* A slot that works has the run in its hands; only a save may precede a catch.
WorkInv ==
  /\ \A s \in Slots : proc[s].pc # "idle" => run.status # "none"
  /\ \A s \in Slots :
       /\ proc[s].pc \in {"provider", "validate", "save"} => run.status \in Active
       /\ proc[s].pc = "catch" =>
            run.status \in Active \/ (run.status = "completed" /\ proc[s].kind = "other")

\* Every claim was one delivery of the job, and every delivery ended as an
\* attempt, a stall or the job's completion, or goes on.
Undecided == {s \in Slots : proc[s].pc = "claim"}

ClaimInv ==
  claims + Cardinality(Undecided)
    <= job.attemptsMade + job.stalls
         + (IF job.state \in {"active", "completed"} THEN 1 ELSE 0)

\* As long as no lock is lost: a slot with work is the holder of the job, what is
\* marked has been added, and neither the job nor a slot is done with a run that
\* is queued.
CarryInv ==
  "lock" \notin faults.kinds =>
    /\ \A s \in Slots : proc[s].pc # "idle" => job.holder = s
    /\ relay = "mark" \/ event.status = "processed" => job.state # "missing"
    /\ run.status = "queued" =>
         job.state # "completed" /\ \A s \in Slots : proc[s].pc # "finish"

Consistent ==
  /\ TypeOK /\ RelayInv /\ JobInv /\ WorkInv /\ ClaimInv
  /\ OneWorker /\ ErrorExplainsStatus

-----------------------------------------------------------------------------
(***************************************************************************)
(* What comments and documents say, and the code does not do.              *)
(***************************************************************************)

\* ai-post-draft-generation.ts:55 says of a claim that matched nothing: "Run was
\* already claimed (concurrent relay delivery or manual intervention)": then
\* the run has ended, or another slot works on it.
ClaimMissIsHandled ==
  [][\A s \in Slots :
       Claim(s) /\ UNCHANGED run =>
         run.status \in Ended \/ \E t \in Slots : Working(t)]_vars

\* docs/outbox-queues-worker.md:57: "both draft and topic jobs persist a terminal
\* DB state (failed or timed_out) then throw UnrecoverableError".
TerminalIsPersisted ==
  \A s \in Slots : proc[s].pc = "giveup" => run.status \in {"failed", "timed_out"}

\* docs/ai-generation.md:25-30 draws "completed" as an end of the lifecycle, and the
\* web client stops polling there.
CompletedIsFinal ==
  [][run.status = "completed" => run'.status = "completed"]_vars
==============================================================================
