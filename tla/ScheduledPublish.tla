--------------------------- MODULE ScheduledPublish ---------------------------
(***************************************************************************)
(* The scheduled publication of a blog post, end to end:                   *)
(*   admin API      createPostService, updatePostService,                  *)
(*                  softDeletePostService, cancelScheduledPostPublish      *)
(*   PostgreSQL     the posts row and the outbox rows                      *)
(*   outbox relay   processOutboxEvents, upsertScheduledPostPublishJob     *)
(*   BullMQ         the one job post-publish-{postId}                      *)
(*   processor      processPostPublish                                     *)
(* Every row, job and event is keyed by the post, so one post is modelled. *)
(* A step is what happens between two awaits; a transaction is one step at *)
(* its commit; a call that fails may have taken effect, its answer lost.   *)
(* The instant is coarse: the milliseconds between computing a delay and   *)
(* handing it to the queue are below its resolution.                       *)
(***************************************************************************)
EXTENDS Integers, FiniteSets

CONSTANTS
  Requests,          \* admin requests; each one is served at most once
  NoRequest,         \* no event is being relayed
  Bodies,            \* the values of a request's "status", "absent" if omitted
  MaxTime,           \* bound on the clock
  MaxSchedules,      \* bound on the requests that schedule the post
  MaxInFlight,       \* bound on the requests served at the same time
  MaxFaults,         \* bound on failed calls, crashes and stalls
  OutboxMaxAttempts, \* OUTBOX_MAX_ATTEMPTS
  BatchSize,         \* OUTBOX_BATCH_SIZE
  JobAttempts,       \* the job's "attempts" option
  MaxStalls,         \* BullMQ's maxStalledCount
  Skew               \* the worker's clock minus the database's

ASSUME ConstantsAssumption ==
  /\ IsFiniteSet(Requests) /\ NoRequest \notin Requests
  /\ Bodies \subseteq {"absent", "draft", "scheduled", "published"}
  /\ MaxTime \in Nat \ {0}
  /\ {MaxSchedules, MaxFaults, MaxStalls} \subseteq Nat
  /\ {MaxInFlight, OutboxMaxAttempts, BatchSize, JobAttempts} \subseteq Nat \ {0}
  /\ Skew \in Int

VARIABLES
  now,        \* the database clock
  post,       \* the posts row
  decisions,  \* history: how many admin writes took effect
  req,        \* the progress of each admin request
  txClock,    \* order of the transactions' start: outbox.created_at
  outbox,     \* the outbox row each request may insert
  job,        \* the BullMQ job post-publish-{postId}
  relay,      \* the relay's cycle
  proc,       \* the processor's run of the job
  faults      \* how many faults have happened

vars == <<now, post, decisions, req, txClock, outbox, job, relay, proc, faults>>

-----------------------------------------------------------------------------
NoTime   == -1
Clock    == 0..MaxTime
Time     == Clock \cup {NoTime}
Statuses == {"draft", "scheduled", "published"}

\* SQL's comparison with NULL is never true.
Due(t, clock) == t # NoTime /\ t <= clock

WorkerNow == now + Skew

\* What the worker writes as published_at; instants before the first one of the
\* clock are not told apart from it.
WorkerStamp == IF WorkerNow < 0 THEN 0 ELSE WorkerNow

PostRow == [status : Statuses \cup {"absent"}, scheduledAt : Time,
            publishedAt : Nat \cup {NoTime}, deleted : BOOLEAN]

\* "stamp": the patch sets published_at to its own clock; "clear": to NULL;
\* "keep": the patch has no published_at.
Request == [pc : {"new", "read", "begun", "cancel", "remove", "done"},
            kind : {"none", "update", "delete"},
            body : Statuses \cup {"absent"},
            status : Statuses \cup {"absent"}, at : Time,
            seenStatus : Statuses \cup {"absent"}, seenPublished : BOOLEAN,
            publishedAt : {"keep", "stamp", "clear"},
            stamp : Time, order : Nat]

Event == [status : {"none", "pending", "processed", "failed"}, at : Time,
          attempts : 0..OutboxMaxAttempts, createdAt : Nat]

JobStates == {"missing", "delayed", "waiting", "active", "completed", "failed"}

Job == [state : JobStates, due : Time, attemptsMade : 0..JobAttempts,
        stalls : 0..(MaxStalls + 1)]

Relay == [pc : {"idle", "next", "upsert", "add", "mark", "fail"},
          batch : SUBSET Requests, event : Requests \cup {NoRequest},
          seen : JobStates]

Proc == [pc : {"idle", "fetch", "redelay", "cas", "throw", "finish"},
         target : Time]

TypeOK ==
  /\ now \in Clock
  /\ post \in PostRow
  /\ decisions \in Nat
  /\ req \in [Requests -> Request]
  /\ txClock \in Nat
  /\ outbox \in [Requests -> Event]
  /\ job \in Job
  /\ relay \in Relay
  /\ proc \in Proc
  /\ faults \in 0..MaxFaults

-----------------------------------------------------------------------------
NoPost    == [status |-> "absent", scheduledAt |-> NoTime,
              publishedAt |-> NoTime, deleted |-> FALSE]
NoEvent   == [status |-> "none", at |-> NoTime, attempts |-> 0, createdAt |-> 0]
NoJob     == [state |-> "missing", due |-> NoTime, attemptsMade |-> 0, stalls |-> 0]
IdleRelay == [pc |-> "idle", batch |-> {}, event |-> NoRequest, seen |-> "missing"]
IdleProc  == [pc |-> "idle", target |-> NoTime]
NewRequest == [pc |-> "new", kind |-> "none", body |-> "absent",
               status |-> "absent", at |-> NoTime, seenStatus |-> "absent",
               seenPublished |-> FALSE, publishedAt |-> "keep",
               stamp |-> NoTime, order |-> 0]

Init ==
  /\ now = 0
  /\ post = NoPost
  /\ decisions = 0
  /\ req = [r \in Requests |-> NewRequest]
  /\ txClock = 0
  /\ outbox = [r \in Requests |-> NoEvent]
  /\ job = NoJob
  /\ relay = IdleRelay
  /\ proc = IdleProc
  /\ faults = 0

Fault == faults < MaxFaults /\ faults' = faults + 1

Tick ==
  /\ now < MaxTime
  /\ now' = now + 1
  /\ UNCHANGED <<post, decisions, req, txClock, outbox, job, relay, proc, faults>>

-----------------------------------------------------------------------------
(***************************************************************************)
(* The admin API.                                                          *)
(***************************************************************************)
apiVars    == <<post, decisions, req, txClock, outbox>>
workerVars == <<relay, proc>>

InFlight == {r \in Requests : req[r].pc \notin {"new", "done"}}

MaySchedule ==
  Cardinality({r \in Requests : req[r].status = "scheduled"}) < MaxSchedules

\* updatePostSchema is createPostSchema.partial(): the default of an omitted
\* status survives, so a body without one is parsed as "draft".
ParsedStatus(body) == IF body = "absent" THEN "draft" ELSE body

\* futureISODate and refineScheduledStatus: a time exactly when scheduled, and
\* then a future one.
ValidBody(body, t) ==
  /\ (ParsedStatus(body) = "scheduled") <=> (t # NoTime)
  /\ t # NoTime => now < t
  /\ ParsedStatus(body) = "scheduled" => MaySchedule

\* A request that has been answered; only what it asked for is remembered.
Served(s) == [NewRequest EXCEPT !.pc = "done", !.status = s]

NewEvent(t, order) ==
  [status |-> "pending", at |-> t, attempts |-> 0, createdAt |-> order]

\* createPostService: the row and its outbox event in one transaction.  (When its
\* answer is lost the request fails, and nothing else is different.)
CreatePost(r, body, t) ==
  /\ req[r].pc = "new"
  /\ post = NoPost
  /\ ValidBody(body, t)
  /\ LET s == ParsedStatus(body) IN
       /\ post' = [status |-> s, scheduledAt |-> t, deleted |-> FALSE,
                   publishedAt |-> IF s = "published" THEN now ELSE NoTime]
       /\ outbox' = IF s = "scheduled"
                    THEN [outbox EXCEPT ![r] = NewEvent(t, txClock + 1)]
                    ELSE outbox
       /\ req' = [req EXCEPT ![r] = Served(s)]
  /\ txClock' = txClock + 1
  /\ decisions' = decisions + 1
  /\ UNCHANGED <<now, job, workerVars, faults>>

\* updatePostService up to its first await: the current row is read outside
\* the transaction.
SubmitUpdate(r, body, t) ==
  /\ req[r].pc = "new"
  /\ post.status # "absent"
  /\ Cardinality(InFlight) < MaxInFlight
  /\ ValidBody(body, t)
  /\ req' = [req EXCEPT ![r] = [NewRequest EXCEPT !.pc = "read",
               !.kind = "update", !.body = body, !.status = ParsedStatus(body),
               !.at = t, !.seenStatus = post.status,
               !.seenPublished = (post.publishedAt # NoTime)]]
  /\ UNCHANGED <<now, post, decisions, txClock, outbox, job, workerVars, faults>>

\* Mutant: a post that was scheduled is published without a stamp.
PatchedPublishedAt_DraftsOnly(r) ==
  CASE req[r].status = "scheduled" -> "clear"
    [] req[r].status = "published" /\ req[r].seenStatus = "draft" -> "stamp"
    [] OTHER -> "keep"

\* published_at in the patch, decided from the row that was read.
PatchedPublishedAt(r) ==
  CASE req[r].status = "scheduled" -> "clear"
    [] req[r].status = "published" /\ ~req[r].seenPublished -> "stamp"
    [] OTHER -> "keep"

\* The patch is computed; then the transaction starts, which fixes created_at
\* of the event it will insert.
BeginTx(r) ==
  /\ req[r].pc = "read"
  /\ req[r].kind = "update"
  /\ txClock' = txClock + 1
  /\ req' = [req EXCEPT ![r].pc = "begun", ![r].order = txClock + 1,
                        ![r].stamp = now,
                        ![r].publishedAt = PatchedPublishedAt(r)]
  /\ UNCHANGED <<now, post, decisions, outbox, job, workerVars, faults>>

\* Only a row that left "scheduled", as far as the earlier read knows, has its
\* job cancelled.
AfterWrite(r) ==
  IF req[r].seenStatus = "scheduled" /\ req[r].status # "scheduled"
  THEN [req[r] EXCEPT !.pc = "cancel"]
  ELSE Served(req[r].status)

PatchedStamp(r) ==
  CASE req[r].publishedAt = "stamp" -> req[r].stamp
    [] req[r].publishedAt = "clear" -> NoTime
    [] OTHER -> post.publishedAt

\* Mutant: leaving "scheduled" does not clear scheduled_at.
PatchedRow_KeepsTime(r) ==
  [post EXCEPT !.status = req[r].status, !.publishedAt = PatchedStamp(r),
     !.scheduledAt = IF req[r].status = "scheduled" THEN req[r].at ELSE @]

PatchedRow(r) ==
  [post EXCEPT !.status = req[r].status, !.publishedAt = PatchedStamp(r),
     !.scheduledAt = req[r].at]

\* The transaction: UPDATE ... WHERE deleted_at IS NULL, and the outbox row.
WriteUpdate(r) ==
  /\ req[r].pc = "begun"
  /\ ~post.deleted
  /\ post' = PatchedRow(r)
  /\ outbox' = IF req[r].status = "scheduled"
               THEN [outbox EXCEPT ![r] = NewEvent(req[r].at, req[r].order)]
               ELSE outbox
  /\ decisions' = decisions + 1

CommitUpdate(r) ==
  /\ WriteUpdate(r)
  /\ req' = [req EXCEPT ![r] = AfterWrite(r)]
  /\ UNCHANGED <<now, txClock, job, workerVars, faults>>

\* updatePost or softDeletePost matched no row: the service returns null.
WriteMatchesNothing(r) ==
  /\ \/ req[r].pc = "begun"
     \/ req[r].pc = "read" /\ req[r].kind = "delete"
  /\ post.deleted
  /\ req' = [req EXCEPT ![r] = Served(req[r].status)]
  /\ UNCHANGED <<now, post, decisions, txClock, outbox, job, workerVars, faults>>

\* softDeletePostService: the status is read first ...
SubmitDelete(r) ==
  /\ req[r].pc = "new"
  /\ post.status # "absent"
  /\ Cardinality(InFlight) < MaxInFlight
  /\ req' = [req EXCEPT ![r] = [NewRequest EXCEPT !.pc = "read",
               !.kind = "delete", !.seenStatus = post.status]]
  /\ UNCHANGED <<now, post, decisions, txClock, outbox, job, workerVars, faults>>

\* ... then the row is marked deleted.
WriteDelete(r) ==
  /\ req[r].pc = "read"
  /\ req[r].kind = "delete"
  /\ ~post.deleted
  /\ post' = [post EXCEPT !.deleted = TRUE]
  /\ decisions' = decisions + 1
  /\ UNCHANGED outbox

CommitDelete(r) ==
  /\ WriteDelete(r)
  /\ req' = [req EXCEPT ![r] = AfterWrite(r)]
  /\ UNCHANGED <<now, txClock, job, workerVars, faults>>

\* cancelScheduledPostPublish: getJob and getState ...
CancelLookup(r) ==
  /\ req[r].pc = "cancel"
  /\ req' = [req EXCEPT ![r] = IF job.state \in {"delayed", "waiting"}
                                THEN [req[r] EXCEPT !.pc = "remove"]
                                ELSE Served(req[r].status)]
  /\ UNCHANGED <<now, post, decisions, txClock, outbox, job, workerVars, faults>>

\* ... then remove(), by id, whatever the job has become; a locked job stays
\* and the error is ignored, as is that of a removal whose answer is lost.
CancelRemove(r) ==
  /\ req[r].pc = "remove"
  /\ job' = IF job.state = "active" THEN job ELSE NoJob
  /\ req' = [req EXCEPT ![r] = Served(req[r].status)]
  /\ UNCHANGED <<now, post, decisions, txClock, outbox, workerVars, faults>>

\* The API process dies, or a query of the request fails: a transaction is rolled
\* back, or committed and its answer lost, and the rest of the request never runs.
RequestDies(r) ==
  /\ r \in InFlight
  /\ Fault
  /\ req' = [req EXCEPT ![r] = Served(req[r].status)]
  /\ \/ UNCHANGED <<post, decisions, outbox>>
     \/ WriteUpdate(r)
     \/ WriteDelete(r)
  /\ UNCHANGED <<now, txClock, job, workerVars>>

-----------------------------------------------------------------------------
(***************************************************************************)
(* The outbox relay: one cycle at a time (tryStartCycle), the events of a  *)
(* batch in the order of created_at.                                       *)
(***************************************************************************)
relayRest == <<now, post, decisions, req, txClock, proc>>

Pending == {r \in Requests : outbox[r].status = "pending"}

\* ORDER BY created_at LIMIT BatchSize.
Batch ==
  {r \in Pending : Cardinality({q \in Pending :
                     outbox[q].createdAt < outbox[r].createdAt}) < BatchSize}

RelaySelect ==
  /\ relay.pc = "idle"
  /\ Pending # {}
  /\ relay' = [IdleRelay EXCEPT !.pc = "next", !.batch = Batch]
  /\ UNCHANGED <<relayRest, outbox, job, faults>>

\* The next event of the batch; upsertScheduledPostPublishJob starts with
\* getJob and getState.
RelayLookup ==
  /\ relay.pc = "next"
  /\ \E r \in relay.batch :
       /\ \A q \in relay.batch : outbox[r].createdAt <= outbox[q].createdAt
       /\ relay' = [pc |-> IF job.state = "active" THEN "mark" ELSE "upsert",
                    batch |-> relay.batch \ {r}, event |-> r, seen |-> job.state]
  /\ UNCHANGED <<relayRest, outbox, job, faults>>

RelayCycleEnds ==
  /\ relay.pc = "next"
  /\ relay.batch = {}
  /\ relay' = IdleRelay
  /\ UNCHANGED <<relayRest, outbox, job, faults>>

\* A job that was delayed is rescheduled with the event's own time; changeDelay
\* rejects when the job has left the delayed set meanwhile.
ChangesDelay == relay.pc = "upsert" /\ relay.seen = "delayed"

Rescheduled == [job EXCEPT !.due = outbox[relay.event].at]

RelayChangeDelay ==
  /\ ChangesDelay
  /\ IF job.state = "delayed"
     THEN job' = Rescheduled /\ relay' = [relay EXCEPT !.pc = "mark"]
     ELSE UNCHANGED job /\ relay' = [relay EXCEPT !.pc = "fail"]
  /\ UNCHANGED <<relayRest, outbox, faults>>

\* Any other job that was found is removed first ...
RelayRemove ==
  /\ relay.pc = "upsert"
  /\ relay.seen \notin {"missing", "delayed"}
  /\ job' = IF job.state = "active" THEN job ELSE NoJob
  /\ relay' = [relay EXCEPT !.pc = "add"]
  /\ UNCHANGED <<relayRest, outbox, faults>>

\* ... and an error of remove() is only logged.
RelayRemoveFails ==
  /\ relay.pc = "upsert"
  /\ relay.seen \notin {"missing", "delayed"}
  /\ Fault
  /\ relay' = [relay EXCEPT !.pc = "add"]
  /\ UNCHANGED <<relayRest, outbox, job>>

\* add() with the job's own id: ignored while a job with that id exists.
Adds == relay.pc = "add" \/ (relay.pc = "upsert" /\ relay.seen = "missing")

Added ==
  LET at == outbox[relay.event].at IN
  IF job.state # "missing" THEN job
  ELSE [NoJob EXCEPT !.due = at,
          !.state = IF at <= WorkerNow THEN "waiting" ELSE "delayed"]

RelayAdd ==
  /\ Adds
  /\ job' = Added
  /\ relay' = [relay EXCEPT !.pc = "mark"]
  /\ UNCHANGED <<relayRest, outbox, faults>>

Marked == [outbox EXCEPT ![relay.event].status = "processed"]

\* A call to Redis (getJob, getState, changeDelay, add) or the UPDATE that marks
\* the event processed rejects, or takes effect and its answer is lost.
RelayCallFails ==
  /\ relay.pc \in {"upsert", "add", "mark"}
  /\ Fault
  /\ relay' = [relay EXCEPT !.pc = "fail"]
  /\ \/ UNCHANGED <<job, outbox>>
     \/ ChangesDelay /\ job.state = "delayed" /\ job' = Rescheduled /\ UNCHANGED outbox
     \/ Adds /\ job' = Added /\ UNCHANGED outbox
     \/ relay.pc = "mark" /\ outbox' = Marked /\ UNCHANGED job
  /\ UNCHANGED relayRest

RelayMark ==
  /\ relay.pc = "mark"
  /\ outbox' = Marked
  /\ relay' = [relay EXCEPT !.pc = "next", !.event = NoRequest, !.seen = "missing"]
  /\ UNCHANGED <<relayRest, job, faults>>

\* Mutant: giving up without a trace.
AfterFailure_Silent(n) ==
  IF n >= OutboxMaxAttempts THEN "processed" ELSE outbox[relay.event].status

AfterFailure(n) ==
  IF n >= OutboxMaxAttempts THEN "failed" ELSE outbox[relay.event].status

\* The catch block: count the attempt, give up on the last one, by id alone; an
\* event that was marked without the relay's knowing may be given up.
RelayFail ==
  /\ relay.pc = "fail"
  /\ LET n == outbox[relay.event].attempts + 1 IN
     outbox' = [outbox EXCEPT ![relay.event].attempts = n,
                              ![relay.event].status = AfterFailure(n)]
  /\ relay' = [relay EXCEPT !.pc = "next", !.event = NoRequest, !.seen = "missing"]
  /\ UNCHANGED <<relayRest, job, faults>>

\* The UPDATE of the catch block is best effort too: the attempt is not counted.
RelayFailUnrecorded ==
  /\ relay.pc = "fail"
  /\ Fault
  /\ relay' = [relay EXCEPT !.pc = "next", !.event = NoRequest, !.seen = "missing"]
  /\ UNCHANGED <<relayRest, outbox, job>>

-----------------------------------------------------------------------------
(***************************************************************************)
(* BullMQ and the processor.                                               *)
(***************************************************************************)
procRest == <<now, req, txClock, outbox, relay>>

\* A delayed job whose time has come on the worker's clock becomes ready.
Promote ==
  /\ job.state = "delayed"
  /\ job.due <= WorkerNow
  /\ job' = [job EXCEPT !.state = "waiting"]
  /\ UNCHANGED <<procRest, post, decisions, proc, faults>>

PickUp ==
  /\ job.state = "waiting"
  /\ proc.pc = "idle"
  /\ job' = [job EXCEPT !.state = "active"]
  /\ proc' = [IdleProc EXCEPT !.pc = "fetch"]
  /\ UNCHANGED <<procRest, post, decisions, faults>>

\* What processPostPublish decides from the row it fetched.
Verdict(row) ==
  CASE row.status # "scheduled" \/ row.deleted -> "finish"
    [] row.scheduledAt = NoTime                -> "throw"
    [] row.scheduledAt > WorkerNow             -> "redelay"
    [] OTHER                                   -> "cas"

ProcFetch ==
  /\ proc.pc = "fetch"
  /\ proc' = [pc |-> Verdict(post), target |-> post.scheduledAt]
  /\ UNCHANGED <<procRest, post, decisions, job, faults>>

\* moveToDelayed with the time that was read, then DelayedError.
ProcRedelay ==
  /\ proc.pc = "redelay"
  /\ job' = [job EXCEPT !.state = "delayed", !.due = proc.target]
  /\ proc' = IdleProc
  /\ UNCHANGED <<procRest, post, decisions, faults>>

\* Mutant: the UPDATE does not check again that the post is scheduled and due.
CasMatches_AnyStatus == ~post.deleted

\* The compare-and-set UPDATE, on the database's clock.
CasMatches ==
  post.status = "scheduled" /\ ~post.deleted /\ Due(post.scheduledAt, now)

Published ==
  IF CasMatches
  THEN [post EXCEPT !.status = "published", !.scheduledAt = NoTime,
                    !.publishedAt = WorkerStamp]
  ELSE post

ProcPublish ==
  /\ proc.pc = "cas"
  /\ post' = Published
  /\ proc' = [proc EXCEPT !.pc = "finish"]
  /\ UNCHANGED <<procRest, decisions, job, faults>>

\* The processor has returned: BullMQ completes the job.
ProcFinish ==
  /\ proc.pc = "finish"
  /\ job' = [job EXCEPT !.state = "completed"]
  /\ proc' = IdleProc
  /\ UNCHANGED <<procRest, post, decisions, faults>>

\* A query of the processor, or moveToDelayed, rejects; the UPDATE may have taken
\* effect.
ProcCallFails ==
  /\ proc.pc \in {"fetch", "redelay", "cas"}
  /\ Fault
  /\ proc' = [proc EXCEPT !.pc = "throw"]
  /\ UNCHANGED post \/ (proc.pc = "cas" /\ post' = Published)
  /\ UNCHANGED <<procRest, decisions, job>>

\* Mutant: the job is added without "attempts", so that nothing is retried.
AfterThrow_NoRetry(n) == "failed"

\* BullMQ retries after a backoff until the attempts are used up.
AfterThrow(n) == IF n < JobAttempts THEN "delayed" ELSE "failed"

ProcThrow ==
  /\ proc.pc = "throw"
  /\ LET n == job.attemptsMade + 1 IN
     job' = [job EXCEPT !.attemptsMade = n, !.state = AfterThrow(n), !.due = now]
  /\ proc' = IdleProc
  /\ UNCHANGED <<procRest, post, decisions, faults>>

-----------------------------------------------------------------------------
\* The worker process dies: the relay's cycle and the processor's run are gone;
\* an active job keeps its state until BullMQ finds it stalled.
WorkerDies ==
  /\ relay.pc # "idle" \/ proc.pc # "idle"
  /\ Fault
  /\ relay' = IdleRelay
  /\ proc' = IdleProc
  /\ UNCHANGED <<now, post, decisions, req, txClock, outbox, job>>

StallCheck ==
  /\ job.state = "active"
  /\ proc.pc = "idle"
  /\ job' = [job EXCEPT !.stalls = @ + 1,
               !.state = IF job.stalls < MaxStalls THEN "waiting" ELSE "failed"]
  /\ UNCHANGED <<procRest, post, decisions, proc, faults>>

-----------------------------------------------------------------------------
ApiStep ==
  \E r \in Requests :
    \/ \E body \in Bodies, t \in Time :
         CreatePost(r, body, t) \/ SubmitUpdate(r, body, t)
    \/ SubmitDelete(r)
    \/ BeginTx(r)
    \/ CommitUpdate(r)
    \/ CommitDelete(r)
    \/ WriteMatchesNothing(r)
    \/ CancelLookup(r)
    \/ CancelRemove(r)
    \/ RequestDies(r)

RelayStep ==
  \/ RelaySelect
  \/ RelayLookup
  \/ RelayCycleEnds
  \/ RelayChangeDelay
  \/ RelayRemove
  \/ RelayAdd
  \/ RelayMark
  \/ RelayFail

QueueStep == Promote \/ PickUp \/ StallCheck

ProcStep == ProcFetch \/ ProcRedelay \/ ProcPublish \/ ProcFinish \/ ProcThrow

FaultStep ==
  \/ RelayCallFails
  \/ RelayRemoveFails
  \/ RelayFailUnrecorded
  \/ ProcCallFails
  \/ WorkerDies

Next == Tick \/ ApiStep \/ RelayStep \/ QueueStep \/ ProcStep \/ FaultStep

SafeSpec == Init /\ [][Next]_vars

\* Time passes, the worker polls the outbox on an interval, BullMQ moves and
\* hands out jobs, and a processor that was given a job runs on.  Nothing is
\* assumed of the administrators and their requests.
Fairness ==
  /\ WF_vars(Tick)
  /\ WF_vars(RelayStep)
  /\ WF_vars(QueueStep)
  /\ WF_vars(ProcStep)

Spec == SafeSpec /\ Fairness

-----------------------------------------------------------------------------
(***************************************************************************)
(* Properties.                                                             *)
(***************************************************************************)
Scheduled == post.status = "scheduled" /\ ~post.deleted

\* A post is scheduled exactly when it has a time: what postPublish.ts throws
\* about ("data integrity issue") never happens, whatever patches, worker
\* publishes and deletions interleave.
ScheduledHasTime == (post.status = "scheduled") <=> (post.scheduledAt # NoTime)

\* The relay or the queue gave up, and says so in a row or a job marked failed.
GaveUp ==
  \/ \E r \in Requests : outbox[r].status = "failed"
  \/ job.state = "failed"

\* Somewhere there is still a carrier of the schedule: an event to relay, a
\* job that waits, or a run of the processor that has not yet made up its mind.
Carried ==
  \/ Pending # {}
  \/ job.state \in {"delayed", "waiting"}
  \/ job.state = "active" /\ proc.pc # "finish"

\* The purpose of the outbox (outbox-relay.ts, posts.service.ts:151-152): a
\* scheduled post always has a carrier, or the failure to carry it on record.
ScheduleNeverLost == Scheduled => Carried \/ GaveUp

\* A published post has a publication time that is not in the future, otherwise
\* publicPostVisibilityClauses hides it from every public list: as long as requests
\* do not overlap and the worker's clock, which postPublish.ts:116 stamps with, is
\* not ahead of the database's.
PublishedIsVisible ==
  post.status = "published" => Due(post.publishedAt, now)

\* The system publishes what administrators scheduled, not before its time and
\* never over a later decision of theirs; deleted rows never change; and a
\* post whose time has come is published (PostLifecycle).
Lifecycle == INSTANCE PostLifecycle
               WITH status <- post.status, at <- post.scheduledAt,
                    deleted <- post.deleted

LifecycleSafety == Lifecycle!SafeSpec

\* As long as no schedule is lost, the carriers do their work: relay, queue and
\* processor publish a post whose time has come.  (With one fault, which the
\* attempts of the event and of the job outlast, nobody gives up.)
CarriedIsPublished == []ScheduleNeverLost => Lifecycle!Liveness

-----------------------------------------------------------------------------
(***************************************************************************)
(* The inductive invariant behind the proofs (ScheduledPublish_proofs).    *)
(***************************************************************************)

\* What a request holds between its steps: a valid status and time, no outbox
\* row before its transaction, and a post to work on.
RequestInv ==
  \A r \in Requests :
    /\ req[r].pc = "begun" \/ (req[r].pc = "read" /\ req[r].kind = "update") =>
         /\ req[r].status \in Statuses
         /\ (req[r].status = "scheduled") <=> (req[r].at # NoTime)
    /\ req[r].pc \in {"new", "read", "begun"} => outbox[r].status = "none"
    /\ req[r].pc \in {"read", "begun"} => post.status # "absent"

\* The relay works on a pending event, or on one that it has marked without knowing;
\* such an event, and a pending one, has attempts left.
RelayInv ==
  /\ \A r \in Pending : outbox[r].attempts < OutboxMaxAttempts
  /\ relay.batch \subseteq Pending
  /\ relay.pc \in {"upsert", "add", "mark"} => relay.event \in Pending
  /\ relay.pc = "fail" =>
       /\ relay.event \in Requests
       /\ outbox[relay.event].status \in {"pending", "processed"}
       /\ outbox[relay.event].attempts < OutboxMaxAttempts
  /\ relay.event \notin relay.batch

\* A processor runs on an active job only, and a job that is not finished has
\* attempts and stalls left.
JobInv ==
  /\ proc.pc # "idle" => job.state = "active"
  /\ job.state \in {"delayed", "waiting", "active"} =>
       job.attemptsMade < JobAttempts /\ job.stalls <= MaxStalls

Consistent ==
  TypeOK /\ RequestInv /\ RelayInv /\ JobInv /\ ScheduledHasTime

\* With one request at a time, and a worker whose clock is not ahead: a patch that
\* keeps the publication time, or sets it to its own clock, leaves a published post
\* with a time that has come.
StampInv ==
  /\ \A r, s \in InFlight : r = s
  /\ post.publishedAt # NoTime => post.publishedAt <= now
  /\ \A r \in Requests :
       /\ req[r].pc \in {"read", "begun"} /\ req[r].seenPublished => post.publishedAt # NoTime
       /\ req[r].pc = "begun" =>
            /\ req[r].publishedAt = "stamp" => Due(req[r].stamp, now)
            /\ req[r].status = "published" =>
                 \/ req[r].publishedAt = "stamp"
                 \/ req[r].publishedAt = "keep" /\ req[r].seenPublished

\* The transaction that scheduled the post is in the past.
Committed == \E r \in Requests : outbox[r].status # "none"

\* With one request that schedules: what is known of the post once its
\* transaction is done stays true, because no other schedule follows.
OneSchedule ==
  \A r, s \in Requests : req[r].status = "scheduled" /\ req[s].status = "scheduled" => r = s
KnowsOf(r) ==
  /\ outbox[r].status # "none" => req[r].status = "scheduled"
  /\ req[r].pc \in {"read", "begun"} /\ req[r].seenStatus = "scheduled" => Committed
  /\ req[r].pc \in {"cancel", "remove"} => Committed /\ ~Scheduled

\* There is a job only after the transaction; it ends well only when there is
\* nothing left to publish; and a relay that is about to forget the event has
\* seen to it that there is one.
HandedOn ==
  /\ post.status = "scheduled" \/ job.state # "missing" => Committed
  /\ proc.pc = "finish" \/ job.state = "completed" => ~Scheduled
  /\ proc.pc = "cas" /\ Scheduled => Due(post.scheduledAt, now)
  /\ Scheduled /\ (relay.pc = "mark" \/ Pending = {}) =>
       job.state # "missing" \/ \E r \in Requests : outbox[r].status = "failed"

OnceInv == OneSchedule /\ (\A r \in Requests : KnowsOf(r)) /\ HandedOn

-----------------------------------------------------------------------------
(***************************************************************************)
(* What comments and documents of the repository say, and the code does    *)
(* not do: each is checked by a run that expects a counterexample.         *)
(***************************************************************************)

\* posts.service.ts:258 says of a post that goes back to draft: "clear both
\* timestamps".
DraftHasNoTimestamps ==
  post.status = "draft" =>
    post.scheduledAt = NoTime /\ post.publishedAt = NoTime

\* posts.service.ts:265-266 says that cancelling is for the job of a post that
\* left "scheduled": a cancellation does not remove the job of a schedule that
\* holds now.
CancelSparesSchedules ==
  [][\A r \in Requests :
       CancelRemove(r) /\ Scheduled => job' = job]_vars

\* postPublish.ts:131 says of an UPDATE that matched no row that another
\* worker may have handled the post: then it is not scheduled any more.
CasMissMeansHandled ==
  [][ProcPublish /\ UNCHANGED post => ~Scheduled]_vars

\* outbox-relay.ts:64-65 says that the upsert is idempotent for outbox replays and
\* takes the correct reschedule path when scheduledAt changes: once all is relayed and no request is in
\* flight, a delayed job does not wait for longer than the post's own time.
RescheduleTakesEffect ==
  Scheduled /\ Pending = {} /\ InFlight = {} /\ job.state = "delayed"
    => job.due <= post.scheduledAt \/ job.due <= now

\* admin-paths.ts:109 calls the PATCH a partial update: a body without a
\* status leaves the status alone.
OmittedStatusIsKept ==
  [][\A r \in Requests :
       CommitUpdate(r) /\ req[r].body = "absent"
         => post'.status = post.status]_vars
==============================================================================
