---------------------------- MODULE ImagePipeline ----------------------------
(***************************************************************************)
(* One uploaded image, from its presigned URL to its variants:             *)
(*   admin API      confirmUpload (the row exists: generatePresignedUrl)   *)
(*   S3             the object under the row's storageKey                  *)
(*   PostgreSQL     the uploads row and its outbox row                     *)
(*   outbox relay   processOutboxEvents, the IMAGE_OPTIMIZE branch         *)
(*   BullMQ         the job outbox-{eventId}                               *)
(*   processor      processImageOptimize                                   *)
(* A step is what happens between two awaits.  Time is not modelled: a     *)
(* backoff, a poll interval and a URL's expiry end at some point.          *)
(***************************************************************************)
EXTENDS Integers, FiniteSets

CONSTANTS
  Confirms,          \* requests to confirm the upload; each is served once
  MaxPuts,           \* bound on the PUTs to the presigned URL
  MaxFaults,         \* bound on failed calls, crashes and stalls
  OutboxMaxAttempts, \* OUTBOX_MAX_ATTEMPTS
  JobAttempts,       \* the job's "attempts" option
  MaxStalls          \* BullMQ's maxStalledCount

ASSUME ConstantsAssumption ==
  /\ IsFiniteSet(Confirms)
  /\ {MaxPuts, MaxFaults, MaxStalls} \subseteq Nat
  /\ {OutboxMaxAttempts, JobAttempts} \subseteq Nat \ {0}

VARIABLES
  upload,   \* the uploads row: its status, and whether it has variants
  object,   \* what the bucket holds under the storage key
  puts,     \* how many PUTs were made
  confirm,  \* the progress of each confirm request
  event,    \* the outbox row
  relay,    \* the relay's work on the event
  job,      \* the BullMQ job
  proc,     \* the processor's run of the job
  faults    \* how many faults have happened

vars == <<upload, object, puts, confirm, event, relay, job, proc, faults>>

-----------------------------------------------------------------------------
Settled == {"processed", "failed"}

Upload == [status : {"pending", "uploaded"} \cup Settled, variants : BOOLEAN]

\* "bad" is an object that does not match the row: size, type or signature.
Objects == {"none", "good", "bad"}

\* "lost": the transaction was committed, but not its answer received.
ConfirmState == {"new", "stat", "magic", "tx", "ok", "lost", "rejected"}

Event == [status : {"none", "pending", "processed", "failed"},
          attempts : 0..OutboxMaxAttempts]

\* "published" is queuePublishSucceeded.
Relay == [pc : {"idle", "add", "mark", "catch", "reconcile"}, published : BOOLEAN]

Job == [state : {"missing", "waiting", "active", "completed", "failed"},
        attemptsMade : 0..JobAttempts, stalls : 0..(MaxStalls + 1)]

ProcState == {"idle", "fetch", "stat", "encode", "save", "catch", "throw", "finish"}

TypeOK ==
  /\ upload \in Upload
  /\ object \in Objects
  /\ puts \in 0..MaxPuts
  /\ confirm \in [Confirms -> ConfirmState]
  /\ event \in Event
  /\ relay \in Relay
  /\ job \in Job
  /\ proc \in ProcState
  /\ faults \in 0..MaxFaults

IdleRelay == [pc |-> "idle", published |-> FALSE]

Init ==
  /\ upload = [status |-> "pending", variants |-> FALSE]
  /\ object = "none"
  /\ puts = 0
  /\ confirm = [c \in Confirms |-> "new"]
  /\ event = [status |-> "none", attempts |-> 0]
  /\ relay = IdleRelay
  /\ job = [state |-> "missing", attemptsMade |-> 0, stalls |-> 0]
  /\ proc = "idle"
  /\ faults = 0

Fault == faults < MaxFaults /\ faults' = faults + 1

-----------------------------------------------------------------------------
(***************************************************************************)
(* The browser and the admin API.                                          *)
(***************************************************************************)
workerVars == <<relay, job, proc>>

\* A PUT to the presigned URL, which works until the URL expires, whatever
\* has become of the upload.
PutObject ==
  /\ puts < MaxPuts
  /\ puts' = puts + 1
  /\ object' \in {"good", "bad"}
  /\ UNCHANGED <<upload, confirm, event, workerVars, faults>>

ConfirmGoes(c, pc) == confirm' = [confirm EXCEPT ![c] = pc]

\* The row is read; only a pending one goes on.
ConfirmFetch(c) ==
  /\ confirm[c] = "new"
  /\ ConfirmGoes(c, IF upload.status = "pending" THEN "stat" ELSE "rejected")
  /\ UNCHANGED <<upload, object, puts, event, workerVars, faults>>

\* Existence, size and type from the object's metadata, which a bad object may
\* pass ...
ConfirmStat(c) ==
  /\ confirm[c] = "stat"
  /\ \/ object # "none" /\ ConfirmGoes(c, "magic")
     \/ object # "good" /\ ConfirmGoes(c, "rejected")
  /\ UNCHANGED <<upload, object, puts, event, workerVars, faults>>

\* ... then its signature, in a request of its own.
ConfirmMagicBytes(c) ==
  /\ confirm[c] = "magic"
  /\ ConfirmGoes(c, IF object = "good" THEN "tx" ELSE "rejected")
  /\ UNCHANGED <<upload, object, puts, event, workerVars, faults>>

\* Mutant: UPDATE ... WHERE id, without the status.
ConfirmMatches_AnyStatus == TRUE

\* UPDATE ... WHERE id AND status = 'pending'.
ConfirmMatches == upload.status = "pending"

Commits ==
  /\ upload' = [upload EXCEPT !.status = "uploaded"]
  /\ event' = [status |-> "pending", attempts |-> 0]

\* The transaction: the row and its outbox event.
ConfirmCommit(c) ==
  /\ confirm[c] = "tx"
  /\ IF ConfirmMatches
     THEN Commits /\ ConfirmGoes(c, "ok")
     ELSE /\ ConfirmGoes(c, "rejected")
          /\ UNCHANGED <<upload, event>>
  /\ UNCHANGED <<object, puts, workerVars, faults>>

\* A call to S3 or PostgreSQL rejects or the process dies: nothing is written,
\* unless the transaction was.
ConfirmDies(c) ==
  /\ confirm[c] \in {"new", "stat", "magic", "tx"}
  /\ Fault
  /\ \/ ConfirmGoes(c, "rejected") /\ UNCHANGED <<upload, event>>
     \/ confirm[c] = "tx" /\ ConfirmMatches /\ Commits /\ ConfirmGoes(c, "lost")
  /\ UNCHANGED <<object, puts, workerVars>>

-----------------------------------------------------------------------------
(***************************************************************************)
(* The outbox relay.                                                       *)
(***************************************************************************)
relayRest == <<object, puts, confirm, proc>>

RelaySelect ==
  /\ relay.pc = "idle"
  /\ event.status = "pending"
  /\ event.attempts <= OutboxMaxAttempts - 1
  /\ relay' = [pc |-> "add", published |-> FALSE]
  /\ UNCHANGED <<relayRest, upload, event, job, faults>>

\* Mutant: the job's id does not depend on the event, so that nothing is ignored.
Added_Again == [job EXCEPT !.state = "waiting"]

\* Redis ignores an add() whose id it knows; completed and failed jobs are
\* kept, the worker's queues having no removal options.
Added == IF job.state = "missing" THEN [job EXCEPT !.state = "waiting"] ELSE job

RelayAdd ==
  /\ relay.pc = "add"
  /\ job' = Added
  /\ relay' = [pc |-> "mark", published |-> TRUE]
  /\ UNCHANGED <<relayRest, upload, event, faults>>

\* add() rejects; when only its answer was lost, the job is there all the same.
RelayAddFails ==
  /\ relay.pc = "add"
  /\ Fault
  /\ job' \in {job, Added}
  /\ relay' = [relay EXCEPT !.pc = "catch"]
  /\ UNCHANGED <<relayRest, upload, event>>

Marked == [event EXCEPT !.status = "processed"]

RelayMark ==
  /\ relay.pc = "mark"
  /\ event' = Marked
  /\ relay' = IdleRelay
  /\ UNCHANGED <<relayRest, upload, job, faults>>

\* The update rejects, or takes effect and its answer is lost.
RelayMarkFails ==
  /\ relay.pc = "mark"
  /\ Fault
  /\ event' \in {event, Marked}
  /\ relay' = [relay EXCEPT !.pc = "catch"]
  /\ UNCHANGED <<relayRest, upload, job>>

\* Mutant: one attempt too many.
IsFinal_OneMore == event.attempts + 1 > OutboxMaxAttempts

IsFinal == event.attempts + 1 >= OutboxMaxAttempts

\* After the attempt was counted, or was not: reconcile, or go on.
AfterCatch ==
  IF IsFinal /\ ~relay.published THEN [relay EXCEPT !.pc = "reconcile"] ELSE IdleRelay

RelayCatch ==
  /\ relay.pc = "catch"
  /\ event' = [attempts |-> event.attempts + 1,
               status |-> IF IsFinal THEN "failed" ELSE event.status]
  /\ relay' = AfterCatch
  /\ UNCHANGED <<relayRest, upload, job, faults>>

\* The UPDATE that counts the attempt is best effort; what follows is not
\* affected by its failure.
RelayCatchUnrecorded ==
  /\ relay.pc = "catch"
  /\ Fault
  /\ relay' = AfterCatch
  /\ UNCHANGED <<relayRest, upload, event, job>>

\* The job will never run, it is assumed: the upload is marked failed.
RelayReconcile ==
  /\ relay.pc = "reconcile"
  /\ upload' = [upload EXCEPT !.status = "failed"]
  /\ relay' = IdleRelay
  /\ UNCHANGED <<relayRest, event, job, faults>>

RelayReconcileFails ==
  /\ relay.pc = "reconcile"
  /\ Fault
  /\ relay' = IdleRelay
  /\ UNCHANGED <<relayRest, upload, event, job>>

-----------------------------------------------------------------------------
(***************************************************************************)
(* BullMQ and the processor.                                               *)
(***************************************************************************)
procRest == <<object, puts, confirm, event, relay>>

PickUp ==
  /\ job.state = "waiting"
  /\ proc = "idle"
  /\ job' = [job EXCEPT !.state = "active"]
  /\ proc' = "fetch"
  /\ UNCHANGED <<procRest, upload, faults>>

\* The upload record; a missing one would throw before the try.
ProcFetch ==
  /\ proc = "fetch"
  /\ proc' = "stat"
  /\ UNCHANGED <<procRest, upload, job, faults>>

\* The defensive checks on the object's metadata, then its bytes and the two
\* variants; a bad object may pass either.
ProcStat ==
  /\ proc = "stat"
  /\ \/ object # "none" /\ proc' = "encode"
     \/ object # "good" /\ proc' = "catch"
  /\ UNCHANGED <<procRest, upload, job, faults>>

ProcEncode ==
  /\ proc = "encode"
  /\ \/ proc' = "save"
     \/ object # "good" /\ proc' = "catch"
  /\ UNCHANGED <<procRest, upload, job, faults>>

\* Mutant: the row is not marked.
Saved_Unmarked == [upload EXCEPT !.variants = TRUE]
Saved          == [upload EXCEPT !.status = "processed", !.variants = TRUE]

ProcSave ==
  /\ proc = "save"
  /\ upload' = Saved
  /\ proc' = "finish"
  /\ UNCHANGED <<procRest, job, faults>>

\* The first query rejects outside the try, a later call inside it; the last
\* one may have taken effect.
ProcCallFails ==
  /\ proc \in {"fetch", "stat", "encode", "save"}
  /\ Fault
  /\ proc' = IF proc = "fetch" THEN "throw" ELSE "catch"
  /\ \/ UNCHANGED upload
     \/ proc = "save" /\ upload' = Saved
  /\ UNCHANGED <<procRest, job>>

IsFinalAttempt == job.attemptsMade + 1 >= JobAttempts

AfterCatchJob == IF IsFinalAttempt THEN [upload EXCEPT !.status = "failed"] ELSE upload

ProcCatch ==
  /\ proc = "catch"
  /\ upload' = AfterCatchJob
  /\ proc' = "throw"
  /\ UNCHANGED <<procRest, job, faults>>

\* The UPDATE of the last attempt is best effort.
ProcCatchUnrecorded ==
  /\ proc = "catch"
  /\ IsFinalAttempt
  /\ Fault
  /\ proc' = "throw"
  /\ UNCHANGED <<procRest, upload, job>>

ProcThrow ==
  /\ proc = "throw"
  /\ job' = [job EXCEPT !.attemptsMade = @ + 1,
                        !.state = IF IsFinalAttempt THEN "failed" ELSE "waiting"]
  /\ proc' = "idle"
  /\ UNCHANGED <<procRest, upload, faults>>

ProcFinish ==
  /\ proc = "finish"
  /\ job' = [job EXCEPT !.state = "completed"]
  /\ proc' = "idle"
  /\ UNCHANGED <<procRest, upload, faults>>

\* The worker process dies; BullMQ finds the active job stalled.
WorkerDies ==
  /\ relay.pc # "idle" \/ proc # "idle"
  /\ Fault
  /\ relay' = IdleRelay
  /\ proc' = "idle"
  /\ UNCHANGED <<upload, object, puts, confirm, event, job>>

StallCheck ==
  /\ job.state = "active"
  /\ proc = "idle"
  /\ job' = [job EXCEPT !.stalls = @ + 1,
               !.state = IF job.stalls < MaxStalls THEN "waiting" ELSE "failed"]
  /\ UNCHANGED <<procRest, upload, proc, faults>>

-----------------------------------------------------------------------------
ApiStep ==
  \E c \in Confirms :
    \/ ConfirmFetch(c)
    \/ ConfirmStat(c)
    \/ ConfirmMagicBytes(c)
    \/ ConfirmCommit(c)
    \/ ConfirmDies(c)

RelayStep ==
  RelaySelect \/ RelayAdd \/ RelayMark \/ RelayCatch \/ RelayReconcile

QueueStep == PickUp \/ StallCheck

ProcStep ==
  ProcFetch \/ ProcStat \/ ProcEncode \/ ProcSave \/ ProcCatch \/ ProcThrow \/ ProcFinish

FaultStep ==
  \/ RelayAddFails \/ RelayMarkFails \/ RelayCatchUnrecorded \/ RelayReconcileFails
  \/ ProcCallFails \/ ProcCatchUnrecorded \/ WorkerDies

Next == PutObject \/ ApiStep \/ RelayStep \/ QueueStep \/ ProcStep \/ FaultStep

SafeSpec == Init /\ [][Next]_vars

\* The worker polls the outbox on an interval, BullMQ hands out jobs, and a
\* processor that was given one runs on.  Nothing is assumed of the browser.
Fairness == WF_vars(RelayStep) /\ WF_vars(QueueStep) /\ WF_vars(ProcStep)

Spec == SafeSpec /\ Fairness

-----------------------------------------------------------------------------
(***************************************************************************)
(* Properties.                                                             *)
(***************************************************************************)

Confirmed(c) == confirm[c] \in {"ok", "lost"}

\* Concurrent confirmations (uploads.service.ts:190-194): one of them at most
\* takes effect, exactly when there is an outbox event, and the row is pending
\* exactly as long as there is none.
ConfirmedOnce ==
  /\ \A c, d \in Confirms : Confirmed(c) /\ Confirmed(d) => c = d
  /\ (\E c \in Confirms : Confirmed(c)) <=> event.status # "none"
  /\ upload.status = "pending" <=> event.status = "none"

\* The web client renders the variants of a processed upload: it has them.
ProcessedHasVariants == upload.status = "processed" => upload.variants

\* Somebody is left to settle the upload: an event to relay or to reconcile, a
\* job that waits, or a run of the processor that is not done.
Carried ==
  \/ event.status = "pending" /\ event.attempts < OutboxMaxAttempts
  \/ relay.pc = "reconcile"
  \/ job.state = "waiting"
  \/ job.state = "active" /\ proc # "finish"

\* The purpose of the outbox and of the reconciliation (outbox-relay.ts:414-417,
\* uploads.service.ts:195-196): an upload that is not settled has a carrier,
\* or an event or a job on record as failed.
NeverStranded ==
  upload.status = "uploaded" =>
    Carried \/ event.status = "failed" \/ job.state = "failed"

\* How many confirmations took effect.
confirmations == Cardinality({c \in Confirms : Confirmed(c)})

\* The upload is confirmed once and settled, and never unsettled again
\* (UploadLifecycle).
Lifecycle == INSTANCE UploadLifecycle WITH status <- upload.status

LifecycleSafety == Lifecycle!SafeSpec

\* What outbox, attempts and stalled-job check are for: a confirmed upload is
\* settled although one call fails, or the worker dies once, anywhere.  (A bad
\* object uses up the attempts, and then one more failure is enough to stop the
\* job outside its try block, with the upload unsettled.)
SettlesDespiteOneFault ==
  [](faults <= 1 /\ object # "bad") => Lifecycle!Settles

\* With more faults than attempts, it is settled or its failure is on record.
EndsOnRecord ==
  (upload.status = "uploaded") ~>
    (upload.status \in Settled \/ event.status = "failed" \/ job.state = "failed")

-----------------------------------------------------------------------------
(***************************************************************************)
(* The inductive invariant behind the proofs (ImagePipeline_proofs).       *)
(***************************************************************************)

\* The relay works on an event that is pending, or that it has marked without
\* knowing, or has just given it up; such an event, and a pending one, has attempts
\* left.
RelayInv ==
  /\ relay.pc \in {"add", "mark"} => event.status = "pending"
  /\ relay.pc = "mark" => relay.published
  /\ relay.pc = "catch" =>
       event.status = "pending" \/ (event.status = "processed" /\ relay.published)
  /\ relay.pc = "catch" => event.attempts < OutboxMaxAttempts
  /\ relay.pc = "reconcile" => event.status \in {"pending", "failed"}
  /\ event.status = "pending" => event.attempts < OutboxMaxAttempts

\* There is a job only for a confirmed upload, and always once the event is
\* processed; it has attempts and stalls left as long as it is not over.
JobInv ==
  /\ job.state # "missing" => event.status # "none"
  /\ event.status = "processed" \/ relay.pc = "mark" => job.state # "missing"
  /\ proc # "idle" => job.state = "active"
  /\ job.state \in {"missing", "waiting", "active"} =>
       job.attemptsMade < JobAttempts /\ job.stalls <= MaxStalls

\* A run that ended well has settled the upload.
RunInv == proc = "finish" \/ job.state = "completed" => upload.status \in Settled

Consistent ==
  /\ TypeOK /\ RelayInv /\ JobInv /\ RunInv
  /\ ConfirmedOnce /\ ProcessedHasVariants

-----------------------------------------------------------------------------
(***************************************************************************)
(* What comments and documents say, and the code does not do.              *)
(***************************************************************************)

\* outbox-relay.ts:414-415 says that the relay gives up on an upload when "the
\* queue publish never succeeded, the imageOptimize job will never run".
ReconcileOnlyUndelivered == [][RelayReconcile => job.state = "missing"]_vars

\* outbox-relay.ts:420 says that "imageOptimize.ts manages the terminal states"
\* of a job that is in BullMQ: a job that has ended has settled its upload.
EndedJobSettles ==
  job.state \in {"completed", "failed"} => upload.status \in Settled
==============================================================================
