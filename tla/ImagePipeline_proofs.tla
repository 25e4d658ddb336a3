------------------------- MODULE ImagePipeline_proofs -------------------------
(***************************************************************************)
(* For every set of confirm requests, every bound and every number of      *)
(* faults: the inductive invariant Consistent, that no upload is stranded  *)
(* without a trace, and that every step of the pipeline is a step of       *)
(* UploadLifecycle or changes nothing it can see.                          *)
(***************************************************************************)
EXTENDS ImagePipeline, FiniteSetTheorems, TLAPS

LEMMA InitConsistent == Init => Consistent
<1> SUFFICES ASSUME Init PROVE Consistent
  OBVIOUS
<1> USE ConstantsAssumption
<1>1. TypeOK
  BY DEF Init, TypeOK, Upload, Objects, ConfirmState, Event, Relay, IdleRelay, Job,
         ProcState
<1>2. RelayInv /\ JobInv /\ RunInv /\ ConfirmedOnce /\ ProcessedHasVariants
  BY DEF Init, RelayInv, JobInv, RunInv, ConfirmedOnce, ProcessedHasVariants,
         IdleRelay, Confirmed
<1> QED
  BY <1>1, <1>2 DEF Consistent

-----------------------------------------------------------------------------
\* A confirm request moves on without writing anything.
LEMMA ConfirmMovesOn ==
  ASSUME Consistent, NEW c \in Confirms, NEW pc \in ConfirmState \ {"ok", "lost"},
         ~Confirmed(c), ConfirmGoes(c, pc),
         UNCHANGED <<upload, object, puts, event, relay, job, proc>>,
         faults' \in 0..MaxFaults
  PROVE  Consistent'
<1>1. TypeOK'
  BY DEF Consistent, TypeOK, ConfirmGoes
<1>2. RelayInv' /\ JobInv' /\ RunInv' /\ ProcessedHasVariants'
  BY DEF Consistent, RelayInv, JobInv, RunInv, ProcessedHasVariants
<1>3. \A d \in Confirms : Confirmed(d)' <=> Confirmed(d)
  BY DEF Consistent, TypeOK, ConfirmGoes, Confirmed
<1>4. ConfirmedOnce'
  BY <1>3 DEF Consistent, ConfirmedOnce
<1> QED
  BY <1>1, <1>2, <1>4 DEF Consistent

\* The transaction, answered or not.
LEMMA CommitKeepsConsistent ==
  ASSUME Consistent, NEW c \in Confirms, NEW pc \in {"ok", "lost"},
         ConfirmMatches, Commits, ConfirmGoes(c, pc),
         UNCHANGED <<object, puts, relay, job, proc>>, faults' \in 0..MaxFaults
  PROVE  Consistent'
<1>1. /\ upload.status = "pending"
      /\ upload' = [upload EXCEPT !.status = "uploaded"]
      /\ event' = [status |-> "pending", attempts |-> 0]
      /\ confirm' = [confirm EXCEPT ![c] = pc]
  BY DEF ConfirmMatches, Commits, ConfirmGoes
<1>2. upload' \in Upload /\ upload'.status = "uploaded" /\ event.status = "none"
  BY <1>1 DEF Consistent, TypeOK, Upload, ConfirmedOnce
<1>3. event' \in Event /\ event'.status = "pending"
      /\ event'.attempts < OutboxMaxAttempts
  BY <1>1, ConstantsAssumption DEF Event
<1>4. TypeOK'
  BY <1>1, <1>2, <1>3 DEF Consistent, TypeOK, ConfirmState
<1>5. \A d \in Confirms : Confirmed(d)' <=> d = c
  BY <1>1, <1>2 DEF Consistent, TypeOK, ConfirmedOnce, Confirmed
<1>6. ConfirmedOnce'
  BY <1>2, <1>3, <1>5 DEF ConfirmedOnce
<1>7. RelayInv'
  BY <1>1, <1>2, <1>3 DEF Consistent, RelayInv, TypeOK, Relay
<1>8. JobInv' /\ RunInv' /\ ProcessedHasVariants'
  BY <1>1, <1>2, <1>3 DEF Consistent, JobInv, RunInv, ProcessedHasVariants
<1> QED
  BY <1>4, <1>6, <1>7, <1>8 DEF Consistent

LEMMA ApiKeepsConsistent ==
  ASSUME Consistent, PutObject \/ ApiStep
  PROVE  Consistent'
<1> USE DEF workerVars
<1>0. /\ \A c \in Confirms : confirm[c] \in ConfirmState
      /\ UNCHANGED faults => faults' \in 0..MaxFaults
      /\ Fault => faults' \in 0..MaxFaults
  BY ConstantsAssumption DEF Consistent, TypeOK, Fault
<1>1. CASE PutObject
  <2>1. TypeOK'
    BY <1>1, ConstantsAssumption DEF PutObject, Consistent, TypeOK, Objects
  <2>2. RelayInv' /\ JobInv' /\ RunInv' /\ ProcessedHasVariants' /\ ConfirmedOnce'
    BY <1>1 DEF PutObject, Consistent, RelayInv, JobInv, RunInv, ProcessedHasVariants,
                ConfirmedOnce, Confirmed
  <2> QED
    BY <2>1, <2>2 DEF Consistent
<1>2. ASSUME NEW c \in Confirms, NEW pc \in {"stat", "magic", "tx", "rejected"},
             confirm[c] \in {"new", "stat", "magic", "tx"}, ConfirmGoes(c, pc),
             UNCHANGED <<upload, object, puts, event, relay, job, proc>>,
             UNCHANGED faults \/ Fault
      PROVE  Consistent'
  <2>1. pc \in ConfirmState \ {"ok", "lost"} /\ ~Confirmed(c)
    BY <1>2 DEF ConfirmState, Confirmed
  <2> QED
    BY <1>0, <1>2, <2>1, ConfirmMovesOn
<1>3. ASSUME NEW c \in Confirms,
             ConfirmFetch(c) \/ ConfirmStat(c) \/ ConfirmMagicBytes(c)
      PROVE  Consistent'
  BY <1>2, <1>3 DEF ConfirmFetch, ConfirmStat, ConfirmMagicBytes
<1>4. ASSUME NEW c \in Confirms, ConfirmCommit(c)
      PROVE  Consistent'
  <2>1. CASE ConfirmMatches
    BY <1>0, <1>4, <2>1, CommitKeepsConsistent DEF ConfirmCommit
  <2>2. CASE ~ConfirmMatches
    BY <1>2, <1>4, <2>2 DEF ConfirmCommit
  <2> QED
    BY <2>1, <2>2
<1>5. ASSUME NEW c \in Confirms, ConfirmDies(c)
      PROVE  Consistent'
  <2>1. CASE ConfirmGoes(c, "rejected") /\ UNCHANGED <<upload, event>>
    BY <1>2, <1>5, <2>1 DEF ConfirmDies
  <2>2. CASE ConfirmMatches /\ Commits /\ ConfirmGoes(c, "lost")
    BY <1>0, <1>5, <2>2, CommitKeepsConsistent DEF ConfirmDies
  <2> QED
    BY <1>5, <2>1, <2>2 DEF ConfirmDies
<1> QED
  BY <1>1, <1>3, <1>4, <1>5 DEF ApiStep
-----------------------------------------------------------------------------
\* The parts of the invariant about confirmations and variants survive every step
\* of the worker that leaves the requests alone and the row confirmed.
LEMMA WorkerKeepsConfirmedOnce ==
  ASSUME Consistent, UNCHANGED confirm,
         event'.status = "none" <=> event.status = "none",
         upload'.status = "pending" <=> upload.status = "pending",
         UNCHANGED upload \/ upload'.variants \/ upload'.status = "failed"
  PROVE  ConfirmedOnce' /\ ProcessedHasVariants'
BY DEF Consistent, ConfirmedOnce, ProcessedHasVariants, Confirmed

\* The worker settles a confirmed upload only.
LEMMA ConfirmedIsNotPending ==
  ASSUME Consistent
  PROVE  /\ event.status # "none" => upload.status # "pending"
         /\ relay.pc # "idle" \/ proc # "idle" => event.status # "none"
<1>1. relay.pc # "idle" => relay.pc \in {"add", "mark", "catch", "reconcile"}
  BY DEF Consistent, TypeOK, Relay
<1> QED
  BY <1>1 DEF Consistent, ConfirmedOnce, RelayInv, JobInv

LEMMA FailedUpload ==
  ASSUME upload \in Upload
  PROVE  /\ [upload EXCEPT !.status = "failed"] \in Upload
         /\ [upload EXCEPT !.status = "failed"].status = "failed"
         /\ Saved \in Upload /\ Saved.status = "processed" /\ Saved.variants
BY DEF Upload, Settled, Saved

LEMMA AddedJob ==
  ASSUME Consistent
  PROVE  /\ Added \in Job /\ Added.state # "missing"
         /\ Added.state = job.state \/ (job.state = "missing" /\ Added.state = "waiting")
         /\ job.state = "missing" =>
              Added.attemptsMade = job.attemptsMade /\ Added.stalls = job.stalls
         /\ job.state # "missing" => Added = job
BY DEF Consistent, TypeOK, Job, Added

LEMMA RelayKeepsConsistent ==
  ASSUME Consistent,
         \/ RelayStep \/ RelayAddFails \/ RelayMarkFails
         \/ RelayCatchUnrecorded \/ RelayReconcileFails
  PROVE  Consistent'
<1> USE DEF relayRest
<1>0. /\ relay \in Relay /\ job \in Job /\ event \in Event /\ upload \in Upload
      /\ UNCHANGED faults => faults' \in 0..MaxFaults
      /\ Fault => faults' \in 0..MaxFaults
      /\ IdleRelay \in Relay
  BY ConstantsAssumption DEF Consistent, TypeOK, Fault, IdleRelay, Relay
<1>1. ASSUME relay' \in Relay, event' \in Event, job' \in Job, upload' \in Upload,
             faults' \in 0..MaxFaults, UNCHANGED <<object, puts, confirm, proc>>,
             RelayInv', JobInv', RunInv', ConfirmedOnce', ProcessedHasVariants'
      PROVE  Consistent'
  BY <1>1 DEF Consistent, TypeOK
<1>2. ASSUME relay' \in Relay, UNCHANGED <<object, puts, confirm, proc, upload, event>>,
             RelayInv', faults' \in 0..MaxFaults, job' = job \/ job' = Added,
             relay'.pc = "mark" => job'.state # "missing", relay.pc # "idle"
      PROVE  Consistent'
  <2>1. event.status # "none"
    BY <1>2, ConfirmedIsNotPending
  <2>2. job' \in Job /\ JobInv' /\ RunInv'
    BY <1>0, <1>2, <2>1, AddedJob DEF Consistent, JobInv, RunInv
  <2>3. ConfirmedOnce' /\ ProcessedHasVariants'
    BY <1>2, WorkerKeepsConfirmedOnce
  <2> QED
    BY <1>0, <1>1, <1>2, <2>2, <2>3
<1>3. AfterCatch \in Relay /\ AfterCatch.pc \in {"idle", "reconcile"}
      /\ (AfterCatch.pc = "reconcile" => IsFinal /\ ~relay.published)
  BY <1>0 DEF AfterCatch, Relay, IdleRelay
<1>4. CASE RelaySelect
  <2>1. /\ relay' = [pc |-> "add", published |-> FALSE]
        /\ event.status = "pending"
        /\ UNCHANGED <<object, puts, confirm, proc, upload, event, job, faults>>
    BY <1>4 DEF RelaySelect
  <2>2. relay' \in Relay /\ relay'.pc = "add"
    BY <2>1 DEF Relay
  <2>3. RelayInv' /\ JobInv' /\ RunInv'
    BY <2>1, <2>2 DEF Consistent, RelayInv, JobInv, RunInv
  <2>4. ConfirmedOnce' /\ ProcessedHasVariants'
    BY <2>1, WorkerKeepsConfirmedOnce
  <2> QED
    BY <1>0, <1>1, <2>1, <2>2, <2>3, <2>4
<1>5. CASE RelayAdd
  <2>1. relay' \in Relay /\ relay'.pc = "mark" /\ relay'.published
    BY <1>5 DEF RelayAdd, Relay
  <2>2. RelayInv' /\ job'.state # "missing"
    BY <1>5, <2>1, AddedJob DEF RelayAdd, Consistent, RelayInv
  <2> QED
    BY <1>0, <1>2, <1>5, <2>1, <2>2 DEF RelayAdd
<1>6. CASE RelayAddFails
  <2>1. relay' \in Relay /\ relay'.pc = "catch"
    BY <1>0, <1>6 DEF RelayAddFails, Relay
  <2>2. RelayInv'
    BY <1>6, <2>1 DEF RelayAddFails, Consistent, RelayInv
  <2> QED
    BY <1>0, <1>2, <1>6, <2>1, <2>2 DEF RelayAddFails
<1>7. CASE RelayMark
  <2>1. /\ relay.pc = "mark" /\ relay' = IdleRelay
        /\ event' = [event EXCEPT !.status = "processed"]
        /\ UNCHANGED <<object, puts, confirm, proc, upload, job, faults>>
    BY <1>7 DEF RelayMark, Marked
  <2>2. event' \in Event /\ event'.status = "processed" /\ event.status = "pending"
    BY <1>0, <2>1 DEF Event, Consistent, RelayInv
  <2>3. RelayInv' /\ JobInv' /\ RunInv'
    BY <2>1, <2>2 DEF Consistent, RelayInv, JobInv, RunInv, IdleRelay
  <2>4. ConfirmedOnce' /\ ProcessedHasVariants'
    BY <2>1, <2>2, WorkerKeepsConfirmedOnce
  <2> QED
    BY <1>0, <1>1, <2>1, <2>2, <2>3, <2>4
<1>8. CASE RelayMarkFails
  <2>1. /\ relay' \in Relay /\ relay'.pc = "catch" /\ relay'.published
        /\ relay.pc = "mark" /\ job.state # "missing"
        /\ event.status = "pending" /\ event.attempts < OutboxMaxAttempts
    BY <1>0, <1>8 DEF RelayMarkFails, Relay, Consistent, RelayInv, JobInv
  <2>2. CASE event' = event
    <3>1. RelayInv'
      BY <1>8, <2>1, <2>2 DEF RelayMarkFails, Consistent, RelayInv
    <3> QED
      BY <1>0, <1>2, <1>8, <2>1, <2>2, <3>1 DEF RelayMarkFails
  <2>3. CASE event' = Marked
    <3>1. /\ event' \in Event /\ event'.status = "processed"
          /\ event'.attempts = event.attempts
      BY <1>0, <2>3 DEF Event, Marked
    <3>2. RelayInv' /\ JobInv' /\ RunInv'
      BY <1>8, <2>1, <3>1 DEF RelayMarkFails, Consistent, RelayInv, JobInv, RunInv
    <3>3. ConfirmedOnce' /\ ProcessedHasVariants'
      BY <1>8, <2>1, <3>1, WorkerKeepsConfirmedOnce DEF RelayMarkFails
    <3> QED
      BY <1>0, <1>1, <1>8, <2>1, <3>1, <3>2, <3>3 DEF RelayMarkFails
  <2> QED
    BY <1>8, <2>2, <2>3 DEF RelayMarkFails
<1>9. CASE RelayCatch
  <2> DEFINE n == event.attempts + 1
  <2>1. /\ relay.pc = "catch" /\ relay' = AfterCatch
        /\ event' = [attempts |-> n, status |-> IF IsFinal THEN "failed" ELSE event.status]
        /\ UNCHANGED <<object, puts, confirm, proc, upload, job, faults>>
    BY <1>9 DEF RelayCatch
  <2>2. /\ event.status \in {"pending", "processed"}
        /\ event.status = "processed" => job.state # "missing" /\ AfterCatch.pc = "idle"
        /\ event.attempts < OutboxMaxAttempts
    BY <2>1 DEF Consistent, RelayInv, JobInv, AfterCatch, IdleRelay
  <2>3. n \in 0..OutboxMaxAttempts /\ (~IsFinal => n < OutboxMaxAttempts)
    BY <1>0, <2>2, ConstantsAssumption DEF Event, IsFinal
  <2> HIDE DEF n
  <2>4. /\ event' \in Event /\ event'.attempts = n
        /\ event'.status = IF IsFinal THEN "failed" ELSE event.status
    BY <2>1, <2>2, <2>3 DEF Event
  <2>5. RelayInv' /\ JobInv' /\ RunInv'
    BY <1>3, <2>1, <2>2, <2>3, <2>4 DEF Consistent, RelayInv, JobInv, RunInv
  <2>6. ConfirmedOnce' /\ ProcessedHasVariants'
    BY <2>1, <2>2, <2>4, WorkerKeepsConfirmedOnce
  <2> QED
    BY <1>0, <1>1, <1>3, <2>1, <2>4, <2>5, <2>6
<1>10. CASE RelayCatchUnrecorded
  <2>1. RelayInv'
    BY <1>3, <1>10 DEF RelayCatchUnrecorded, Consistent, RelayInv
  <2> QED
    BY <1>0, <1>2, <1>3, <1>10, <2>1 DEF RelayCatchUnrecorded
<1>11. CASE RelayReconcile
  <2>1. /\ relay.pc = "reconcile" /\ relay' = IdleRelay
        /\ upload' = [upload EXCEPT !.status = "failed"]
        /\ UNCHANGED <<object, puts, confirm, proc, event, job, faults>>
    BY <1>11 DEF RelayReconcile
  <2>2. upload' \in Upload /\ upload'.status = "failed" /\ upload.status # "pending"
    BY <1>0, <2>1, FailedUpload, ConfirmedIsNotPending
  <2>3. RelayInv' /\ JobInv' /\ RunInv'
    BY <2>1, <2>2 DEF Consistent, RelayInv, JobInv, RunInv, IdleRelay, Settled
  <2>4. ConfirmedOnce' /\ ProcessedHasVariants'
    BY <2>1, <2>2, WorkerKeepsConfirmedOnce
  <2> QED
    BY <1>0, <1>1, <2>1, <2>2, <2>3, <2>4
<1>12. CASE RelayReconcileFails
  <2>1. RelayInv'
    BY <1>12 DEF RelayReconcileFails, Consistent, RelayInv, IdleRelay
  <2> QED
    BY <1>0, <1>2, <1>12, <2>1 DEF RelayReconcileFails, IdleRelay
<1> QED
  BY <1>4, <1>5, <1>6, <1>7, <1>8, <1>9, <1>10, <1>11, <1>12 DEF RelayStep

LEMMA ProcKeepsConsistent ==
  ASSUME Consistent,
         QueueStep \/ ProcStep \/ ProcCallFails \/ ProcCatchUnrecorded \/ WorkerDies
  PROVE  Consistent'
<1> USE DEF procRest
<1>0. /\ job \in Job /\ proc \in ProcState /\ upload \in Upload
      /\ UNCHANGED faults => faults' \in 0..MaxFaults
      /\ Fault => faults' \in 0..MaxFaults
  BY ConstantsAssumption DEF Consistent, TypeOK, Fault
\* A step of a run: job and row as they may change.
<1>1. ASSUME UNCHANGED <<object, puts, confirm, event, relay>>,
             job' \in Job, proc' \in ProcState, upload' \in Upload,
             faults' \in 0..MaxFaults, job.state # "missing", job'.state # "missing",
             proc' # "idle" => job'.state = "active",
             job'.state \in {"waiting", "active"} =>
               job'.attemptsMade < JobAttempts /\ job'.stalls <= MaxStalls,
             RunInv',
             \/ UNCHANGED upload
             \/ upload'.status = "failed"
             \/ upload'.status = "processed" /\ upload'.variants
      PROVE  Consistent'
  <2>1. TypeOK'
    BY <1>1 DEF Consistent, TypeOK
  <2>2. RelayInv' /\ JobInv'
    BY <1>1 DEF Consistent, RelayInv, JobInv
  <2>3. upload.status # "pending"
    BY <1>1, ConfirmedIsNotPending DEF Consistent, JobInv
  <2>4. ConfirmedOnce' /\ ProcessedHasVariants'
    BY <1>1, <2>3, WorkerKeepsConfirmedOnce
  <2> QED
    BY <1>1, <2>1, <2>2, <2>4 DEF Consistent
\* A step that touches nothing but the processor.
<1>2. ASSUME UNCHANGED <<object, puts, confirm, event, relay, job, upload>>,
             proc # "idle", proc' \in ProcState \ {"finish"}, faults' \in 0..MaxFaults
      PROVE  Consistent'
  BY <1>0, <1>1, <1>2 DEF Consistent, JobInv, RunInv
<1>3. CASE PickUp
  <2>1. /\ job.state = "waiting" /\ job' = [job EXCEPT !.state = "active"]
        /\ proc' = "fetch"
        /\ UNCHANGED <<object, puts, confirm, event, relay, upload, faults>>
    BY <1>3 DEF PickUp
  <2>2. /\ job' \in Job /\ job'.state = "active"
        /\ job'.attemptsMade = job.attemptsMade /\ job'.stalls = job.stalls
    BY <1>0, <2>1 DEF Job
  <2>3. RunInv' /\ proc' \in ProcState
    BY <2>1, <2>2 DEF RunInv, ProcState
  <2> QED
    BY <1>0, <1>1, <2>1, <2>2, <2>3 DEF Consistent, JobInv
<1>4. CASE StallCheck
  <2> DEFINE s == IF job.stalls < MaxStalls THEN "waiting" ELSE "failed"
             n == job.stalls + 1
  <2>1. /\ job.state = "active" /\ proc = "idle"
        /\ job' = [job EXCEPT !.stalls = n, !.state = s]
        /\ UNCHANGED <<object, puts, confirm, event, relay, upload, proc, faults>>
    BY <1>4 DEF StallCheck
  <2>2. job.stalls <= MaxStalls /\ job.attemptsMade < JobAttempts
    BY <2>1 DEF Consistent, JobInv
  <2>3. /\ n \in 0..(MaxStalls + 1) /\ s \in {"waiting", "failed"}
        /\ s = "waiting" => n <= MaxStalls
    BY <1>0, <2>2, ConstantsAssumption DEF Job
  <2> HIDE DEF s, n
  <2>4. /\ job' \in Job /\ job'.state = s /\ job'.stalls = n
        /\ job'.attemptsMade = job.attemptsMade
    BY <1>0, <2>1, <2>3 DEF Job
  <2>5. RunInv'
    BY <2>1, <2>3, <2>4 DEF RunInv
  <2> QED
    BY <1>0, <1>1, <2>1, <2>2, <2>3, <2>4, <2>5
<1>5. CASE ProcFetch \/ ProcStat \/ ProcCatchUnrecorded
  BY <1>0, <1>2, <1>5 DEF ProcFetch, ProcStat, ProcCatchUnrecorded, ProcState
<1>6. CASE ProcEncode
  BY <1>0, <1>2, <1>6 DEF ProcEncode, ProcState
<1>7. CASE ProcSave
  <2>1. /\ proc = "save" /\ upload' = Saved /\ proc' = "finish"
        /\ UNCHANGED <<object, puts, confirm, event, relay, job, faults>>
    BY <1>7 DEF ProcSave
  <2>2. /\ upload' \in Upload /\ upload'.status = "processed" /\ upload'.variants
    BY <1>0, <2>1, FailedUpload
  <2>3. RunInv' /\ proc' \in ProcState
    BY <2>1, <2>2 DEF RunInv, ProcState, Settled
  <2> QED
    BY <1>0, <1>1, <2>1, <2>2, <2>3 DEF Consistent, JobInv
<1>8. CASE ProcCallFails
  <2>1. /\ proc \in {"fetch", "stat", "encode", "save"}
        /\ proc' \in {"throw", "catch"}
        /\ upload' = upload \/ upload' = Saved
        /\ UNCHANGED <<object, puts, confirm, event, relay, job>> /\ Fault
    BY <1>8 DEF ProcCallFails
  <2>2. /\ upload' \in Upload
        /\ upload' = upload \/ (upload'.status = "processed" /\ upload'.variants)
    BY <1>0, <2>1, FailedUpload
  <2>3. RunInv' /\ proc' \in ProcState
    BY <2>1 DEF RunInv, ProcState, Consistent, JobInv
  <2> QED
    BY <1>0, <1>1, <2>1, <2>2, <2>3 DEF Consistent, JobInv
<1>9. CASE ProcCatch
  <2>1. /\ proc = "catch" /\ proc' = "throw"
        /\ upload' = upload \/ upload' = [upload EXCEPT !.status = "failed"]
        /\ UNCHANGED <<object, puts, confirm, event, relay, job, faults>>
    BY <1>9 DEF ProcCatch, AfterCatchJob
  <2>2. upload' \in Upload /\ (upload' = upload \/ upload'.status = "failed")
    BY <1>0, <2>1, FailedUpload
  <2>3. RunInv' /\ proc' \in ProcState
    BY <2>1 DEF RunInv, ProcState, Consistent, JobInv
  <2> QED
    BY <1>0, <1>1, <2>1, <2>2, <2>3 DEF Consistent, JobInv
<1>10. CASE ProcThrow
  <2> DEFINE n == job.attemptsMade + 1
             s == IF IsFinalAttempt THEN "failed" ELSE "waiting"
  <2>1. /\ proc = "throw" /\ proc' = "idle" /\ job.state = "active"
        /\ job' = [job EXCEPT !.attemptsMade = n, !.state = s]
        /\ UNCHANGED <<object, puts, confirm, event, relay, upload, faults>>
    BY <1>10 DEF ProcThrow, Consistent, JobInv
  <2>2. job.stalls <= MaxStalls /\ job.attemptsMade < JobAttempts
    BY <2>1 DEF Consistent, JobInv
  <2>3. /\ n \in 0..JobAttempts /\ s \in {"waiting", "failed"}
        /\ s = "waiting" => n < JobAttempts
    BY <1>0, <2>2, ConstantsAssumption DEF Job, IsFinalAttempt
  <2> HIDE DEF s, n
  <2>4. /\ job' \in Job /\ job'.state = s /\ job'.stalls = job.stalls
        /\ job'.attemptsMade = n
    BY <1>0, <2>1, <2>3 DEF Job
  <2>5. RunInv' /\ proc' \in ProcState
    BY <2>1, <2>3, <2>4 DEF RunInv, ProcState
  <2> QED
    BY <1>0, <1>1, <2>1, <2>2, <2>3, <2>4, <2>5
<1>11. CASE ProcFinish
  <2>1. /\ proc = "finish" /\ proc' = "idle" /\ job.state = "active"
        /\ job' = [job EXCEPT !.state = "completed"]
        /\ UNCHANGED <<object, puts, confirm, event, relay, upload, faults>>
    BY <1>11 DEF ProcFinish, Consistent, JobInv
  <2>2. job' \in Job /\ job'.state = "completed"
    BY <1>0, <2>1 DEF Job
  <2>3. RunInv' /\ proc' \in ProcState
    BY <2>1 DEF RunInv, ProcState, Consistent
  <2> QED
    BY <1>0, <1>1, <2>1, <2>2, <2>3
<1>12. CASE WorkerDies
  <2>1. /\ relay' = IdleRelay /\ proc' = "idle" /\ faults' \in 0..MaxFaults
        /\ UNCHANGED <<upload, object, puts, confirm, event, job>>
    BY <1>0, <1>12 DEF WorkerDies
  <2>2. TypeOK'
    BY <2>1 DEF Consistent, TypeOK, IdleRelay, Relay, ProcState
  <2>3. RelayInv' /\ JobInv' /\ RunInv'
    BY <2>1 DEF Consistent, RelayInv, JobInv, RunInv, IdleRelay
  <2>4. ConfirmedOnce' /\ ProcessedHasVariants'
    BY <2>1, WorkerKeepsConfirmedOnce
  <2> QED
    BY <2>2, <2>3, <2>4 DEF Consistent
<1> QED
  BY <1>3, <1>4, <1>5, <1>6, <1>7, <1>8, <1>9, <1>10, <1>11, <1>12
     DEF QueueStep, ProcStep

LEMMA NextKeepsConsistent ==
  ASSUME Consistent, [Next]_vars
  PROVE  Consistent'
<1>1. CASE UNCHANGED vars
  <2>1. TypeOK' /\ RelayInv' /\ JobInv'
    BY <1>1 DEF vars, Consistent, TypeOK, RelayInv, JobInv
  <2>2. RunInv' /\ ConfirmedOnce' /\ ProcessedHasVariants'
    BY <1>1 DEF vars, Consistent, RunInv, ConfirmedOnce, ProcessedHasVariants, Confirmed
  <2> QED
    BY <2>1, <2>2 DEF Consistent
<1> QED
  BY <1>1, ApiKeepsConsistent, RelayKeepsConsistent, ProcKeepsConsistent
     DEF Next, FaultStep

(***************************************************************************)
(* Consistent holds in every reachable state: types, what the relay and    *)
(* the processor work on, one successful confirmation at most, variants    *)
(* for every processed upload (uploads.service, outbox-relay,              *)
(* imageOptimize).                                                         *)
(***************************************************************************)
THEOREM ConsistentAlways == SafeSpec => []Consistent
<1>1. Init => Consistent
  BY InitConsistent
<1>2. Consistent /\ [Next]_vars => Consistent'
  BY NextKeepsConsistent
<1> QED
  BY <1>1, <1>2, PTL DEF SafeSpec

(***************************************************************************)
(* However many requests confirm the upload at the same time, one of them  *)
(* at most takes effect, and it writes the one outbox event.               *)
(***************************************************************************)
THEOREM ConfirmedOnceAlways == SafeSpec => []ConfirmedOnce
<1>1. Consistent => ConfirmedOnce
  BY DEF Consistent
<1> QED
  BY <1>1, ConsistentAlways, PTL

(***************************************************************************)
(* A confirmed upload that is not settled has an event to relay, a job     *)
(* that will run or runs, or an event or a job on record as failed: no     *)
(* crash and no failed call makes it disappear from the pipeline.          *)
(***************************************************************************)
THEOREM NeverStrandedAlways == SafeSpec => []NeverStranded
<1>1. ASSUME Consistent
      PROVE  NeverStranded
  <2>1. SUFFICES ASSUME upload.status = "uploaded"
                 PROVE  Carried \/ event.status = "failed" \/ job.state = "failed"
    BY DEF NeverStranded
  <2>2. event.status \in {"pending", "processed", "failed"}
    BY <1>1, <2>1 DEF Consistent, TypeOK, Event, ConfirmedOnce
  <2>3. CASE event.status = "processed"
    <3>1. job.state \in {"waiting", "active", "completed", "failed"}
      BY <1>1, <2>3 DEF Consistent, TypeOK, Job, JobInv
    <3>2. job.state # "completed" /\ proc # "finish"
      BY <1>1, <2>1 DEF Consistent, RunInv, Settled
    <3> QED
      BY <3>1, <3>2 DEF Carried
  <2> QED
    BY <1>1, <2>2, <2>3 DEF Carried, Consistent, RelayInv
<1> QED
  BY <1>1, ConsistentAlways, PTL

-----------------------------------------------------------------------------
\* A step that leaves the status and the answered requests alone is a stutter.
LEMMA OtherStepsStutter ==
  ASSUME upload'.status = upload.status,
         \A c \in Confirms : Confirmed(c)' <=> Confirmed(c)
  PROVE  UNCHANGED Lifecycle!lifecycleVars
<1>1. {c \in Confirms : Confirmed(c)'} = {c \in Confirms : Confirmed(c)}
  OBVIOUS
<1>2. confirmations' = confirmations
  BY <1>1 DEF confirmations
<1> QED
  BY <1>2 DEF Lifecycle!lifecycleVars

\* A step of the worker that settles the row.
LEMMA SettlingStep ==
  ASSUME Consistent, relay.pc # "idle" \/ proc # "idle", UNCHANGED confirm,
         upload'.status \in Settled
  PROVE  Lifecycle!Next
<1>1. upload.status # "pending"
  BY ConfirmedIsNotPending
<1>2. confirmations' = confirmations
  BY DEF confirmations, Confirmed
<1> QED
  BY <1>1, <1>2 DEF Lifecycle!Next, Lifecycle!Settle, Settled, Lifecycle!Settled

LEMMA InitIsLifecycleInit == Init => Lifecycle!Init
<1> SUFFICES ASSUME Init PROVE Lifecycle!Init
  OBVIOUS
<1>1. {c \in Confirms : Confirmed(c)} = {}
  BY DEF Init, Confirmed
<1>2. confirmations = 0
  BY <1>1, FS_EmptySet DEF confirmations
<1> QED
  BY <1>2 DEF Init, Lifecycle!Init

LEMMA StepIsLifecycleStep ==
  ASSUME Consistent, [Next]_vars
  PROVE  [Lifecycle!Next]_(Lifecycle!lifecycleVars)
<1> USE DEF workerVars, relayRest, procRest
<1>0. upload \in Upload /\ \A c \in Confirms : confirm[c] \in ConfirmState
  BY DEF Consistent, TypeOK
<1>1. ASSUME NEW c \in Confirms, NEW pc \in {"ok", "lost"},
             ConfirmMatches, Commits, ConfirmGoes(c, pc)
      PROVE  [Lifecycle!Next]_(Lifecycle!lifecycleVars)
  <2>1. /\ upload.status = "pending" /\ upload'.status = "uploaded"
        /\ confirm' = [confirm EXCEPT ![c] = pc]
    BY <1>0, <1>1 DEF ConfirmMatches, Commits, ConfirmGoes, Upload
  <2>2. {d \in Confirms : Confirmed(d)} = {}
    BY <2>1 DEF Consistent, ConfirmedOnce
  <2>3. {d \in Confirms : Confirmed(d)'} = {c}
    BY <2>1, <2>2 DEF Consistent, TypeOK, Confirmed
  <2>4. confirmations = 0 /\ confirmations' = 1
    BY <2>2, <2>3, FS_EmptySet, FS_Singleton DEF confirmations
  <2>5. Lifecycle!Confirm
    BY <2>1, <2>4 DEF Lifecycle!Confirm
  <2> QED
    BY <2>5 DEF Lifecycle!Next
<1>2. ASSUME NEW c \in Confirms, NEW pc \in {"stat", "magic", "tx", "rejected"},
             confirm[c] \in {"new", "stat", "magic", "tx"},
             ConfirmGoes(c, pc), UNCHANGED upload
      PROVE  [Lifecycle!Next]_(Lifecycle!lifecycleVars)
  <2>1. \A d \in Confirms : Confirmed(d)' <=> Confirmed(d)
    BY <1>2 DEF Consistent, TypeOK, Confirmed, ConfirmGoes
  <2> QED
    BY <1>2, <2>1, OtherStepsStutter
<1>10. ASSUME NEW c \in Confirms, ConfirmCommit(c) \/ ConfirmDies(c)
       PROVE  [Lifecycle!Next]_(Lifecycle!lifecycleVars)
  BY <1>1, <1>2, <1>10 DEF ConfirmCommit, ConfirmDies
<1>11. ASSUME NEW c \in Confirms,
              ConfirmFetch(c) \/ ConfirmStat(c) \/ ConfirmMagicBytes(c)
       PROVE  [Lifecycle!Next]_(Lifecycle!lifecycleVars)
  BY <1>2, <1>11 DEF ConfirmFetch, ConfirmStat, ConfirmMagicBytes
<1>3. CASE UNCHANGED <<upload, confirm>>
  BY <1>3, OtherStepsStutter DEF Confirmed
<1>4. CASE RelayReconcile
  <2>1. upload'.status \in Settled
    BY <1>0, <1>4, FailedUpload DEF RelayReconcile, Settled
  <2> QED
    BY <1>4, <2>1, SettlingStep DEF RelayReconcile
<1>5. CASE ProcSave
  <2>1. upload'.status \in Settled
    BY <1>0, <1>5, FailedUpload DEF ProcSave, Settled
  <2> QED
    BY <1>5, <2>1, SettlingStep DEF ProcSave
<1>6. CASE ProcCallFails
  <2>1. UNCHANGED upload \/ upload'.status \in Settled
    BY <1>0, <1>6, FailedUpload DEF ProcCallFails, Settled
  <2>2. proc # "idle" /\ UNCHANGED confirm
    BY <1>6 DEF ProcCallFails
  <2> QED
    BY <1>3, <2>1, <2>2, SettlingStep
<1>7. CASE ProcCatch
  <2>1. UNCHANGED upload \/ upload'.status \in Settled
    BY <1>0, <1>7, FailedUpload DEF ProcCatch, AfterCatchJob, Settled
  <2>2. proc # "idle" /\ UNCHANGED confirm
    BY <1>7 DEF ProcCatch
  <2> QED
    BY <1>3, <2>1, <2>2, SettlingStep
<1>8. CASE \/ PutObject \/ RelaySelect \/ RelayAdd \/ RelayMark \/ RelayCatch
           \/ RelayAddFails \/ RelayMarkFails \/ RelayCatchUnrecorded
           \/ RelayReconcileFails
  BY <1>3, <1>8 DEF PutObject, RelaySelect, RelayAdd, RelayMark, RelayCatch,
     RelayAddFails, RelayMarkFails, RelayCatchUnrecorded, RelayReconcileFails
<1>9. CASE \/ QueueStep \/ ProcFetch \/ ProcStat \/ ProcEncode \/ ProcThrow
           \/ ProcFinish \/ ProcCatchUnrecorded \/ WorkerDies \/ UNCHANGED vars
  BY <1>3, <1>9 DEF QueueStep, PickUp, StallCheck, ProcFetch, ProcStat, ProcEncode,
     ProcThrow, ProcFinish, ProcCatchUnrecorded, WorkerDies, vars
<1> QED
  BY <1>4, <1>5, <1>6, <1>7, <1>8, <1>9, <1>10, <1>11
     DEF Next, ApiStep, RelayStep, ProcStep, FaultStep

(***************************************************************************)
(* Every run of the pipeline is a run of UploadLifecycle: the upload is    *)
(* confirmed once, and once settled it never becomes unsettled again,      *)
(* whatever is retried, replayed or lost.                                  *)
(***************************************************************************)
THEOREM LifecycleSafe == SafeSpec => LifecycleSafety
<1>1. Init => Lifecycle!Init
  BY InitIsLifecycleInit
<1>2. Consistent /\ [Next]_vars => [Lifecycle!Next]_(Lifecycle!lifecycleVars)
  BY StepIsLifecycleStep
<1> QED
  BY <1>1, <1>2, ConsistentAlways, PTL DEF SafeSpec, LifecycleSafety, Lifecycle!SafeSpec
==============================================================================
