----------------------------- MODULE AiRun_proofs -----------------------------
(***************************************************************************)
(* For every number of slots, every bound and every combination of faults: *)
(* the inductive invariant Consistent, that no two slots ever work on the  *)
(* run, and that every step is a step of RunLifecycle or changes nothing   *)
(* it can see.                                                             *)
(***************************************************************************)
EXTENDS AiRun, FiniteSetTheorems, TLAPS

WorkPcs == {"provider", "validate", "save", "catch"}

LEMMA InitConsistent == Init => Consistent
<1> SUFFICES ASSUME Init PROVE Consistent
  OBVIOUS
<1> USE ConstantsAssumption
<1>1. TypeOK
  BY DEF Init, TypeOK, Run, Active, Ended, Kinds, Event, RelayState, Job, Proc, IdleProc, Faults
<1>2. Undecided = {}
  BY DEF Init, Undecided, IdleProc
<1>3. Cardinality(Undecided) = 0
  BY <1>2, FS_EmptySet
<1>4. RelayInv /\ JobInv /\ WorkInv /\ ClaimInv /\ OneWorker /\ ErrorExplainsStatus
  BY <1>3 DEF Init, RelayInv, JobInv, WorkInv, ClaimInv, OneWorker, Working,
              ErrorExplainsStatus, IdleProc
<1> QED
  BY <1>1, <1>4 DEF Consistent

-----------------------------------------------------------------------------
\* What the invariant says of the types of things.
LEMMA Types ==
  ASSUME Consistent
  PROVE  /\ run \in Run /\ claims \in Nat /\ event \in Event /\ relay \in RelayState
         /\ job \in Job /\ proc \in [Slots -> Proc] /\ faults \in Faults
         /\ UNCHANGED faults => faults' \in Faults
         /\ \A kind \in AllFaults : Fault(kind) => faults' \in Faults
<1>1. TypeOK
  BY DEF Consistent
<1>2. ASSUME NEW kind \in AllFaults, Fault(kind) PROVE faults' \in Faults
  <2>1. faults.count \in 0..MaxFaults /\ faults.kinds \in SUBSET FaultKinds
    BY <1>1 DEF TypeOK, Faults
  <2>2. faults.count + 1 \in 0..MaxFaults /\ faults.kinds \cup {kind} \in SUBSET FaultKinds
    BY <2>1, <1>2, ConstantsAssumption DEF Fault
  <2> QED
    BY <2>2, <1>2 DEF Fault, Faults
<1> QED
  BY <1>1, <1>2 DEF TypeOK

\* Undecided is finite, so that it can be counted.
LEMMA UndecidedFinite ==
  IsFiniteSet(Undecided) /\ Cardinality(Undecided) \in Nat
<1>1. Undecided \subseteq Slots
  BY DEF Undecided
<1>2. IsFiniteSet(Undecided)
  BY <1>1, ConstantsAssumption, FS_Subset
<1> QED
  BY <1>2, FS_CardinalityType

LEMMA UndecidedFinitePrime ==
  IsFiniteSet(Undecided') /\ Cardinality(Undecided') \in Nat
<1>1. Undecided' \subseteq Slots
  BY DEF Undecided
<1>2. IsFiniteSet(Undecided')
  BY <1>1, ConstantsAssumption, FS_Subset
<1> QED
  BY <1>2, FS_CardinalityType

\* A slot that decides leaves Undecided, any other step of a slot that was
\* picked up before leaves it alone.
LEMMA UndecidedAfterStep ==
  ASSUME proc \in [Slots -> Proc], NEW s \in Slots, NEW p \in Proc, p.pc # "claim",
         proc' = [proc EXCEPT ![s] = p]
  PROVE  Cardinality(Undecided') =
           Cardinality(Undecided) - (IF proc[s].pc = "claim" THEN 1 ELSE 0)
<1>1. CASE proc[s].pc = "claim"
  <2>1. s \in Undecided /\ Undecided' = Undecided \ {s}
    BY <1>1 DEF Undecided
  <2> QED
    BY <1>1, <2>1, UndecidedFinite, FS_RemoveElement
<1>2. CASE proc[s].pc # "claim"
  <2>1. Undecided' = Undecided
    BY <1>2 DEF Undecided
  <2> QED
    BY <1>2, <2>1, UndecidedFinite
<1> QED
  BY <1>1, <1>2

-----------------------------------------------------------------------------
(***************************************************************************)
(* Who works on the run.  A slot may write the run when it works on it or  *)
(* when the run is queued: in both cases no other slot works on it.        *)
(***************************************************************************)
LEMMA WriterStep ==
  ASSUME Consistent, NEW s \in Slots, NEW p \in Proc,
         proc' = [proc EXCEPT ![s] = p],
         proc[s].pc \in WorkPcs \/ run.status = "queued",
         run'.status # "none",
         p.pc \in {"provider", "validate", "save"} => run'.status \in Active,
         p.pc = "catch" =>
           run'.status \in Active \/ (run'.status = "completed" /\ p.kind = "other"),
         run'.status = "queued" => p.pc \notin WorkPcs
  PROVE  WorkInv' /\ OneWorker'
<1>1. proc \in [Slots -> Proc]
  BY Types
<1>2. \A t \in Slots \ {s} : proc[t].pc \notin WorkPcs
  BY DEF Consistent, OneWorker, Working, WorkPcs
<1>3. /\ \A t \in Slots \ {s} : proc'[t] = proc[t]
      /\ proc'[s] = p
  BY <1>1
<1>4. WorkInv'
  BY <1>2, <1>3 DEF WorkInv, WorkPcs
<1>5. OneWorker'
  BY <1>2, <1>3 DEF OneWorker, Working, WorkPcs
<1> QED
  BY <1>4, <1>5

\* A slot that does not work after its step, and leaves the run alone.
LEMMA ReaderStep ==
  ASSUME Consistent, NEW s \in Slots, NEW p \in Proc,
         proc' = [proc EXCEPT ![s] = p], UNCHANGED run,
         p.pc \notin WorkPcs, p.pc = "idle" \/ run.status # "none"
  PROVE  WorkInv' /\ OneWorker'
<1>1. proc \in [Slots -> Proc]
  BY Types
<1>2. /\ \A t \in Slots \ {s} : proc'[t] = proc[t]
      /\ proc'[s] = p
  BY <1>1
<1>3. WorkInv'
  BY <1>2 DEF Consistent, WorkInv, WorkPcs
<1>4. OneWorker'
  BY <1>2 DEF Consistent, OneWorker, Working, WorkPcs
<1> QED
  BY <1>3, <1>4

\* What a step of a slot keeps when it leaves job, event and relay alone.
LEMMA SlotStep ==
  ASSUME Consistent, NEW s \in Slots, NEW p \in Proc,
         proc' = [proc EXCEPT ![s] = p], UNCHANGED <<event, relay, job>>,
         proc[s].pc # "idle", p.pc \notin {"idle", "claim"},
         run' \in Run, run'.status # "none", faults' \in Faults,
         \/ claims' = claims
         \/ proc[s].pc = "claim" /\ claims' = claims + 1,
         WorkInv', OneWorker', ErrorExplainsStatus'
  PROVE  Consistent'
<1>1. TypeOK'
  BY Types DEF TypeOK
<1>2. run.status # "none"
  BY DEF Consistent, WorkInv
<1>3. RelayInv'
  BY <1>2 DEF Consistent, RelayInv
<1>4. JobInv'
  BY Types DEF Consistent, JobInv
<1>5. ClaimInv'
  <2> DEFINE n == Cardinality(Undecided)
             m == Cardinality(Undecided')
             r == job.attemptsMade + job.stalls
                    + (IF job.state \in {"active", "completed"} THEN 1 ELSE 0)
  <2>1. m = n - (IF proc[s].pc = "claim" THEN 1 ELSE 0)
    BY Types, UndecidedAfterStep
  <2>2. n \in Nat /\ m \in Nat /\ claims \in Nat /\ r \in Nat
    BY Types, UndecidedFinite, UndecidedFinitePrime DEF Job
  <2>3. claims + n <= r
    BY DEF Consistent, ClaimInv
  <2>4. ClaimInv' <=> claims' + m <= r
    BY DEF ClaimInv
  <2> HIDE DEF n, m, r
  <2>5. claims' + m <= r
    BY <2>1, <2>2, <2>3
  <2> QED
    BY <2>4, <2>5
<1> QED
  BY <1>1, <1>3, <1>4, <1>5 DEF Consistent

-----------------------------------------------------------------------------
\* A claim that takes effect.
LEMMA ClaimedRun ==
  ASSUME Consistent, Claimed
  PROVE  /\ run' \in Run /\ run'.status = "running" /\ run'.error = "none"
         /\ run'.result = run.result
         /\ claims' = claims + 1
BY Types DEF Claimed, Run, Active

LEMMA SavedRun ==
  ASSUME Consistent
  PROVE  /\ Saved \in Run /\ Saved.status = "completed" /\ Saved.result
         /\ Saved.error = run.error
BY Types DEF Saved, Run, Ended

\* The row after the catch block.
LEMMA CaughtRun ==
  ASSUME Consistent, NEW s \in Slots
  PROVE  /\ AfterCatch(s) \in Run
         /\ AfterCatch(s).result = run.result
         /\ ShouldRetry(s) => /\ AfterCatch(s).status = "queued"
                              /\ AfterCatch(s).error = "none"
         /\ ~ShouldRetry(s) =>
              /\ AfterCatch(s).status \in {"failed", "timed_out"}
              /\ AfterCatch(s).error \in Kinds
              /\ AfterCatch(s).error = "timeout" <=> AfterCatch(s).status = "timed_out"
<1>1. proc[s].kind \in Kinds /\ run \in Run
  BY Types DEF Proc
<1>2. CASE ShouldRetry(s)
  BY <1>1, <1>2 DEF AfterCatch, Run
<1>3. CASE ~ShouldRetry(s)
  BY <1>1, <1>3 DEF AfterCatch, Run, Ended, Kinds
<1> QED
  BY <1>2, <1>3

\* The new state of a slot that goes on, or catches an error.
LEMMA SlotGoes ==
  ASSUME Consistent, NEW s \in Slots,
         NEW pc \in {"provider", "validate", "save", "catch", "rethrow", "giveup", "finish"},
         Goes(s, pc)
  PROVE  \E p \in Proc : p.pc = pc /\ p.kind = proc[s].kind /\ proc' = [proc EXCEPT ![s] = p]
<1> DEFINE p == [proc[s] EXCEPT !.pc = pc]
<1>1. p \in Proc /\ p.pc = pc /\ p.kind = proc[s].kind
  BY Types DEF Proc
<1>2. proc' = [proc EXCEPT ![s] = p]
  BY Types DEF Goes
<1> QED
  BY <1>1, <1>2

LEMMA SlotCatches ==
  ASSUME Consistent, NEW s \in Slots, NEW kind \in Kinds, Catches(s, kind)
  PROVE  \E p \in Proc : p.pc = "catch" /\ p.kind = kind /\ proc' = [proc EXCEPT ![s] = p]
<1> DEFINE p == [proc[s] EXCEPT !.pc = "catch", !.kind = kind]
<1>1. p \in Proc /\ p.pc = "catch" /\ p.kind = kind
  BY Types DEF Proc
<1>2. proc' = [proc EXCEPT ![s] = p]
  BY Types DEF Catches
<1> QED
  BY <1>1, <1>2

-----------------------------------------------------------------------------
LEMMA ClaimKeepsConsistent ==
  ASSUME Consistent, NEW s \in Slots, Claim(s) \/ ClaimFails(s)
  PROVE  Consistent'
<1> USE DEF procRest
<1>1. /\ proc[s].pc = "claim" /\ run.status # "none"
      /\ UNCHANGED <<event, relay, job>> /\ faults' \in Faults
  BY Types DEF Claim, ClaimFails, Consistent, WorkInv, AllFaults
<1>2. PICK pc \in {"provider", "rethrow", "finish"} :
        /\ Goes(s, pc)
        /\ \/ UNCHANGED <<run, claims>> /\ pc # "provider"
           \/ run.status = "queued" /\ Claimed
  BY DEF Claim, ClaimFails, Claimable
<1>3. PICK p \in Proc : p.pc = pc /\ proc' = [proc EXCEPT ![s] = p]
  BY <1>2, SlotGoes
<1>4. CASE UNCHANGED <<run, claims>> /\ pc # "provider"
  <2>1. WorkInv' /\ OneWorker'
    BY <1>1, <1>2, <1>3, <1>4, ReaderStep DEF WorkPcs
  <2>2. ErrorExplainsStatus'
    BY <1>4 DEF Consistent, ErrorExplainsStatus
  <2> QED
    BY <1>1, <1>2, <1>3, <1>4, <2>1, <2>2, SlotStep, Types
<1>5. CASE run.status = "queued" /\ Claimed
  <2>1. /\ run' \in Run /\ run'.status = "running" /\ run'.error = "none"
        /\ claims' = claims + 1
    BY <1>5, ClaimedRun
  <2>2. WorkInv' /\ OneWorker'
    BY <1>2, <1>3, <1>5, <2>1, WriterStep DEF WorkPcs, Active
  <2>3. ErrorExplainsStatus'
    BY <2>1 DEF ErrorExplainsStatus
  <2> QED
    BY <1>1, <1>2, <1>3, <2>1, <2>2, <2>3, SlotStep
<1> QED
  BY <1>2, <1>4, <1>5

\* A step between the claim and the last write that leaves the status active.
LEMMA GoesOnWorking ==
  ASSUME Consistent, NEW s \in Slots, proc[s].pc \in {"provider", "validate", "save"},
         NEW p \in Proc, p.pc \in {"validate", "save", "catch"},
         proc' = [proc EXCEPT ![s] = p],
         UNCHANGED run \/ run' = [run EXCEPT !.status = "validating"],
         UNCHANGED <<event, relay, claims, job>>, faults' \in Faults
  PROVE  Consistent'
<1>1. run.status \in Active /\ run \in Run
  BY Types DEF Consistent, WorkInv
<1>2. /\ run' \in Run /\ run'.status \in Active
      /\ run'.error = run.error
  BY <1>1 DEF Run, Active
<1>3. WorkInv' /\ OneWorker'
  BY <1>2, WriterStep DEF WorkPcs, Active
<1>4. ErrorExplainsStatus'
  BY <1>1, <1>2 DEF Consistent, ErrorExplainsStatus, Active
<1> QED
  BY <1>2, <1>3, <1>4, SlotStep DEF Active

LEMMA WorkKeepsConsistent ==
  ASSUME Consistent, NEW s \in Slots,
         \/ Provider(s) \/ ProviderFails(s) \/ Validate(s) \/ Save(s) \/ QueryFails(s)
         \/ Catch(s) \/ CatchUnrecorded(s)
  PROVE  Consistent'
<1> USE DEF procRest
<1>0. /\ UNCHANGED <<event, relay, claims, job>> /\ faults' \in Faults
      /\ proc[s].pc \in WorkPcs /\ "other" \in Kinds /\ run.status # "none"
  BY Types DEF Provider, ProviderFails, Validate, Save, QueryFails, Catch,
     CatchUnrecorded, AllFaults, WorkPcs, Kinds, Consistent, WorkInv
<1>1. CASE Provider(s)
  <2>1. PICK p \in Proc : p.pc = "validate" /\ proc' = [proc EXCEPT ![s] = p]
    BY <1>1, SlotGoes DEF Provider
  <2> QED
    BY <1>0, <1>1, <2>1, GoesOnWorking DEF Provider
<1>2. CASE ProviderFails(s)
  <2>1. PICK p \in Proc : p.pc = "catch" /\ proc' = [proc EXCEPT ![s] = p]
    BY <1>2, SlotCatches DEF ProviderFails
  <2> QED
    BY <1>0, <1>2, <2>1, GoesOnWorking DEF ProviderFails
<1>3. CASE Validate(s)
  <2>1. PICK p \in Proc : p.pc \in {"save", "catch"} /\ proc' = [proc EXCEPT ![s] = p]
    BY <1>0, <1>3, SlotGoes, SlotCatches DEF Validate
  <2> QED
    BY <1>0, <1>3, <2>1, GoesOnWorking DEF Validate
<1>4. ASSUME NEW p \in Proc, proc' = [proc EXCEPT ![s] = p], run' = Saved,
             proc[s].pc = "save",
             p.pc = "finish" \/ (p.pc = "catch" /\ p.kind = "other")
      PROVE  Consistent'
  <2>1. run.status \in Active /\ run.error = "none"
    BY <1>4 DEF Consistent, WorkInv, ErrorExplainsStatus, Active
  <2>2. /\ run' \in Run /\ run'.status = "completed" /\ run'.result
        /\ run'.error = "none"
    BY <1>4, <2>1, SavedRun
  <2>3. WorkInv' /\ OneWorker'
    BY <1>0, <1>4, <2>2, WriterStep
  <2>4. ErrorExplainsStatus'
    BY <2>2 DEF ErrorExplainsStatus
  <2> QED
    BY <1>0, <1>4, <2>2, <2>3, <2>4, SlotStep
<1>5. CASE Save(s)
  <2>1. PICK p \in Proc : p.pc = "finish" /\ proc' = [proc EXCEPT ![s] = p]
    BY <1>5, SlotGoes DEF Save
  <2> QED
    BY <1>4, <1>5, <2>1 DEF Save
<1>6. CASE QueryFails(s)
  <2>1. PICK p \in Proc :
          p.pc = "catch" /\ p.kind = "other" /\ proc' = [proc EXCEPT ![s] = p]
    BY <1>0, <1>6, SlotCatches DEF QueryFails
  <2>2. CASE UNCHANGED run
    BY <1>0, <1>6, <2>1, <2>2, GoesOnWorking DEF QueryFails
  <2>3. CASE proc[s].pc = "save" /\ run' = Saved
    BY <1>4, <2>1, <2>3
  <2> QED
    BY <1>6, <2>2, <2>3 DEF QueryFails
<1>7. CASE Catch(s)
  <2>1. PICK p \in Proc : p.pc \in {"rethrow", "giveup"} /\ proc' = [proc EXCEPT ![s] = p]
    BY <1>7, SlotGoes DEF Catch, ThrowsOn
  <2>2. /\ run' \in Run /\ run' = AfterCatch(s)
        /\ run'.status \in {"queued", "failed", "timed_out"}
    BY <1>7, CaughtRun DEF Catch
  <2>3. WorkInv' /\ OneWorker'
    BY <1>0, <2>1, <2>2, WriterStep DEF WorkPcs
  <2>4. ErrorExplainsStatus'
    BY <2>2, CaughtRun DEF ErrorExplainsStatus, Kinds
  <2> QED
    BY <1>0, <2>1, <2>2, <2>3, <2>4, SlotStep DEF WorkPcs
<1>8. CASE CatchUnrecorded(s)
  <2>1. PICK p \in Proc : p.pc \in {"rethrow", "giveup"} /\ proc' = [proc EXCEPT ![s] = p]
    BY <1>8, SlotGoes DEF CatchUnrecorded, ThrowsOn
  <2>2. run' = run
    BY <1>8 DEF CatchUnrecorded
  <2>3. WorkInv' /\ OneWorker'
    BY <1>0, <2>1, <2>2, ReaderStep DEF WorkPcs
  <2>4. ErrorExplainsStatus'
    BY <2>2 DEF Consistent, ErrorExplainsStatus
  <2> QED
    BY <1>0, <2>1, <2>2, <2>3, <2>4, SlotStep, Types DEF WorkPcs
<1> QED
  BY <1>1, <1>2, <1>3, <1>5, <1>6, <1>7, <1>8

-----------------------------------------------------------------------------
\* The deliveries of a job that ClaimInv counts.
Deliveries(j) ==
  j.attemptsMade + j.stalls + (IF j.state \in {"active", "completed"} THEN 1 ELSE 0)

\* A step of the queue: the job changes, the run does not.
LEMMA JobStep ==
  ASSUME Consistent, UNCHANGED <<run, claims, event, relay>>,
         job' \in Job, proc' \in [Slots -> Proc], faults' \in Faults,
         job.state # "missing", job'.state # "missing",
         job'.holder # NoSlot =>
           job'.state = "active" /\ proc'[job'.holder].pc # "idle",
         job'.state \in {"waiting", "active", "completed"} =>
           job'.attemptsMade < JobAttempts /\ job'.stalls <= MaxStalls,
         job'.attemptsMade + job'.stalls <= JobAttempts + MaxStalls,
         Cardinality(Undecided') - Cardinality(Undecided) <= Deliveries(job') - Deliveries(job),
         WorkInv', OneWorker'
  PROVE  Consistent'
<1>1. TypeOK'
  BY Types DEF TypeOK
<1>2. RelayInv' /\ JobInv' /\ ErrorExplainsStatus'
  BY DEF Consistent, RelayInv, JobInv, ErrorExplainsStatus
<1>3. ClaimInv'
  <2> DEFINE n == Cardinality(Undecided)
             m == Cardinality(Undecided')
             d == Deliveries(job)
             e == Deliveries(job')
  <2>1. n \in Nat /\ m \in Nat /\ claims \in Nat /\ d \in Nat /\ e \in Nat
    BY Types, UndecidedFinite, UndecidedFinitePrime DEF Job, Deliveries
  <2>2. claims + n <= d
    BY DEF Consistent, ClaimInv, Deliveries
  <2>3. ClaimInv' <=> claims' + m <= e
    BY DEF ClaimInv, Deliveries
  <2>4. m - n <= e - d
    OBVIOUS
  <2> HIDE DEF n, m, d, e
  <2>5. claims' + m <= e
    BY <2>1, <2>2, <2>4
  <2> QED
    BY <2>3, <2>5
<1> QED
  BY <1>1, <1>2, <1>3 DEF Consistent

LEMMA PickUpKeepsConsistent ==
  ASSUME Consistent, NEW s \in Slots, PickUp(s)
  PROVE  Consistent'
<1> USE DEF procRest
<1>1. /\ job.state = "waiting" /\ proc[s].pc = "idle"
      /\ job' = [job EXCEPT !.state = "active", !.holder = s]
      /\ UNCHANGED <<run, claims, event, relay, faults>>
  BY DEF PickUp
<1>2. PICK p \in Proc : p.pc = "claim" /\ proc' = [proc EXCEPT ![s] = p]
  <2>1. [IdleProc EXCEPT !.pc = "claim", !.made = job.attemptsMade] \in Proc
    BY Types DEF IdleProc, Proc, Kinds, Job
  <2>2. [IdleProc EXCEPT !.pc = "claim", !.made = job.attemptsMade].pc = "claim"
    BY DEF IdleProc
  <2> QED
    BY <2>1, <2>2 DEF PickUp
<1>3. /\ job' \in Job /\ job'.state = "active" /\ job'.holder = s
      /\ job'.attemptsMade = job.attemptsMade /\ job'.stalls = job.stalls
  BY <1>1, Types DEF Job
<1>4. proc' \in [Slots -> Proc] /\ proc'[s].pc = "claim"
  BY <1>2, Types
<1>5. run.status # "none"
  BY <1>1 DEF Consistent, RelayInv
<1>6. WorkInv' /\ OneWorker'
  BY <1>1, <1>2, <1>5, ReaderStep DEF WorkPcs
<1>7. Cardinality(Undecided') = Cardinality(Undecided) + 1
  <2>1. Undecided' = Undecided \cup {s} /\ s \notin Undecided
    BY <1>1, <1>2, Types DEF Undecided
  <2> QED
    BY <2>1, UndecidedFinite, FS_AddElement
<1>8. Deliveries(job') = Deliveries(job) + 1
  <2>1. job.attemptsMade \in Nat /\ job.stalls \in Nat
    BY Types DEF Job
  <2> QED
    BY <1>1, <1>3, <2>1 DEF Deliveries
<1>9. Deliveries(job) \in Nat
  BY Types DEF Deliveries, Job
<1>10. Cardinality(Undecided') - Cardinality(Undecided) <= Deliveries(job') - Deliveries(job)
  BY <1>7, <1>8, <1>9, UndecidedFinite
<1>11. /\ job.attemptsMade < JobAttempts /\ job.stalls <= MaxStalls
       /\ job.attemptsMade + job.stalls <= JobAttempts + MaxStalls
  BY <1>1 DEF Consistent, JobInv
<1> QED
  BY <1>1, <1>3, <1>4, <1>6, <1>10, <1>11, JobStep, Types

\* An outcome of a slot, accepted or not.
LEMMA ReportKeepsConsistent ==
  ASSUME Consistent, NEW s \in Slots, proc[s].pc \notin {"idle", "claim"},
         NEW outcome \in Job, Reports(s, outcome), outcome.holder = NoSlot,
         job.state = "active" =>
           /\ outcome.state \in {"waiting", "completed", "failed"}
           /\ outcome.state # "failed" => outcome.attemptsMade < JobAttempts
           /\ outcome.stalls = job.stalls
           /\ outcome.attemptsMade = job.attemptsMade +
                (IF outcome.state = "completed" THEN 0 ELSE 1)
  PROVE  Consistent'
<1> USE DEF procRest
<1>1. /\ proc' = [proc EXCEPT ![s] = IdleProc]
      /\ job' = IF job.holder = s THEN outcome ELSE job
      /\ UNCHANGED <<run, claims, event, relay, faults>>
  BY DEF Reports
<1>2. IdleProc \in Proc /\ IdleProc.pc = "idle"
  BY ConstantsAssumption DEF IdleProc, Proc, Kinds
<1>3. WorkInv' /\ OneWorker'
  BY <1>1, <1>2, ReaderStep DEF WorkPcs
<1>4. Cardinality(Undecided') = Cardinality(Undecided)
  <2>1. Cardinality(Undecided') =
          Cardinality(Undecided) - (IF proc[s].pc = "claim" THEN 1 ELSE 0)
    BY <1>1, <1>2, Types, UndecidedAfterStep
  <2>2. Cardinality(Undecided') = Cardinality(Undecided) - 0
    BY <2>1
  <2> QED
    BY <2>2, UndecidedFinite
<1>5. proc' \in [Slots -> Proc] /\ \A t \in Slots \ {s} : proc'[t] = proc[t]
  BY <1>1, <1>2, Types
<1>7. CASE job.holder # s
  <2>1. job' = job
    BY <1>1, <1>7
  <2>2. TypeOK' /\ RelayInv' /\ ErrorExplainsStatus'
    BY <1>1, <1>5, <2>1, Types DEF Consistent, TypeOK, RelayInv, ErrorExplainsStatus
  <2>3. JobInv'
    BY <1>5, <1>7, <2>1, Types DEF Consistent, JobInv, Job
  <2>4. ClaimInv'
    BY <1>1, <1>4, <2>1 DEF Consistent, ClaimInv
  <2> QED
    BY <1>3, <2>2, <2>3, <2>4 DEF Consistent
<1>8. CASE job.holder = s
  <2>1. job.state = "active" /\ job' = outcome
    BY <1>1, <1>8, ConstantsAssumption DEF Consistent, JobInv
  <2>2. /\ job.attemptsMade < JobAttempts /\ job.stalls <= MaxStalls
        /\ job.attemptsMade \in Nat /\ job.stalls \in Nat
        /\ JobAttempts \in Nat /\ MaxStalls \in Nat
    BY <2>1, Types, ConstantsAssumption DEF Consistent, JobInv, Job
  <2>3. /\ job'.state \in {"waiting", "completed", "failed"} /\ job'.holder = NoSlot
        /\ job'.state # "failed" => job'.attemptsMade < JobAttempts
        /\ job'.stalls = job.stalls
        /\ job'.attemptsMade = job.attemptsMade +
             (IF job'.state = "completed" THEN 0 ELSE 1)
    BY <2>1
  <2>4. job'.attemptsMade + job'.stalls <= JobAttempts + MaxStalls
    BY <2>2, <2>3
  <2>5. Deliveries(job') = Deliveries(job)
    BY <2>1, <2>2, <2>3 DEF Deliveries
  <2>6. Deliveries(job) \in Nat
    BY Types DEF Deliveries, Job
  <2>7. Cardinality(Undecided') - Cardinality(Undecided) <= Deliveries(job') - Deliveries(job)
    BY <1>4, <2>5, <2>6, UndecidedFinite
  <2>8. job' \in Job /\ job'.state # "missing" /\ job'.stalls <= MaxStalls
    BY <2>1, <2>2, <2>3
  <2> QED
    BY <1>1, <1>3, <1>5, <2>1, <2>3, <2>4, <2>7, <2>8, JobStep, Types
<1> QED
  BY <1>7, <1>8

LEMMA OutcomesKeepConsistent ==
  ASSUME Consistent, NEW s \in Slots, Rethrow(s) \/ GiveUp(s) \/ Finish(s)
  PROVE  Consistent'
<1>1. CASE Finish(s)
  <2> DEFINE outcome == [job EXCEPT !.state = "completed", !.holder = NoSlot]
  <2>1. /\ outcome \in Job /\ outcome.state = "completed" /\ outcome.holder = NoSlot
        /\ outcome.stalls = job.stalls /\ outcome.attemptsMade = job.attemptsMade
    BY Types DEF Job
  <2>4. job.attemptsMade = job.attemptsMade + 0
    BY Types DEF Job
  <2>2. job.state = "active" => job.attemptsMade < JobAttempts
    BY DEF Consistent, JobInv
  <2>3. proc[s].pc = "finish" /\ Reports(s, outcome)
    BY <1>1 DEF Finish
  <2> HIDE DEF outcome
  <2> QED
    BY <2>1, <2>2, <2>3, <2>4, ReportKeepsConsistent
<1>2. ASSUME NEW state \in {"waiting", "failed"}, Reports(s, Failed(state)),
             proc[s].pc \in {"rethrow", "giveup"},
             state = "waiting" => job.attemptsMade + 1 < JobAttempts
      PROVE  Consistent'
  <2> DEFINE n == job.attemptsMade + 1
             outcome == [job EXCEPT !.state = state, !.holder = NoSlot, !.attemptsMade = n]
  <2>1. CASE job.state # "active"
    <3>1. job.holder # s
      BY <2>1, ConstantsAssumption DEF Consistent, JobInv
    <3>2. Reports(s, [job EXCEPT !.holder = NoSlot])
      BY <1>2, <3>1 DEF Reports
    <3>3. [job EXCEPT !.holder = NoSlot] \in Job /\ [job EXCEPT !.holder = NoSlot].holder = NoSlot
      BY Types DEF Job
    <3> QED
      BY <1>2, <2>1, <3>2, <3>3, ReportKeepsConsistent
  <2>2. CASE job.state = "active"
    <3>1. n \in 0..JobAttempts /\ job.attemptsMade \in Nat
      BY <2>2, Types, ConstantsAssumption DEF Consistent, JobInv, Job
    <3>2. Reports(s, outcome) /\ (state = "waiting" => n < JobAttempts)
      BY <1>2 DEF Failed
    <3>3. n = job.attemptsMade + 1
      OBVIOUS
    <3> HIDE DEF n
    <3>4. /\ outcome \in Job /\ outcome.state = state /\ outcome.holder = NoSlot
          /\ outcome.stalls = job.stalls /\ outcome.attemptsMade = n
      BY <3>1, Types DEF Job
    <3> HIDE DEF outcome
    <3> QED
      BY <1>2, <3>1, <3>2, <3>3, <3>4, ReportKeepsConsistent
  <2> QED
    BY <2>1, <2>2
<1>3. CASE Rethrow(s)
  BY <1>2, <1>3 DEF Rethrow
<1>4. CASE GiveUp(s)
  BY <1>2, <1>4 DEF GiveUp
<1> QED
  BY <1>1, <1>3, <1>4

LEMMA StallKeepsConsistent ==
  ASSUME Consistent, StallCheck
  PROVE  Consistent'
<1> USE DEF procRest
<1> DEFINE n == job.stalls + 1
           state == IF job.stalls < MaxStalls THEN "waiting" ELSE "failed"
<1>1. /\ job.state = "active" /\ job.holder = NoSlot
      /\ job' = [job EXCEPT !.stalls = n, !.state = state]
      /\ UNCHANGED <<run, claims, event, relay, proc, faults>>
  BY DEF StallCheck
<1>2. /\ job.stalls \in Nat /\ job.attemptsMade \in Nat
      /\ job.stalls <= MaxStalls /\ job.attemptsMade < JobAttempts
      /\ MaxStalls \in Nat /\ JobAttempts \in Nat
  BY <1>1, Types, ConstantsAssumption DEF Consistent, JobInv, Job
<1>3. /\ n \in 0..(MaxStalls + 1) /\ n = job.stalls + 1
      /\ state \in {"waiting", "failed"} /\ (state = "waiting" => n <= MaxStalls)
  BY <1>2
<1> HIDE DEF n, state
<1>4. /\ job' \in Job /\ job'.state = state /\ job'.stalls = n /\ job'.holder = NoSlot
      /\ job'.attemptsMade = job.attemptsMade
  BY <1>1, <1>3, Types DEF Job
<1>5. job'.attemptsMade + job'.stalls <= JobAttempts + MaxStalls
  BY <1>2, <1>3, <1>4
<1>6. Deliveries(job') = Deliveries(job)
  BY <1>1, <1>2, <1>3, <1>4 DEF Deliveries
<1>7. Undecided' = Undecided /\ WorkInv' /\ OneWorker'
  BY <1>1 DEF Consistent, Undecided, WorkInv, OneWorker, Working
<1>8. Deliveries(job) \in Nat
  BY <1>2 DEF Deliveries
<1>9. Cardinality(Undecided') - Cardinality(Undecided) <= Deliveries(job') - Deliveries(job)
  BY <1>6, <1>7, <1>8, UndecidedFinite
<1> QED
  BY <1>1, <1>2, <1>3, <1>4, <1>5, <1>7, <1>9, JobStep, Types

\* A lock that expires or a worker that dies: the job has no holder any more,
\* and each slot goes on or is idle.
LEMMA LossKeepsConsistent ==
  ASSUME Consistent, WorkerDies \/ LoseLock
  PROVE  Consistent'
<1>1. /\ job' = [job EXCEPT !.holder = NoSlot] /\ faults' \in Faults
      /\ UNCHANGED <<run, claims, event>>
      /\ relay' = relay \/ relay' = "idle"
      /\ proc' = proc \/ proc' = [s \in Slots |-> IdleProc]
  BY Types DEF WorkerDies, LoseLock, AllFaults
<1>2. IdleProc \in Proc /\ IdleProc.pc = "idle"
  BY ConstantsAssumption DEF IdleProc, Proc, Kinds
<1>3. /\ job' \in Job /\ job'.state = job.state /\ job'.holder = NoSlot
      /\ job'.attemptsMade = job.attemptsMade /\ job'.stalls = job.stalls
  BY <1>1, Types DEF Job
<1>4. /\ proc' \in [Slots -> Proc]
      /\ \A s \in Slots : proc'[s] = proc[s] \/ proc'[s].pc = "idle"
  BY <1>1, <1>2, Types
<1>5. TypeOK'
  BY <1>1, <1>3, <1>4, Types DEF TypeOK, RelayState
<1>6. RelayInv' /\ JobInv' /\ ErrorExplainsStatus'
  BY <1>1, <1>3 DEF Consistent, RelayInv, JobInv, ErrorExplainsStatus
<1>7. WorkInv' /\ OneWorker'
  BY <1>1, <1>4 DEF Consistent, WorkInv, OneWorker, Working
<1>8. ClaimInv'
  <2>1. Undecided' \subseteq Undecided
    BY <1>4 DEF Undecided
  <2>2. Cardinality(Undecided') <= Cardinality(Undecided)
    BY <2>1, UndecidedFinite, FS_Subset
  <2> DEFINE m == Cardinality(Undecided)
             k == Cardinality(Undecided')
             d == Deliveries(job)
  <2>3. m \in Nat /\ k \in Nat /\ k <= m /\ claims \in Nat /\ d \in Nat
    BY <2>2, UndecidedFinite, UndecidedFinitePrime, Types DEF Deliveries, Job
  <2>4. claims + m <= d /\ (ClaimInv' <=> claims' + k <= d)
    BY <1>3 DEF Consistent, ClaimInv, Deliveries
  <2> HIDE DEF m, k, d
  <2> QED
    BY <1>1, <2>3, <2>4
<1> QED
  BY <1>5, <1>6, <1>7, <1>8 DEF Consistent

-----------------------------------------------------------------------------
LEMMA AddedJob ==
  ASSUME Consistent
  PROVE  /\ Added \in Job /\ Added.holder = job.holder /\ Added.state # "missing"
         /\ Added.attemptsMade = job.attemptsMade /\ Added.stalls = job.stalls
         /\ Added = job \/ (job.state = "missing" /\ Added.state = "waiting")
BY Types DEF Added, Job

LEMMA RelayKeepsConsistent ==
  ASSUME Consistent,
         CreateRun \/ RelayStep \/ RelayAddFails \/ RelayMarkFails \/ RelayCatchUnrecorded
  PROVE  Consistent'
<1> USE DEF relayRest
<1>0. /\ UNCHANGED <<claims, proc>> /\ faults' \in Faults
      /\ relay \in RelayState /\ relay' \in RelayState
  BY Types DEF CreateRun, RelayStep, RelaySelect, RelayAdd, RelayMark, RelayCatch,
     RelayAddFails, RelayMarkFails, RelayCatchUnrecorded, AllFaults, RelayState
\* Steps that leave the run alone.
<1>1. ASSUME UNCHANGED run, event' \in Event, job' = job \/ job' = Added, RelayInv',
             run.status # "none"
      PROVE  Consistent'
  <2>1. /\ job' \in Job /\ job'.holder = job.holder
        /\ job'.attemptsMade = job.attemptsMade /\ job'.stalls = job.stalls
        /\ job' = job \/ (job.state = "missing" /\ job'.state = "waiting")
    BY <1>1, AddedJob, Types
  <2>2. TypeOK'
    BY <1>0, <1>1, <2>1, Types DEF TypeOK
  <2>3. JobInv' /\ WorkInv' /\ OneWorker' /\ ErrorExplainsStatus'
    BY <1>0, <1>1, <2>1 DEF Consistent, JobInv, WorkInv, OneWorker, Working,
                           ErrorExplainsStatus
  <2>4. Undecided' = Undecided
    BY <1>0 DEF Undecided
  <2>5. ClaimInv'
    BY <1>0, <2>1, <2>4 DEF Consistent, ClaimInv
  <2> QED
    BY <1>1, <2>2, <2>3, <2>5 DEF Consistent
<1>2. CASE CreateRun
  <2>1. /\ run.status = "none" /\ run' = [run EXCEPT !.status = "queued"]
        /\ event' = [status |-> "pending", attempts |-> 0]
        /\ UNCHANGED <<relay, job>>
    BY <1>2 DEF CreateRun
  <2>2. /\ run' \in Run /\ run'.status = "queued" /\ run'.error = run.error
        /\ run'.result = run.result
    BY <2>1, Types DEF Run
  <2>3. event' \in Event /\ event'.status = "pending" /\ event'.attempts < OutboxMaxAttempts
    BY <2>1, ConstantsAssumption DEF Event
  <2>4. TypeOK'
    BY <1>0, <2>1, <2>2, <2>3, Types DEF TypeOK
  <2>5. \A s \in Slots : proc[s].pc = "idle"
    BY <2>1 DEF Consistent, WorkInv
  <2>6. RelayInv' /\ JobInv' /\ ErrorExplainsStatus'
    BY <2>1, <2>2, <2>3, <1>0 DEF Consistent, RelayInv, JobInv, ErrorExplainsStatus
  <2>7. WorkInv' /\ OneWorker'
    BY <1>0, <2>5 DEF WorkInv, OneWorker, Working
  <2>8. Undecided' = Undecided
    BY <1>0 DEF Undecided
  <2>9. ClaimInv'
    BY <1>0, <2>1, <2>8 DEF Consistent, ClaimInv
  <2> QED
    BY <2>4, <2>6, <2>7, <2>9 DEF Consistent
<1>3. CASE RelaySelect \/ RelayAdd \/ RelayAddFails
  <2>1. /\ UNCHANGED <<run, event>> /\ (job' = job \/ job' = Added)
        /\ event.status = "pending"
    BY <1>3 DEF RelaySelect, RelayAdd, RelayAddFails, Consistent, RelayInv
  <2>2. RelayInv' /\ run.status # "none"
    BY <2>1 DEF Consistent, RelayInv
  <2> QED
    BY <1>1, <2>1, <2>2, Types
<1>4. CASE RelayMark \/ RelayMarkFails
  <2>1. /\ UNCHANGED <<run, job>> /\ event.status = "pending"
        /\ event' = event \/ event' = [event EXCEPT !.status = "processed"]
        /\ relay' = "catch" \/ (relay' = "idle" /\ event'.status = "processed")
    BY <1>4, Types DEF RelayMark, RelayMarkFails, Marked, Consistent, RelayInv, Event
  <2>2. /\ event' \in Event /\ event'.status \in {"pending", "processed"}
        /\ event'.attempts = event.attempts /\ event.attempts < OutboxMaxAttempts
    BY <2>1, Types DEF Event, Consistent, RelayInv
  <2>3. RelayInv' /\ run.status # "none"
    BY <2>1, <2>2 DEF Consistent, RelayInv
  <2> QED
    BY <1>1, <2>1, <2>2, <2>3
<1>6. CASE RelayCatchUnrecorded
  <2>1. /\ UNCHANGED <<run, event, job>> /\ relay = "catch" /\ relay' = "idle"
        /\ event.status # "none"
    BY <1>6 DEF RelayCatchUnrecorded, Consistent, RelayInv
  <2>2. RelayInv' /\ run.status # "none"
    BY <2>1 DEF Consistent, RelayInv
  <2> QED
    BY <1>1, <2>1, <2>2, Types
<1>5. CASE RelayCatch
  <2> DEFINE n == event.attempts + 1
             status == AfterFailure(n)
  <2>1. /\ UNCHANGED <<run, job>> /\ event' = [attempts |-> n, status |-> status]
        /\ event.status \in {"pending", "processed"}
        /\ event.attempts < OutboxMaxAttempts /\ relay' = "idle"
    BY <1>5 DEF RelayCatch, Consistent, RelayInv
  <2>2. /\ n \in 0..OutboxMaxAttempts /\ status \in {"pending", "processed", "failed"}
        /\ status = "pending" => n < OutboxMaxAttempts
    BY <2>1, Types, ConstantsAssumption DEF Event, AfterFailure
  <2> HIDE DEF n, status
  <2>3. event' \in Event /\ event'.status = status /\ event'.attempts = n
    BY <2>1, <2>2 DEF Event
  <2>4. RelayInv' /\ run.status # "none"
    BY <2>1, <2>2, <2>3 DEF Consistent, RelayInv
  <2> QED
    BY <1>1, <2>1, <2>3, <2>4
<1> QED
  BY <1>2, <1>3, <1>4, <1>5, <1>6 DEF RelayStep

LEMMA NextKeepsConsistent ==
  ASSUME Consistent, [Next]_vars
  PROVE  Consistent'
<1>1. CASE UNCHANGED vars
  <2>1. TypeOK' /\ RelayInv' /\ JobInv' /\ WorkInv'
    BY <1>1 DEF vars, Consistent, TypeOK, RelayInv, JobInv, WorkInv
  <2>2. ClaimInv' /\ OneWorker' /\ ErrorExplainsStatus'
    BY <1>1 DEF vars, Consistent, ClaimInv, Undecided, OneWorker, Working,
                ErrorExplainsStatus
  <2> QED
    BY <2>1, <2>2 DEF Consistent
<1> QED
  BY <1>1, RelayKeepsConsistent, ClaimKeepsConsistent, WorkKeepsConsistent,
     OutcomesKeepConsistent, PickUpKeepsConsistent, StallKeepsConsistent,
     LossKeepsConsistent
     DEF Next, QueueStep, ProcStep, FaultStep

(***************************************************************************)
(* Consistent holds in every reachable state: types, what the relay, the   *)
(* queue and the slots hold, how claims and deliveries add up              *)
(* (ai-run-support.ts, ai-post-draft-generation.ts).                       *)
(***************************************************************************)
THEOREM ConsistentAlways == SafeSpec => []Consistent
<1>1. Init => Consistent
  BY InitConsistent
<1>2. Consistent /\ [Next]_vars => Consistent'
  BY NextKeepsConsistent
<1> QED
  BY <1>1, <1>2, PTL DEF SafeSpec

(***************************************************************************)
(* No two slots ever work on the run, and none works on one that is        *)
(* queued, whatever is delivered twice, stalls or is lost.                 *)
(***************************************************************************)
THEOREM OneWorkerAlways == SafeSpec => []OneWorker
<1>1. Consistent => OneWorker
  BY DEF Consistent
<1> QED
  BY <1>1, ConsistentAlways, PTL

(***************************************************************************)
(* The row has an error exactly when the run has failed, and a result when *)
(* it is completed: what formatDraftRunStatus relies on.                   *)
(***************************************************************************)
THEOREM ErrorExplainsStatusAlways == SafeSpec => []ErrorExplainsStatus
<1>1. Consistent => ErrorExplainsStatus
  BY DEF Consistent
<1> QED
  BY <1>1, ConsistentAlways, PTL

-----------------------------------------------------------------------------
(***************************************************************************)
(* Who carries a queued run.                                               *)
(***************************************************************************)
LEMMA FaultsGrow ==
  ASSUME Consistent, [Next]_vars, "lock" \notin faults'.kinds
  PROVE  "lock" \notin faults.kinds /\ ~LoseLock
<1>1. \A kind \in AllFaults :
        Fault(kind) => "lock" \notin faults.kinds /\ kind # "lock"
  BY Types, ConstantsAssumption DEF Fault, Faults
<1>2. ~LoseLock
  BY <1>1 DEF LoseLock, AllFaults
<1>3. UNCHANGED faults \/ \E kind \in AllFaults : Fault(kind)
  BY DEF Next, vars, CreateRun, RelayStep, RelaySelect, RelayAdd, RelayMark, RelayCatch,
         QueueStep, StallCheck, PickUp, ProcStep, Claim, Provider, ProviderFails, Validate,
         Save, Catch, Rethrow, GiveUp, Finish, Reports, FaultStep, RelayAddFails,
         RelayMarkFails, RelayCatchUnrecorded, WorkerDies, LoseLock, ClaimFails,
         QueryFails, CatchUnrecorded, AllFaults
<1> QED
  BY <1>1, <1>2, <1>3

\* A slot that goes on with the job in its hands.
LEMMA SlotCarries ==
  ASSUME Consistent, CarryInv, "lock" \notin faults.kinds,
         NEW s \in Slots, NEW p \in Proc, proc' = [proc EXCEPT ![s] = p],
         UNCHANGED <<event, relay, job>>,
         proc[s].pc # "idle", p.pc # "idle",
         run'.status = "queued" => p.pc # "finish"
  PROVE  CarryInv'
<1>1. /\ \A t \in Slots \ {s} : proc'[t] = proc[t]
      /\ proc'[s] = p
  BY Types
<1>2. job.holder = s /\ \A t \in Slots \ {s} : proc[t].pc = "idle"
  BY DEF CarryInv
<1>3. job.state = "active"
  BY <1>2, ConstantsAssumption DEF Consistent, JobInv
<1> QED
  BY <1>1, <1>2, <1>3 DEF CarryInv

LEMMA WorkCarries ==
  ASSUME Consistent, CarryInv, "lock" \notin faults.kinds, NEW s \in Slots,
         \/ Claim(s) \/ ClaimFails(s) \/ Provider(s) \/ ProviderFails(s) \/ Validate(s)
         \/ Save(s) \/ QueryFails(s) \/ Catch(s) \/ CatchUnrecorded(s)
  PROVE  CarryInv'
<1>1. proc[s].pc # "idle" /\ UNCHANGED <<event, relay, job>>
  BY DEF Claim, ClaimFails, Provider, ProviderFails, Validate, Save, QueryFails, Catch,
         CatchUnrecorded, procRest
<1>2. \E p \in Proc : /\ proc' = [proc EXCEPT ![s] = p]
                      /\ p.pc # "idle"
                      /\ run'.status = "queued" => p.pc # "finish"
  <2>1. CASE \E pc \in {"provider", "validate", "save", "catch", "rethrow", "giveup"} :
               Goes(s, pc)
    BY <2>1, SlotGoes
  <2>2. CASE \E kind \in Kinds : Catches(s, kind)
    BY <2>2, SlotCatches
  <2>3. CASE Goes(s, "finish") /\ run'.status # "queued"
    BY <2>3, SlotGoes
  <2>4. CASE Claim(s)
    BY <2>1, <2>3, <2>4 DEF Claim, Claimable
  <2>5. CASE Save(s)
    BY <2>3, <2>5, SavedRun DEF Save
  <2>6. CASE ClaimFails(s) \/ Provider(s) \/ Catch(s) \/ CatchUnrecorded(s)
    BY <2>1, <2>6 DEF ClaimFails, Provider, Catch, CatchUnrecorded, ThrowsOn
  <2>7. CASE ProviderFails(s) \/ Validate(s) \/ QueryFails(s)
    BY <2>1, <2>2, <2>7 DEF ProviderFails, Validate, QueryFails, Kinds
  <2> QED
    BY <2>4, <2>5, <2>6, <2>7
<1> QED
  BY <1>1, <1>2, SlotCarries

\* BullMQ hands out the job, and takes the outcome.
LEMMA QueueCarries ==
  ASSUME Consistent, CarryInv, "lock" \notin faults.kinds,
         \/ StallCheck
         \/ \E s \in Slots : PickUp(s) \/ Rethrow(s) \/ GiveUp(s) \/ Finish(s)
  PROVE  CarryInv'
<1>1. CASE StallCheck
  <2>1. job.holder = NoSlot /\ UNCHANGED <<event, relay, run, proc>>
    BY <1>1 DEF StallCheck, procRest
  <2>2. job'.holder = NoSlot /\ job'.state \in {"waiting", "failed"}
    BY <1>1, Types DEF StallCheck, Job
  <2> QED
    BY <2>1, <2>2 DEF CarryInv
<1>2. ASSUME NEW s \in Slots, PickUp(s) PROVE CarryInv'
  <2>1. job.state = "waiting" /\ UNCHANGED <<event, relay, run, faults>>
    BY <1>2 DEF PickUp, procRest
  <2>2. \A t \in Slots : proc[t].pc = "idle"
    BY <2>1, ConstantsAssumption DEF CarryInv, Consistent, JobInv
  <2>3. job'.holder = s /\ job'.state = "active"
    BY <1>2, Types DEF PickUp, Job
  <2>4. /\ \A t \in Slots \ {s} : proc'[t] = proc[t]
        /\ proc'[s].pc = "claim"
    BY <1>2, Types DEF PickUp, IdleProc
  <2> QED
    BY <2>1, <2>2, <2>3, <2>4 DEF CarryInv
<1>3. ASSUME NEW s \in Slots, Rethrow(s) \/ GiveUp(s) \/ Finish(s) PROVE CarryInv'
  <2>1. proc[s].pc # "idle" /\ UNCHANGED <<event, relay, run, faults>>
    BY <1>3 DEF Rethrow, GiveUp, Finish, Reports, procRest
  <2>2. job.holder = s /\ \A t \in Slots \ {s} : proc[t].pc = "idle"
    BY <2>1 DEF CarryInv
  <2>3. \A t \in Slots : proc'[t].pc = "idle"
    BY <1>3, <2>2, Types DEF Rethrow, GiveUp, Finish, Reports, IdleProc
  <2>4. /\ job'.state \in {"waiting", "failed", "completed"}
        /\ job'.state = "completed" => run.status # "queued"
    <3>1. CASE Rethrow(s)
      BY <3>1, <2>2, Types DEF Rethrow, Reports, Failed, Job
    <3>2. CASE GiveUp(s)
      BY <3>2, <2>2, Types DEF GiveUp, Reports, Failed, Job
    <3>3. CASE Finish(s)
      BY <3>3, <2>2, Types DEF Finish, Reports, Job, CarryInv
    <3> QED
      BY <1>3, <3>1, <3>2, <3>3
  <2> QED
    BY <2>1, <2>3, <2>4 DEF CarryInv
<1> QED
  BY <1>1, <1>2, <1>3

\* The relay, the insertion of the run and the worker's death.
LEMMA RelayCarries ==
  ASSUME Consistent, CarryInv, "lock" \notin faults.kinds,
         \/ CreateRun \/ RelayStep \/ WorkerDies
         \/ RelayAddFails \/ RelayMarkFails \/ RelayCatchUnrecorded
  PROVE  CarryInv'
<1>1. Added.state # "missing" /\ Added.holder = job.holder
      /\ (Added.state = "completed" => job.state = "completed")
  BY Types DEF Added, Job
<1>2. CASE CreateRun
  <2>1. /\ run.status = "none" /\ event'.status = "pending"
        /\ UNCHANGED <<relay, job, proc>>
    BY <1>2 DEF CreateRun
  <2>2. job.state = "missing" /\ relay = "idle"
    BY <2>1, Types DEF Consistent, RelayInv, RelayState
  <2>3. \A s \in Slots : proc[s].pc = "idle"
    BY <2>1 DEF Consistent, WorkInv
  <2> QED
    BY <2>1, <2>2, <2>3 DEF CarryInv
<1>3. CASE WorkerDies
  <2>1. /\ relay' = "idle" /\ UNCHANGED <<run, event>>
        /\ \A s \in Slots : proc'[s].pc = "idle"
    BY <1>3 DEF WorkerDies, IdleProc
  <2>2. job'.state = job.state
    BY <1>3, Types DEF WorkerDies, Job
  <2> QED
    BY <2>1, <2>2 DEF CarryInv
<1>4. CASE RelayAdd \/ RelayAddFails
  <2>1. /\ (job' = job /\ relay' = "catch") \/ job' = Added
        /\ UNCHANGED <<run, event, proc>>
    BY <1>4 DEF RelayAdd, RelayAddFails, relayRest
  <2> QED
    BY <1>1, <2>1 DEF CarryInv
<1>5. CASE RelayMark \/ RelayMarkFails
  <2>1. /\ relay = "mark" /\ relay' # "mark" /\ UNCHANGED <<run, job, proc>>
    BY <1>5 DEF RelayMark, RelayMarkFails, relayRest
  <2> QED
    BY <2>1 DEF CarryInv
<1>6. CASE RelayCatch
  <2>1. /\ relay' = "idle" /\ UNCHANGED <<run, job, proc>>
        /\ event'.status = "processed" => event.status = "processed"
    BY <1>6 DEF RelayCatch, AfterFailure, relayRest
  <2> QED
    BY <2>1 DEF CarryInv
<1>7. CASE RelaySelect \/ RelayCatchUnrecorded
  <2>1. relay' # "mark" /\ UNCHANGED <<run, job, proc, event>>
    BY <1>7 DEF RelaySelect, RelayCatchUnrecorded, relayRest
  <2> QED
    BY <2>1 DEF CarryInv
<1> QED
  BY <1>2, <1>3, <1>4, <1>5, <1>6, <1>7 DEF RelayStep

LEMMA NextCarries ==
  ASSUME Consistent, CarryInv, [Next]_vars PROVE CarryInv'
<1>1. CASE "lock" \in faults'.kinds
  BY <1>1 DEF CarryInv
<1>2. CASE "lock" \notin faults'.kinds
  <2>1. "lock" \notin faults.kinds /\ ~LoseLock
    BY <1>2, FaultsGrow
  <2>2. CASE UNCHANGED vars
    BY <2>2 DEF vars, CarryInv
  <2> QED
    BY <2>1, <2>2, WorkCarries, QueueCarries, RelayCarries
       DEF Next, RelayStep, QueueStep, ProcStep, FaultStep
<1> QED
  BY <1>1, <1>2

(***************************************************************************)
(* A run that waits to be claimed has an event or a job that brings it     *)
(* on, or the failure is on record, for every number of slots, attempts,   *)
(* crashes and failed calls, as long as no slot loses its lock.            *)
(***************************************************************************)
THEOREM QueuedIsCarriedAlways == SafeSpec => []QueuedIsCarried
<1>1. Init => CarryInv
  BY DEF Init, CarryInv, IdleProc
<1>2. Consistent /\ CarryInv /\ [Next]_vars => CarryInv'
  BY NextCarries
<1>3. Consistent /\ CarryInv => QueuedIsCarried
  <2>1. SUFFICES ASSUME Consistent, CarryInv, run.status = "queued",
                        "lock" \notin faults.kinds
                 PROVE  Carried \/ event.status = "failed" \/ job.state = "failed"
    BY DEF QueuedIsCarried
  <2>2. event.status \in {"pending", "processed", "failed"}
    BY <2>1, Types DEF Consistent, RelayInv, Event
  <2>3. CASE event.status = "pending"
    BY <2>1, <2>3 DEF Consistent, RelayInv, Carried
  <2>4. CASE event.status = "processed"
    BY <2>1, <2>4, Types DEF CarryInv, Carried, Job
  <2> QED
    BY <2>2, <2>3, <2>4
<1> QED
  BY <1>1, <1>2, <1>3, ConsistentAlways, PTL DEF SafeSpec

-----------------------------------------------------------------------------
LEMMA StepIsLifecycleStep ==
  ASSUME Consistent, [Next]_vars
  PROVE  [Lifecycle!Next]_(Lifecycle!lifecycleVars)
<1> USE DEF relayRest, procRest
<1> DEFINE Seen(r) == IF r.status \in Active THEN "active" ELSE r.status
<1>0. run \in Run
  BY Types
<1>1. CASE UNCHANGED <<run, claims>>
  BY <1>1 DEF Lifecycle!lifecycleVars
<1>2. CASE CreateRun
  <2>1. /\ run.status = "none" /\ run'.status = "queued" /\ run'.result = run.result
        /\ UNCHANGED claims
    BY <1>0, <1>2 DEF CreateRun, Run
  <2> QED
    BY <2>1 DEF Lifecycle!Next, Lifecycle!Create, Active
<1>3. ASSUME NEW s \in Slots, proc[s].pc = "claim", run.status = "queued", Claimed
      PROVE  Lifecycle!Claim
  <2>1. /\ run'.status = "running" /\ run'.result = run.result /\ claims' = claims + 1
    BY <1>3, ClaimedRun
  <2>2. claims < JobAttempts + MaxStalls
    <3> DEFINE n == Cardinality(Undecided)
               d == Deliveries(job)
    <3>1. n \in Nat /\ n # 0
      <4>1. s \in Undecided
        BY <1>3 DEF Undecided
      <4> QED
        BY <4>1, UndecidedFinite, FS_EmptySet
    <3>2. /\ claims \in Nat /\ JobAttempts \in Nat /\ MaxStalls \in Nat
          /\ job.attemptsMade \in Nat /\ job.stalls \in Nat
      BY Types, ConstantsAssumption DEF Job
    <3>3. job.state \in {"active", "completed"} =>
            job.attemptsMade < JobAttempts /\ job.stalls <= MaxStalls
      BY DEF Consistent, JobInv
    <3>4. job.attemptsMade + job.stalls <= JobAttempts + MaxStalls
      BY DEF Consistent, JobInv
    <3>5. d \in Nat /\ d <= JobAttempts + MaxStalls
      BY <3>2, <3>3, <3>4 DEF Deliveries
    <3>6. claims + n <= d
      BY DEF Consistent, ClaimInv, Deliveries
    <3> HIDE DEF n, d
    <3> QED
      BY <3>1, <3>2, <3>5, <3>6
  <2> QED
    BY <1>3, <2>1, <2>2 DEF Lifecycle!Claim, Active
<1>4. ASSUME NEW s \in Slots, Claim(s) \/ ClaimFails(s)
      PROVE  [Lifecycle!Next]_(Lifecycle!lifecycleVars)
  <2>1. \/ UNCHANGED <<run, claims>>
        \/ proc[s].pc = "claim" /\ run.status = "queued" /\ Claimed
    BY <1>4 DEF Claim, ClaimFails, Claimable
  <2> QED
    BY <1>1, <1>3, <2>1 DEF Lifecycle!Next
<1>5. ASSUME NEW s \in Slots, proc[s].pc = "save", run' = Saved, UNCHANGED claims
      PROVE  Lifecycle!Next
  <2>1. run.status \in Active
    BY <1>5 DEF Consistent, WorkInv
  <2> QED
    BY <1>5, <2>1, SavedRun DEF Lifecycle!Next, Lifecycle!Complete, Active
<1>6. ASSUME NEW s \in Slots, Provider(s)
      PROVE  UNCHANGED Lifecycle!lifecycleVars
  <2>1. run.status \in Active /\ run' = [run EXCEPT !.status = "validating"]
        /\ UNCHANGED claims
    BY <1>6 DEF Provider, Consistent, WorkInv
  <2> QED
    BY <1>0, <2>1 DEF Lifecycle!lifecycleVars, Run, Active
<1>7. ASSUME NEW s \in Slots, Catch(s)
      PROVE  Lifecycle!Next
  <2>1. /\ proc[s].pc = "catch" /\ run' = AfterCatch(s) /\ UNCHANGED claims
    BY <1>7 DEF Catch
  <2>2. run.status \in Active \/ (run.status = "completed" /\ proc[s].kind = "other")
    BY <2>1 DEF Consistent, WorkInv
  <2>3. CASE ShouldRetry(s)
    <3>1. run.status \in Active
      BY <2>2, <2>3 DEF ShouldRetry
    <3> QED
      BY <2>1, <2>3, <3>1, CaughtRun DEF Lifecycle!Next, Lifecycle!Retry, Active
  <2>4. CASE ~ShouldRetry(s)
    BY <2>1, <2>2, <2>4, CaughtRun DEF Lifecycle!Next, Lifecycle!Fail, Active
  <2> QED
    BY <2>3, <2>4
<1>8. ASSUME NEW s \in Slots,
             \/ ProviderFails(s) \/ Validate(s) \/ Save(s) \/ QueryFails(s)
             \/ CatchUnrecorded(s) \/ Rethrow(s) \/ GiveUp(s) \/ Finish(s) \/ PickUp(s)
      PROVE  [Lifecycle!Next]_(Lifecycle!lifecycleVars)
  <2>1. \/ UNCHANGED <<run, claims>>
        \/ proc[s].pc = "save" /\ run' = Saved /\ UNCHANGED claims
    BY <1>8 DEF ProviderFails, Validate, Save, QueryFails, CatchUnrecorded, Rethrow,
       GiveUp, Finish, PickUp, Reports
  <2> QED
    BY <1>1, <1>5, <2>1
<1>9. CASE \/ RelayStep \/ RelayAddFails \/ RelayMarkFails \/ RelayCatchUnrecorded
           \/ StallCheck \/ WorkerDies \/ LoseLock \/ UNCHANGED vars
  BY <1>1, <1>9 DEF RelayStep, RelaySelect, RelayAdd, RelayMark, RelayCatch,
     RelayAddFails, RelayMarkFails, RelayCatchUnrecorded, StallCheck, WorkerDies,
     LoseLock, vars
<1> QED
  BY <1>2, <1>4, <1>6, <1>7, <1>8, <1>9 DEF Next, QueueStep, ProcStep, FaultStep

(***************************************************************************)
(* Every run of the system is a run of RunLifecycle: the run is claimed    *)
(* when it is queued, at most as often as attempts and stalls allow; a     *)
(* stored result stays; a run that has ended never starts again.           *)
(***************************************************************************)
THEOREM LifecycleSafe == SafeSpec => LifecycleSafety
<1>1. Init => Lifecycle!Init
  BY DEF Init, Lifecycle!Init, Active
<1>2. Consistent /\ [Next]_vars => [Lifecycle!Next]_(Lifecycle!lifecycleVars)
  BY StepIsLifecycleStep
<1> QED
  BY <1>1, <1>2, ConsistentAlways, PTL DEF SafeSpec, LifecycleSafety, Lifecycle!SafeSpec
==============================================================================
