------------------------ MODULE ScheduledPublish_proofs ------------------------
(***************************************************************************)
(* For every set of requests, every bound and every clock skew: the        *)
(* inductive invariant Consistent, and that every step of the pipeline is  *)
(* a step of PostLifecycle or changes nothing it can see.                  *)
(***************************************************************************)
EXTENDS ScheduledPublish, FiniteSetTheorems, TLAPS

LEMMA InitConsistent == Init => Consistent
<1> SUFFICES ASSUME Init PROVE Consistent
  OBVIOUS
<1> USE ConstantsAssumption
<1>1. TypeOK
  BY DEF Init, TypeOK, NoPost, NewRequest, NoEvent, NoJob, IdleRelay, IdleProc,
         Clock, Time, NoTime, PostRow, Request, Event, Job, JobStates, Relay,
         Proc, Statuses
<1>2. RequestInv
  BY DEF Init, RequestInv, NewRequest, NoEvent
<1>3. RelayInv
  BY DEF Init, RelayInv, Pending, NoEvent, IdleRelay
<1>4. JobInv
  BY DEF Init, JobInv, IdleProc, NoJob
<1>5. ScheduledHasTime
  BY DEF Init, ScheduledHasTime, NoPost, NoTime
<1> QED
  BY <1>1, <1>2, <1>3, <1>4, <1>5 DEF Consistent

-----------------------------------------------------------------------------
\* The records a request can be given.
LEMMA ServedIsRequest ==
  ASSUME NEW s \in Statuses \cup {"absent"}
  PROVE  Served(s) \in Request /\ Served(s).pc = "done"
BY DEF Served, NewRequest, Request, Statuses, Time, Clock, NoTime

LEMMA NewEventIsEvent ==
  ASSUME NEW t \in Time, NEW order \in Nat
  PROVE  /\ NewEvent(t, order) \in Event
         /\ NewEvent(t, order).status = "pending"
         /\ NewEvent(t, order).attempts < OutboxMaxAttempts
BY ConstantsAssumption DEF NewEvent, Event

LEMMA ParsedStatusIsStatus ==
  ASSUME NEW body \in Bodies
  PROVE  ParsedStatus(body) \in Statuses
BY ConstantsAssumption DEF ParsedStatus, Statuses

LEMMA NoJobIsJob == NoJob \in Job
BY ConstantsAssumption DEF NoJob, Job, JobStates, Time, Clock, NoTime

\* A step that only moves request r on keeps the invariant, when what the
\* request now holds satisfies RequestInv.
LEMMA RequestMovesOn ==
  ASSUME Consistent, NEW r \in Requests, NEW q \in Request,
         req' = [req EXCEPT ![r] = q],
         UNCHANGED <<now, post, decisions, outbox, job, relay, proc>>,
         txClock' \in Nat, faults' \in 0..MaxFaults,
         q.pc = "begun" \/ (q.pc = "read" /\ q.kind = "update") =>
           q.status \in Statuses /\ ((q.status = "scheduled") <=> (q.at # NoTime)),
         q.pc \in {"new", "read", "begun"} => req[r].pc \in {"new", "read", "begun"},
         q.pc \in {"read", "begun"} => post.status # "absent"
  PROVE  Consistent'
<1>1. TypeOK'
  BY DEF TypeOK, Consistent
<1>2. RequestInv'
  BY DEF RequestInv, Consistent, TypeOK
<1>3. RelayInv' /\ JobInv' /\ ScheduledHasTime'
  BY DEF RelayInv, JobInv, ScheduledHasTime, Consistent, Pending
<1> QED
  BY <1>1, <1>2, <1>3 DEF Consistent

\* A write of request r to the posts row, with or without an outbox event,
\* keeps the invariant.
LEMMA WriteKeepsConsistent ==
  ASSUME Consistent, NEW r \in Requests, NEW q \in Request,
         req' = [req EXCEPT ![r] = q], q.pc \in {"cancel", "done"},
         req[r].pc \in {"new", "read", "begun"},
         post' \in PostRow, post'.status # "absent",
         (post'.status = "scheduled") <=> (post'.scheduledAt # NoTime),
         \/ outbox' = outbox
         \/ \E e \in Event : /\ outbox' = [outbox EXCEPT ![r] = e]
                             /\ e.status = "pending"
                             /\ e.attempts < OutboxMaxAttempts,
         UNCHANGED <<now, job, relay, proc>>,
         txClock' \in Nat, decisions' \in Nat, faults' \in 0..MaxFaults
  PROVE  Consistent'
<1>1. TypeOK'
  BY DEF TypeOK, Consistent
<1>2. RequestInv'
  <2> SUFFICES ASSUME NEW s \in Requests
               PROVE  RequestInv!(s)'
    BY DEF RequestInv
  <2>1. CASE s = r
    BY <2>1 DEF RequestInv, Consistent, TypeOK
  <2>2. CASE s # r
    <3>1. req'[s] = req[s] /\ outbox'[s] = outbox[s]
      BY <2>2 DEF Consistent, TypeOK
    <3> QED
      BY <3>1 DEF RequestInv, Consistent
  <2> QED
    BY <2>1, <2>2
<1>3. RelayInv'
  <2>1. \A s \in Requests : s # r => outbox'[s] = outbox[s]
    BY DEF Consistent, TypeOK
  <2>2. outbox[r].status = "none" /\ r \notin Pending
    BY DEF Consistent, RequestInv, Pending
  <2>3. outbox'[r].status = "pending" => outbox'[r].attempts < OutboxMaxAttempts
    BY <2>2 DEF Consistent, TypeOK
  <2>4. Pending \subseteq Pending'
    BY <2>1, <2>2 DEF Pending
  <2>5. \A s \in Pending' : outbox'[s].attempts < OutboxMaxAttempts
    BY <2>1, <2>3 DEF Consistent, RelayInv, Pending
  <2>6. relay.pc = "fail" => relay.event # r /\ outbox'[relay.event] = outbox[relay.event]
    BY <2>1, <2>2 DEF RelayInv, Consistent
  <2> QED
    BY <2>4, <2>5, <2>6 DEF RelayInv, Consistent
<1>4. JobInv' /\ ScheduledHasTime'
  BY DEF JobInv, ScheduledHasTime, Consistent
<1> QED
  BY <1>1, <1>2, <1>3, <1>4 DEF Consistent

\* The row and the event of an update, whatever becomes of the request.
LEMMA UpdateKeepsConsistent ==
  ASSUME Consistent, NEW r \in Requests, NEW q \in Request, WriteUpdate(r),
         req' = [req EXCEPT ![r] = q], q.pc \in {"cancel", "done"},
         UNCHANGED <<now, txClock, job, relay, proc>>, faults' \in 0..MaxFaults
  PROVE  Consistent'
<1>1. req[r] \in Request /\ req[r].pc = "begun" /\ post \in PostRow
  BY DEF WriteUpdate, Consistent, TypeOK
<1>2. /\ req[r].status \in Statuses
      /\ (req[r].status = "scheduled") <=> (req[r].at # NoTime)
  BY <1>1 DEF Consistent, RequestInv
<1>3. PatchedStamp(r) \in Nat \cup {NoTime}
  BY <1>1 DEF PatchedStamp, Request, PostRow, Time, Clock
<1>4. /\ PatchedRow(r) \in PostRow
      /\ PatchedRow(r).status = req[r].status
      /\ PatchedRow(r).scheduledAt = req[r].at
  BY <1>1, <1>2, <1>3 DEF PatchedRow, PostRow, Request
<1>5. /\ NewEvent(req[r].at, req[r].order) \in Event
      /\ NewEvent(req[r].at, req[r].order).status = "pending"
      /\ NewEvent(req[r].at, req[r].order).attempts < OutboxMaxAttempts
  BY <1>1, NewEventIsEvent DEF Request
<1>6. decisions' \in Nat /\ txClock' \in Nat
  BY DEF WriteUpdate, Consistent, TypeOK
<1>7. /\ post' = PatchedRow(r)
      /\ outbox' = IF req[r].status = "scheduled"
                   THEN [outbox EXCEPT ![r] = NewEvent(req[r].at, req[r].order)]
                   ELSE outbox
  BY DEF WriteUpdate
<1>8. req[r].status # "absent"
  BY <1>2 DEF Statuses
<1> QED
  BY <1>1, <1>2, <1>4, <1>5, <1>6, <1>7, <1>8, WriteKeepsConsistent

\* The mark of a deletion, whatever becomes of the request.
LEMMA DeleteKeepsConsistent ==
  ASSUME Consistent, NEW r \in Requests, NEW q \in Request, WriteDelete(r),
         req' = [req EXCEPT ![r] = q], q.pc \in {"cancel", "done"},
         UNCHANGED <<now, txClock, job, relay, proc>>, faults' \in 0..MaxFaults
  PROVE  Consistent'
<1>1. req[r] \in Request /\ req[r].pc = "read" /\ post \in PostRow
  BY DEF WriteDelete, Consistent, TypeOK
<1>2. post' = [post EXCEPT !.deleted = TRUE] /\ UNCHANGED outbox
  BY DEF WriteDelete
<1>3. /\ post' \in PostRow
      /\ post'.status = post.status /\ post'.scheduledAt = post.scheduledAt
  BY <1>1, <1>2 DEF PostRow
<1>4. post.status # "absent" /\ ScheduledHasTime
  BY <1>1 DEF Consistent, RequestInv
<1>5. decisions' \in Nat /\ txClock' \in Nat
  BY DEF WriteDelete, Consistent, TypeOK
<1> QED
  BY <1>1, <1>2, <1>3, <1>4, <1>5, WriteKeepsConsistent DEF ScheduledHasTime

LEMMA ApiKeepsConsistent ==
  ASSUME Consistent, ApiStep
  PROVE  Consistent'
<1> USE DEF workerVars
<1>1. ASSUME NEW r \in Requests, NEW body \in Bodies, NEW t \in Time,
             CreatePost(r, body, t)
      PROVE  Consistent'
  <2> DEFINE s == ParsedStatus(body)
  <2>1. s \in Statuses
    BY ParsedStatusIsStatus
  <2>2. /\ req[r].pc = "new"
        /\ (s = "scheduled") <=> (t # NoTime)
        /\ post' = [status |-> s, scheduledAt |-> t, deleted |-> FALSE,
                    publishedAt |-> IF s = "published" THEN now ELSE NoTime]
        /\ outbox' = IF s = "scheduled"
                     THEN [outbox EXCEPT ![r] = NewEvent(t, txClock + 1)]
                     ELSE outbox
        /\ req' = [req EXCEPT ![r] = Served(s)]
        /\ txClock' = txClock + 1
        /\ decisions' = decisions + 1
        /\ UNCHANGED <<now, job, relay, proc, faults>>
    BY <1>1 DEF CreatePost, ValidBody
  <2>3. txClock' \in Nat /\ decisions' \in Nat
    BY <2>2 DEF Consistent, TypeOK
  <2>4. post' \in PostRow /\ post'.status # "absent"
        /\ ((post'.status = "scheduled") <=> (post'.scheduledAt # NoTime))
    BY <2>1, <2>2 DEF Consistent, TypeOK, PostRow, Statuses, Time, Clock
  <2>5. NewEvent(t, txClock + 1) \in Event
        /\ NewEvent(t, txClock + 1).status = "pending"
        /\ NewEvent(t, txClock + 1).attempts < OutboxMaxAttempts
        /\ faults' \in 0..MaxFaults
    BY <2>2, NewEventIsEvent DEF Consistent, TypeOK
  <2>6. Served(s) \in Request /\ Served(s).pc = "done"
    BY <2>1, ServedIsRequest
  <2> HIDE DEF s
  <2> QED
    BY <2>2, <2>3, <2>4, <2>5, <2>6, WriteKeepsConsistent
<1>2. ASSUME NEW r \in Requests, NEW body \in Bodies, NEW t \in Time,
             SubmitUpdate(r, body, t)
      PROVE  Consistent'
  <2> DEFINE b == post.publishedAt # NoTime
             q == [NewRequest EXCEPT !.pc = "read",
               !.kind = "update", !.body = body, !.status = ParsedStatus(body),
               !.at = t, !.seenStatus = post.status, !.seenPublished = b]
  <2>1. ParsedStatus(body) \in Statuses /\ body \in Statuses \cup {"absent"}
    BY ParsedStatusIsStatus, ConstantsAssumption DEF Statuses
  <2>a. post.status \in Statuses \cup {"absent"} /\ b \in BOOLEAN
    BY DEF Consistent, TypeOK, PostRow
  <2>b. NewRequest \in Request /\ t \in Time
    BY DEF NewRequest, Request, Statuses, Time, Clock, NoTime
  <2>3. /\ req' = [req EXCEPT ![r] = q]
        /\ req[r].pc = "new" /\ post.status # "absent"
        /\ (ParsedStatus(body) = "scheduled") <=> (t # NoTime)
        /\ UNCHANGED <<now, post, decisions, txClock, outbox, job, relay, proc, faults>>
    BY <1>2 DEF SubmitUpdate, ValidBody
  <2> HIDE DEF b
  <2>2. q \in Request /\ q.pc = "read" /\ q.status = ParsedStatus(body) /\ q.at = t
    BY <2>1, <2>a, <2>b DEF Request
  <2>4. txClock' \in Nat /\ faults' \in 0..MaxFaults
    BY <2>3 DEF Consistent, TypeOK
  <2> HIDE DEF q
  <2> QED
    BY <2>1, <2>2, <2>3, <2>4, RequestMovesOn
<1>3. ASSUME NEW r \in Requests, SubmitDelete(r)
      PROVE  Consistent'
  <2> DEFINE q == [NewRequest EXCEPT !.pc = "read", !.kind = "delete",
                                     !.seenStatus = post.status]
  <2>1. q \in Request /\ q.pc = "read" /\ q.kind = "delete"
    BY DEF NewRequest, Request, Statuses, Time, Clock, NoTime, Consistent, TypeOK,
           PostRow
  <2>2. /\ req' = [req EXCEPT ![r] = q]
        /\ req[r].pc = "new" /\ post.status # "absent"
        /\ UNCHANGED <<now, post, decisions, txClock, outbox, job, relay, proc, faults>>
    BY <1>3 DEF SubmitDelete
  <2>3. txClock' \in Nat /\ faults' \in 0..MaxFaults
    BY <2>2 DEF Consistent, TypeOK
  <2> HIDE DEF q
  <2> QED
    BY <2>1, <2>2, <2>3, RequestMovesOn
<1>4. ASSUME NEW r \in Requests, BeginTx(r)
      PROVE  Consistent'
  <2> DEFINE n == txClock + 1
             q == [req[r] EXCEPT !.pc = "begun", !.order = n,
                     !.stamp = now, !.publishedAt = PatchedPublishedAt(r)]
  <2>1. PatchedPublishedAt(r) \in {"keep", "stamp", "clear"}
    BY DEF PatchedPublishedAt
  <2>2. req[r] \in Request /\ n \in Nat /\ now \in Time
    BY DEF Consistent, TypeOK, Time
  <2>4. /\ req' = [req EXCEPT ![r] = q]
        /\ req[r].pc = "read" /\ req[r].kind = "update"
        /\ txClock' = txClock + 1
        /\ UNCHANGED <<now, post, decisions, outbox, job, relay, proc, faults>>
    BY <1>4 DEF BeginTx
  <2>5. /\ req[r].status \in Statuses
        /\ (req[r].status = "scheduled") <=> (req[r].at # NoTime)
        /\ post.status # "absent"
    BY <2>4 DEF Consistent, RequestInv
  <2>6. txClock' \in Nat /\ faults' \in 0..MaxFaults
    BY <2>4 DEF Consistent, TypeOK
  <2> HIDE DEF n
  <2>3. q \in Request /\ q.pc = "begun" /\ q.status = req[r].status /\ q.at = req[r].at
    BY <2>1, <2>2 DEF Request
  <2> HIDE DEF q
  <2> QED
    BY <2>3, <2>4, <2>5, <2>6, RequestMovesOn
<1>a. ASSUME NEW r \in Requests
      PROVE  /\ AfterWrite(r) \in Request /\ AfterWrite(r).pc \in {"cancel", "done"}
             /\ Served(req[r].status) \in Request /\ Served(req[r].status).pc = "done"
  BY ServedIsRequest DEF AfterWrite, Request, Consistent, TypeOK
<1>5. ASSUME NEW r \in Requests, CommitUpdate(r)
      PROVE  Consistent'
  <2>1. /\ WriteUpdate(r) /\ req' = [req EXCEPT ![r] = AfterWrite(r)]
        /\ UNCHANGED <<now, txClock, job, relay, proc>> /\ faults' \in 0..MaxFaults
    BY <1>5 DEF CommitUpdate, Consistent, TypeOK
  <2> QED
    BY <1>a, <2>1, UpdateKeepsConsistent
<1>6. ASSUME NEW r \in Requests, CommitDelete(r)
      PROVE  Consistent'
  <2>1. /\ WriteDelete(r) /\ req' = [req EXCEPT ![r] = AfterWrite(r)]
        /\ UNCHANGED <<now, txClock, job, relay, proc>> /\ faults' \in 0..MaxFaults
    BY <1>6 DEF CommitDelete, Consistent, TypeOK
  <2> QED
    BY <1>a, <2>1, DeleteKeepsConsistent
<1>7. ASSUME NEW r \in Requests, WriteMatchesNothing(r) \/ RequestDies(r)
      PROVE  Consistent'
  <2>1. /\ req' = [req EXCEPT ![r] = Served(req[r].status)]
        /\ UNCHANGED <<now, txClock, job, relay, proc>>
        /\ \/ UNCHANGED <<post, decisions, outbox>>
           \/ WriteUpdate(r)
           \/ WriteDelete(r)
    BY <1>7 DEF WriteMatchesNothing, RequestDies
  <2>2. txClock' \in Nat /\ faults' \in 0..MaxFaults
    BY <1>7, ConstantsAssumption
       DEF WriteMatchesNothing, RequestDies, Fault, Consistent, TypeOK
  <2>3. CASE UNCHANGED <<post, decisions, outbox>>
    BY <1>a, <2>1, <2>2, <2>3, RequestMovesOn
  <2> QED
    BY <1>a, <2>1, <2>2, <2>3, UpdateKeepsConsistent, DeleteKeepsConsistent
<1>8. ASSUME NEW r \in Requests, CancelLookup(r)
      PROVE  Consistent'
  <2> DEFINE q == IF job.state \in {"delayed", "waiting"}
                  THEN [req[r] EXCEPT !.pc = "remove"]
                  ELSE Served(req[r].status)
  <2>1. req[r] \in Request
    BY DEF Consistent, TypeOK
  <2>2. q \in Request /\ q.pc \in {"remove", "done"}
    BY <2>1, ServedIsRequest DEF Request
  <2>3. /\ req' = [req EXCEPT ![r] = q]
        /\ UNCHANGED <<now, post, decisions, txClock, outbox, job, relay, proc, faults>>
    BY <1>8 DEF CancelLookup
  <2>4. txClock' \in Nat /\ faults' \in 0..MaxFaults
    BY <2>3 DEF Consistent, TypeOK
  <2> HIDE DEF q
  <2> QED
    BY <2>2, <2>3, <2>4, RequestMovesOn
<1>9. ASSUME NEW r \in Requests, CancelRemove(r)
      PROVE  Consistent'
  <2>1. Served(req[r].status) \in Request /\ Served(req[r].status).pc = "done"
    BY ServedIsRequest DEF Consistent, TypeOK, Request
  <2>2. /\ req' = [req EXCEPT ![r] = Served(req[r].status)]
        /\ job' = IF job.state = "active" THEN job ELSE NoJob
        /\ UNCHANGED <<now, post, decisions, txClock, outbox, relay, proc, faults>>
    BY <1>9 DEF CancelRemove
  <2>3. TypeOK'
    BY <2>1, <2>2, NoJobIsJob DEF Consistent, TypeOK
  <2>4. RequestInv'
    BY <2>1, <2>2 DEF Consistent, TypeOK, RequestInv
  <2>5. RelayInv' /\ ScheduledHasTime'
    BY <2>2 DEF Consistent, RelayInv, ScheduledHasTime, Pending
  <2>6. JobInv'
    BY <2>2 DEF Consistent, JobInv, NoJob
  <2> QED
    BY <2>3, <2>4, <2>5, <2>6 DEF Consistent
<1> QED
  BY <1>1, <1>2, <1>3, <1>4, <1>5, <1>6, <1>7, <1>8, <1>9 DEF ApiStep
-----------------------------------------------------------------------------
\* A step of the relay that touches neither outbox nor job keeps the invariant
\* when what the relay works on is pending.
LEMMA RelayMovesOn ==
  ASSUME Consistent, relay' \in Relay,
         relay'.batch \subseteq Pending, relay'.event \notin relay'.batch,
         relay'.pc \in {"upsert", "add", "mark", "fail"} => relay'.event \in Pending,
         UNCHANGED <<now, post, decisions, req, txClock, proc, outbox>>,
         job' \in Job, job.state = "active" <=> job'.state = "active",
         job'.state \in {"delayed", "waiting", "active"} =>
           job'.attemptsMade < JobAttempts /\ job'.stalls <= MaxStalls,
         faults' \in 0..MaxFaults
  PROVE  Consistent'
<1>1. TypeOK'
  BY DEF TypeOK, Consistent
<1>2. RequestInv' /\ ScheduledHasTime'
  BY DEF RequestInv, ScheduledHasTime, Consistent
<1>3. RelayInv'
  BY DEF RelayInv, Consistent, Pending
<1>4. JobInv'
  BY DEF JobInv, Consistent
<1> QED
  BY <1>1, <1>2, <1>3, <1>4 DEF Consistent

\* Settling the event the relay works on: its row changes, the relay goes on.
LEMMA RelaySettles ==
  ASSUME Consistent, relay.pc \in {"mark", "fail"}, NEW e \in Event,
         e.status # "none",
         e.status = "pending" => e.attempts < OutboxMaxAttempts,
         outbox' = [outbox EXCEPT ![relay.event] = e],
         relay' = [relay EXCEPT !.pc = "next", !.event = NoRequest, !.seen = "missing"],
         UNCHANGED <<now, post, decisions, req, txClock, proc, job, faults>>
  PROVE  Consistent'
<1>1. /\ relay \in Relay /\ relay.event \in Requests
      /\ outbox[relay.event].status \in {"pending", "processed"}
      /\ relay.event \notin relay.batch
  BY DEF Consistent, TypeOK, RelayInv, Pending
<1>2. \A s \in Requests : s # relay.event => outbox'[s] = outbox[s]
  BY DEF Consistent, TypeOK
<1>3. outbox'[relay.event] = e
  BY <1>1 DEF Consistent, TypeOK
<1>4. /\ relay' \in Relay /\ relay'.batch = relay.batch /\ relay'.pc = "next"
      /\ NoRequest \notin relay.batch
  BY <1>1, ConstantsAssumption DEF Relay, JobStates
<1>5. TypeOK'
  BY <1>4 DEF TypeOK, Consistent
<1>6. RequestInv'
  BY <1>1, <1>2, <1>3 DEF RequestInv, Consistent
<1>7. RelayInv'
  BY <1>1, <1>2, <1>3, <1>4 DEF RelayInv, Pending, Consistent
<1>8. JobInv' /\ ScheduledHasTime'
  BY DEF JobInv, ScheduledHasTime, Consistent
<1> QED
  BY <1>5, <1>6, <1>7, <1>8 DEF Consistent

\* The relay marks the event and does not know: it goes to the catch block.
LEMMA RelayMarksUnknowingly ==
  ASSUME Consistent, relay.pc = "mark", outbox' = Marked,
         relay' = [relay EXCEPT !.pc = "fail"], faults' \in 0..MaxFaults,
         UNCHANGED <<now, post, decisions, req, txClock, proc, job>>
  PROVE  Consistent'
<1> DEFINE e == [outbox[relay.event] EXCEPT !.status = "processed"]
<1>1. /\ relay \in Relay /\ relay.event \in Requests
      /\ outbox[relay.event] \in Event /\ outbox[relay.event].status = "pending"
      /\ outbox[relay.event].attempts < OutboxMaxAttempts
      /\ relay.event \notin relay.batch
  BY DEF Consistent, TypeOK, RelayInv, Pending
<1>2. outbox' = [outbox EXCEPT ![relay.event] = e]
  BY DEF Marked
<1>3. e \in Event /\ e.status = "processed" /\ e.attempts = outbox[relay.event].attempts
  BY <1>1 DEF Event
<1> HIDE DEF e
<1>4. /\ outbox'[relay.event] = e
      /\ \A s \in Requests : s # relay.event => outbox'[s] = outbox[s]
  BY <1>1, <1>2 DEF Consistent, TypeOK
<1>5. /\ relay' \in Relay /\ relay'.pc = "fail"
      /\ relay'.batch = relay.batch /\ relay'.event = relay.event
  BY <1>1 DEF Relay
<1>6. TypeOK'
  BY <1>2, <1>3, <1>5 DEF TypeOK, Consistent
<1>7. RequestInv'
  BY <1>1, <1>4 DEF RequestInv, Consistent
<1>8. RelayInv'
  BY <1>1, <1>3, <1>4, <1>5 DEF RelayInv, Pending, Consistent
<1>9. JobInv' /\ ScheduledHasTime'
  BY DEF JobInv, ScheduledHasTime, Consistent
<1> QED
  BY <1>6, <1>7, <1>8, <1>9 DEF Consistent

LEMMA RelayKeepsConsistent ==
  ASSUME Consistent,
         RelayStep \/ RelayCallFails \/ RelayRemoveFails \/ RelayFailUnrecorded
  PROVE  Consistent'
<1> USE DEF relayRest
<1>0. /\ relay \in Relay /\ job \in Job /\ outbox \in [Requests -> Event]
      /\ faults' = faults => faults' \in 0..MaxFaults
      /\ Fault => faults' \in 0..MaxFaults
      /\ NoRequest \notin Requests
  BY ConstantsAssumption DEF Consistent, TypeOK, Fault
<1>a. ASSUME UNCHANGED job
      PROVE  /\ job' \in Job /\ (job.state = "active" <=> job'.state = "active")
             /\ job'.state \in {"delayed", "waiting", "active"} =>
                  job'.attemptsMade < JobAttempts /\ job'.stalls <= MaxStalls
  BY <1>0, <1>a DEF Consistent, JobInv
<1>b. ASSUME UNCHANGED outbox,
             relay.pc \in {"upsert", "add", "mark"},
             NEW pc \in {"upsert", "add", "mark", "fail"},
             relay' = [relay EXCEPT !.pc = pc]
      PROVE  /\ relay' \in Relay
             /\ relay'.batch \subseteq Pending /\ relay'.event \notin relay'.batch
             /\ relay'.event \in Pending
  BY <1>0, <1>b DEF Relay, Consistent, RelayInv
<1>c. ASSUME ChangesDelay, job.state = "delayed", job' = Rescheduled
      PROVE  /\ job' \in Job /\ job'.state = "delayed" /\ relay.pc = "upsert"
             /\ job'.attemptsMade < JobAttempts /\ job'.stalls <= MaxStalls
  <2>1. outbox[relay.event].at \in Time
    BY <1>0, <1>c DEF ChangesDelay, Consistent, RelayInv, Pending, Event
  <2> QED
    BY <1>0, <1>c, <2>1 DEF ChangesDelay, Rescheduled, Job, Consistent, JobInv
<1>d. ASSUME Adds, job' = Added
      PROVE  /\ job' \in Job /\ (job.state = "active" <=> job'.state = "active")
             /\ job'.state \in {"delayed", "waiting", "active"} =>
                  job'.attemptsMade < JobAttempts /\ job'.stalls <= MaxStalls
             /\ relay.pc \in {"upsert", "add"}
  <2> DEFINE at == outbox[relay.event].at
             s  == IF at <= WorkerNow THEN "waiting" ELSE "delayed"
  <2>1. /\ relay.pc \in {"upsert", "add"}
        /\ job' = IF job.state # "missing" THEN job
                  ELSE [NoJob EXCEPT !.due = at, !.state = s]
    BY <1>d DEF Adds, Added
  <2>2. at \in Time /\ s \in {"waiting", "delayed"}
    BY <1>0, <2>1 DEF Consistent, RelayInv, Pending, Event
  <2> HIDE DEF at, s
  <2>3. CASE UNCHANGED job
    BY <1>a, <2>1, <2>3
  <2>4. CASE job.state = "missing" /\ job' = [NoJob EXCEPT !.due = at, !.state = s]
    <3>1. job' \in Job
      BY <2>2, <2>4, NoJobIsJob DEF Job, JobStates
    <3>2. job'.state = s /\ job'.attemptsMade = 0 /\ job'.stalls = 0
      BY <2>4 DEF NoJob
    <3> QED
      BY <2>1, <2>2, <2>4, <3>1, <3>2, ConstantsAssumption
  <2> QED
    BY <2>1, <2>3, <2>4
<1>1. CASE RelaySelect
  <2>1. /\ relay' = [IdleRelay EXCEPT !.pc = "next", !.batch = Batch]
        /\ UNCHANGED <<now, post, decisions, req, txClock, proc, outbox, job, faults>>
    BY <1>1 DEF RelaySelect
  <2>2. Batch \subseteq Pending /\ Batch \subseteq Requests
    BY DEF Batch, Pending
  <2>3. relay' \in Relay /\ relay'.batch = Batch /\ relay'.pc = "next"
        /\ relay'.event \notin relay'.batch
    BY <1>0, <2>1, <2>2 DEF IdleRelay, Relay, JobStates
  <2> QED
    BY <1>0, <1>a, <2>1, <2>2, <2>3, RelayMovesOn
<1>2. CASE RelayLookup
  <2>1. PICK r \in relay.batch :
          relay' = [pc |-> IF job.state = "active" THEN "mark" ELSE "upsert",
                    batch |-> relay.batch \ {r}, event |-> r, seen |-> job.state]
    BY <1>2 DEF RelayLookup
  <2>2. UNCHANGED <<now, post, decisions, req, txClock, proc, outbox, job, faults>>
    BY <1>2 DEF RelayLookup
  <2>3. relay.batch \subseteq Pending /\ relay.batch \subseteq Requests
    BY <1>0 DEF Consistent, RelayInv, Relay
  <2>4. job.state \in JobStates
    BY <1>0 DEF Job
  <2>5. /\ relay' \in Relay /\ relay'.batch \subseteq Pending
        /\ relay'.event \in Pending /\ relay'.event \notin relay'.batch
    BY <2>1, <2>3, <2>4 DEF Relay
  <2> QED
    BY <1>0, <1>a, <2>2, <2>5, RelayMovesOn
<1>3. CASE RelayCycleEnds
  <2>1. /\ relay' = IdleRelay
        /\ UNCHANGED <<now, post, decisions, req, txClock, proc, outbox, job, faults>>
    BY <1>3 DEF RelayCycleEnds
  <2>2. relay' \in Relay /\ relay'.batch = {} /\ relay'.pc = "idle"
    BY <2>1 DEF IdleRelay, Relay, JobStates
  <2> QED
    BY <1>0, <1>a, <2>1, <2>2, RelayMovesOn
<1>4. CASE RelayChangeDelay
  <2>1. /\ ChangesDelay /\ relay.pc = "upsert"
        /\ UNCHANGED <<now, post, decisions, req, txClock, proc, outbox, faults>>
        /\ \E pc \in {"mark", "fail"} : relay' = [relay EXCEPT !.pc = pc]
        /\ UNCHANGED job \/ (job.state = "delayed" /\ job' = Rescheduled)
    BY <1>4 DEF RelayChangeDelay, ChangesDelay
  <2> QED
    BY <1>0, <1>a, <1>b, <1>c, <2>1, RelayMovesOn
<1>5. CASE RelayRemove
  <2>1. /\ relay.pc = "upsert"
        /\ job' = IF job.state = "active" THEN job ELSE NoJob
        /\ relay' = [relay EXCEPT !.pc = "add"]
        /\ UNCHANGED <<now, post, decisions, req, txClock, proc, outbox, faults>>
    BY <1>5 DEF RelayRemove
  <2>2. CASE UNCHANGED job
    BY <1>0, <1>a, <1>b, <2>1, <2>2, RelayMovesOn
  <2>3. CASE job.state # "active" /\ job' = NoJob
    <3>1. job' \in Job /\ job'.state = "missing"
      BY <2>3, NoJobIsJob DEF NoJob
    <3> QED
      BY <1>0, <1>b, <2>1, <2>3, <3>1, RelayMovesOn
  <2> QED
    BY <2>1, <2>2, <2>3
<1>6. CASE RelayAdd
  <2>1. /\ Adds /\ job' = Added /\ relay' = [relay EXCEPT !.pc = "mark"]
        /\ UNCHANGED <<now, post, decisions, req, txClock, proc, outbox, faults>>
    BY <1>6 DEF RelayAdd
  <2> QED
    BY <1>0, <1>b, <1>d, <2>1, RelayMovesOn
<1>7. CASE RelayMark
  <2> DEFINE e == [outbox[relay.event] EXCEPT !.status = "processed"]
  <2>1. /\ relay.pc = "mark"
        /\ outbox' = [outbox EXCEPT ![relay.event] = e]
        /\ relay' = [relay EXCEPT !.pc = "next", !.event = NoRequest, !.seen = "missing"]
        /\ UNCHANGED <<now, post, decisions, req, txClock, proc, job, faults>>
    BY <1>7 DEF RelayMark, Marked
  <2>2. relay.event \in Requests
    BY <2>1 DEF Consistent, RelayInv, Pending
  <2>3. e \in Event /\ e.status = "processed"
    BY <1>0, <2>2 DEF Event
  <2> HIDE DEF e
  <2> QED
    BY <2>1, <2>3, RelaySettles
<1>8. CASE RelayFail
  <2> DEFINE n == outbox[relay.event].attempts + 1
             st == AfterFailure(n)
             e == [outbox[relay.event] EXCEPT !.attempts = n, !.status = st]
  <2>1. /\ relay.pc = "fail"
        /\ outbox' = [outbox EXCEPT ![relay.event] = e]
        /\ relay' = [relay EXCEPT !.pc = "next", !.event = NoRequest, !.seen = "missing"]
        /\ UNCHANGED <<now, post, decisions, req, txClock, proc, job, faults>>
    BY <1>8 DEF RelayFail
  <2>2. relay.event \in Requests /\ outbox[relay.event] \in Event
        /\ outbox[relay.event].attempts < OutboxMaxAttempts
        /\ outbox[relay.event].status \in {"pending", "processed"}
    BY <1>0, <2>1 DEF Consistent, RelayInv
  <2>3. n \in 0..OutboxMaxAttempts
    BY <2>2, ConstantsAssumption DEF Event
  <2>4. /\ st \in {"pending", "processed", "failed"}
        /\ st = "pending" => n < OutboxMaxAttempts
    BY <2>2, <2>3, ConstantsAssumption DEF AfterFailure
  <2> HIDE DEF n, st
  <2>5. e \in Event /\ e.status = st /\ e.attempts = n
    BY <2>2, <2>3, <2>4 DEF Event
  <2> HIDE DEF e
  <2> QED
    BY <2>1, <2>4, <2>5, RelaySettles
<1>9. CASE RelayCallFails
  <2>1. /\ relay.pc \in {"upsert", "add", "mark"} /\ faults' \in 0..MaxFaults
        /\ relay' = [relay EXCEPT !.pc = "fail"]
        /\ UNCHANGED <<now, post, decisions, req, txClock, proc>>
        /\ \/ UNCHANGED <<job, outbox>>
           \/ ChangesDelay /\ job.state = "delayed" /\ job' = Rescheduled /\ UNCHANGED outbox
           \/ Adds /\ job' = Added /\ UNCHANGED outbox
           \/ relay.pc = "mark" /\ outbox' = Marked /\ UNCHANGED job
    BY <1>0, <1>9 DEF RelayCallFails
  <2>2. CASE UNCHANGED <<job, outbox>>
    BY <1>0, <1>a, <1>b, <2>1, <2>2, RelayMovesOn
  <2>3. CASE ChangesDelay /\ job.state = "delayed" /\ job' = Rescheduled /\ UNCHANGED outbox
    BY <1>0, <1>b, <1>c, <2>1, <2>3, RelayMovesOn
  <2>4. CASE Adds /\ job' = Added /\ UNCHANGED outbox
    BY <1>0, <1>b, <1>d, <2>1, <2>4, RelayMovesOn
  <2>5. CASE relay.pc = "mark" /\ outbox' = Marked /\ UNCHANGED job
    BY <2>1, <2>5, RelayMarksUnknowingly
  <2> QED
    BY <2>1, <2>2, <2>3, <2>4, <2>5
<1>10. CASE RelayFailUnrecorded
  <2>1. /\ relay' = [relay EXCEPT !.pc = "next", !.event = NoRequest, !.seen = "missing"]
        /\ Fault /\ UNCHANGED <<now, post, decisions, req, txClock, proc, outbox, job>>
    BY <1>10 DEF RelayFailUnrecorded
  <2>2. /\ relay' \in Relay /\ relay'.batch \subseteq Pending
        /\ relay'.pc = "next" /\ relay'.event \notin relay'.batch
    BY <1>0, <2>1 DEF Relay, Consistent, RelayInv, JobStates
  <2> QED
    BY <1>0, <1>a, <2>1, <2>2, RelayMovesOn
<1>11. CASE RelayRemoveFails
  <2>1. /\ relay.pc = "upsert" /\ relay' = [relay EXCEPT !.pc = "add"]
        /\ Fault /\ UNCHANGED <<now, post, decisions, req, txClock, proc, outbox, job>>
    BY <1>11 DEF RelayRemoveFails
  <2> QED
    BY <1>0, <1>a, <1>b, <2>1, RelayMovesOn
<1> QED
  BY <1>1, <1>2, <1>3, <1>4, <1>5, <1>6, <1>7, <1>8, <1>9, <1>10, <1>11 DEF RelayStep

\* The row the UPDATE of the processor leaves.
LEMMA PublishedIsRow ==
  ASSUME Consistent
  PROVE  /\ WorkerStamp \in Nat
         /\ Published \in PostRow
         /\ Published.status = "absent" => post.status = "absent"
         /\ (Published.status = "scheduled") <=> (Published.scheduledAt # NoTime)
         /\ Published.deleted = post.deleted
         /\ CasMatches =>
              /\ Published.status = "published" /\ Published.scheduledAt = NoTime
              /\ Published.publishedAt = WorkerStamp
         /\ ~CasMatches => Published = post
<1>1. WorkerStamp \in Nat
  BY ConstantsAssumption DEF WorkerStamp, WorkerNow, Consistent, TypeOK, Clock
<1>2. post \in PostRow /\ ScheduledHasTime
  BY DEF Consistent, TypeOK
<1> HIDE DEF WorkerStamp
<1> QED
  BY <1>1, <1>2 DEF Published, CasMatches, PostRow, Statuses, Time, ScheduledHasTime

LEMMA ProcKeepsConsistent ==
  ASSUME Consistent, QueueStep \/ ProcStep \/ ProcCallFails \/ WorkerDies
  PROVE  Consistent'
<1> USE DEF procRest
<1>0. /\ job \in Job /\ proc \in Proc /\ post \in PostRow /\ relay \in Relay
      /\ now \in Clock /\ decisions \in Nat
      /\ faults' = faults => faults' \in 0..MaxFaults
      /\ Fault => faults' \in 0..MaxFaults
  BY ConstantsAssumption DEF Consistent, TypeOK, Fault
<1>1. ASSUME UNCHANGED <<now, req, txClock, outbox, relay, post, decisions>>,
             job' \in Job, proc' \in Proc, JobInv', faults' \in 0..MaxFaults
      PROVE  Consistent'
  <2>1. TypeOK'
    BY <1>1 DEF TypeOK, Consistent
  <2>2. RequestInv' /\ RelayInv' /\ ScheduledHasTime'
    BY <1>1 DEF RequestInv, RelayInv, ScheduledHasTime, Consistent, Pending
  <2> QED
    BY <1>1, <2>1, <2>2 DEF Consistent
<1>2. CASE Promote
  <2>1. job' \in Job /\ proc' \in Proc /\ JobInv'
    BY <1>0, <1>2 DEF Promote, Job, JobStates, Consistent, JobInv
  <2> QED
    BY <1>0, <1>1, <1>2, <2>1 DEF Promote
<1>3. CASE PickUp
  <2>1. job' \in Job /\ JobInv'
    BY <1>0, <1>3 DEF PickUp, Job, JobStates, Consistent, JobInv
  <2>2. proc' \in Proc
    BY <1>3 DEF PickUp, IdleProc, Proc, Time, NoTime
  <2> QED
    BY <1>0, <1>1, <1>3, <2>1, <2>2 DEF PickUp
<1>4. CASE StallCheck
  <2> DEFINE s == IF job.stalls < MaxStalls THEN "waiting" ELSE "failed"
             n == job.stalls + 1
  <2>1. /\ job.state = "active" /\ proc.pc = "idle"
        /\ job' = [job EXCEPT !.stalls = n, !.state = s]
        /\ UNCHANGED <<now, req, txClock, outbox, relay, post, decisions, proc, faults>>
    BY <1>4 DEF StallCheck
  <2>2. job.stalls <= MaxStalls /\ job.attemptsMade < JobAttempts
    BY <2>1 DEF Consistent, JobInv
  <2>3. /\ n \in 0..(MaxStalls + 1) /\ s \in {"waiting", "failed"}
        /\ s = "waiting" => n <= MaxStalls
    BY <1>0, <2>2, ConstantsAssumption DEF Job
  <2> HIDE DEF s, n
  <2>4. job' \in Job /\ job'.state = s /\ job'.stalls = n
        /\ job'.attemptsMade = job.attemptsMade
    BY <1>0, <2>1, <2>3 DEF Job, JobStates
  <2>5. JobInv' /\ proc' \in Proc
    BY <1>0, <2>1, <2>2, <2>3, <2>4 DEF JobInv
  <2> QED
    BY <1>0, <1>1, <2>1, <2>4, <2>5
<1>5. CASE ProcFetch
  <2>1. Verdict(post) \in {"finish", "throw", "redelay", "cas"}
    BY DEF Verdict
  <2>2. proc' \in Proc
    BY <1>0, <1>5, <2>1 DEF ProcFetch, Proc, PostRow
  <2>3. job' \in Job /\ JobInv'
    BY <1>0, <1>5 DEF ProcFetch, Consistent, JobInv
  <2> QED
    BY <1>0, <1>1, <1>5, <2>2, <2>3 DEF ProcFetch
<1>6. CASE ProcRedelay
  <2>1. job' \in Job /\ JobInv'
    BY <1>0, <1>6 DEF ProcRedelay, IdleProc, Proc, Job, JobStates, Consistent, JobInv
  <2>2. proc' \in Proc
    BY <1>6 DEF ProcRedelay, IdleProc, Proc, Time, NoTime
  <2> QED
    BY <1>0, <1>1, <1>6, <2>1, <2>2 DEF ProcRedelay
<1>a. ASSUME proc.pc = "cas", post' = Published, NEW pc \in {"finish", "throw"},
             proc' = [proc EXCEPT !.pc = pc], faults' \in 0..MaxFaults,
             UNCHANGED <<now, req, txClock, outbox, relay, decisions, job>>
      PROVE  Consistent'
  <2>1. proc' \in Proc
    BY <1>0, <1>a DEF Proc
  <2>2. TypeOK'
    BY <1>a, <2>1, PublishedIsRow DEF TypeOK, Consistent
  <2>3. RequestInv' /\ RelayInv' /\ ScheduledHasTime'
    BY <1>a, PublishedIsRow
       DEF RequestInv, RelayInv, ScheduledHasTime, Consistent, Pending
  <2>4. JobInv'
    BY <1>a DEF JobInv, Consistent
  <2> QED
    BY <2>2, <2>3, <2>4 DEF Consistent
<1>7. CASE ProcPublish
  BY <1>0, <1>7, <1>a DEF ProcPublish
<1>8. CASE ProcFinish
  <2>1. job' \in Job /\ proc' \in Proc /\ JobInv'
    BY <1>0, <1>8 DEF ProcFinish, IdleProc, Proc, Job, JobStates, JobInv, Time, NoTime
  <2> QED
    BY <1>0, <1>1, <1>8, <2>1 DEF ProcFinish
<1>9. CASE ProcThrow
  <2> DEFINE n == job.attemptsMade + 1
             s == AfterThrow(n)
  <2>1. /\ proc.pc = "throw"
        /\ job' = [job EXCEPT !.attemptsMade = n, !.state = s, !.due = now]
        /\ proc' = IdleProc
        /\ UNCHANGED <<now, req, txClock, outbox, relay, post, decisions, faults>>
    BY <1>9 DEF ProcThrow
  <2>2. job.stalls <= MaxStalls /\ job.attemptsMade < JobAttempts
    BY <2>1 DEF Consistent, JobInv
  <2>3. /\ n \in 0..JobAttempts /\ s \in {"delayed", "failed"}
        /\ s = "delayed" => n < JobAttempts
    BY <1>0, <2>2, ConstantsAssumption DEF Job, AfterThrow
  <2> HIDE DEF s, n
  <2>4. job' \in Job /\ job'.state = s /\ job'.attemptsMade = n
        /\ job'.stalls = job.stalls
    BY <1>0, <2>1, <2>3 DEF Job, JobStates, Time
  <2>5. JobInv' /\ proc' \in Proc
    BY <2>1, <2>2, <2>3, <2>4 DEF JobInv, IdleProc, Proc, Time, NoTime
  <2> QED
    BY <1>0, <1>1, <2>1, <2>4, <2>5
<1>10. CASE ProcCallFails
  <2>1. /\ proc.pc \in {"fetch", "redelay", "cas"}
        /\ proc' = [proc EXCEPT !.pc = "throw"] /\ faults' \in 0..MaxFaults
        /\ UNCHANGED post \/ (proc.pc = "cas" /\ post' = Published)
        /\ UNCHANGED <<now, req, txClock, outbox, relay, decisions, job>>
    BY <1>0, <1>10 DEF ProcCallFails
  <2>2. CASE UNCHANGED post
    <3>1. job' \in Job /\ proc' \in Proc /\ JobInv'
      BY <1>0, <2>1 DEF Proc, Consistent, JobInv
    <3> QED
      BY <1>1, <2>1, <2>2, <3>1
  <2> QED
    BY <1>a, <2>1, <2>2
<1>11. CASE WorkerDies
  <2>1. /\ relay' = IdleRelay /\ proc' = IdleProc /\ faults' \in 0..MaxFaults
        /\ UNCHANGED <<now, post, decisions, req, txClock, outbox, job>>
    BY <1>0, <1>11 DEF WorkerDies
  <2>2. relay' \in Relay /\ proc' \in Proc
    BY <2>1 DEF IdleRelay, IdleProc, Relay, Proc, JobStates, Time, NoTime
  <2>3. TypeOK'
    BY <2>1, <2>2 DEF TypeOK, Consistent
  <2>4. RequestInv' /\ RelayInv' /\ JobInv' /\ ScheduledHasTime'
    BY <2>1 DEF RequestInv, RelayInv, JobInv, ScheduledHasTime, Consistent, Pending,
                IdleRelay, IdleProc
  <2> QED
    BY <2>3, <2>4 DEF Consistent
<1> QED
  BY <1>2, <1>3, <1>4, <1>5, <1>6, <1>7, <1>8, <1>9, <1>10, <1>11
     DEF QueueStep, ProcStep

LEMMA NextKeepsConsistent ==
  ASSUME Consistent, [Next]_vars
  PROVE  Consistent'
<1>1. CASE Tick
  <2>1. TypeOK'
    BY <1>1, ConstantsAssumption DEF Tick, Consistent, TypeOK, Clock
  <2>2. RequestInv' /\ RelayInv' /\ JobInv' /\ ScheduledHasTime'
    BY <1>1 DEF Tick, RequestInv, RelayInv, JobInv, ScheduledHasTime, Consistent, Pending
  <2> QED
    BY <2>1, <2>2 DEF Consistent
<1>2. CASE ApiStep
  BY <1>2, ApiKeepsConsistent
<1>3. CASE RelayStep \/ RelayCallFails \/ RelayRemoveFails \/ RelayFailUnrecorded
  BY <1>3, RelayKeepsConsistent
<1>4. CASE QueueStep \/ ProcStep \/ ProcCallFails \/ WorkerDies
  BY <1>4, ProcKeepsConsistent
<1>5. CASE UNCHANGED vars
  <2>1. TypeOK'
    BY <1>5 DEF vars, Consistent, TypeOK
  <2>2. RequestInv' /\ RelayInv' /\ JobInv' /\ ScheduledHasTime'
    BY <1>5 DEF vars, RequestInv, RelayInv, JobInv, ScheduledHasTime, Consistent, Pending
  <2> QED
    BY <2>1, <2>2 DEF Consistent
<1> QED
  BY <1>1, <1>2, <1>3, <1>4, <1>5 DEF Next, FaultStep

(***************************************************************************)
(* Consistent holds in every reachable state: each variable keeps its      *)
(* type, the relay and the processor work on what they may work on, and a  *)
(* post is scheduled exactly when it has a time, whatever requests, relay, *)
(* queue and processor interleave and whichever calls fail (posts.service, *)
(* outbox-relay, postPublish).                                             *)
(***************************************************************************)
THEOREM ConsistentAlways == SafeSpec => []Consistent
<1>1. Init => Consistent
  BY InitConsistent
<1>2. Consistent /\ [Next]_vars => Consistent'
  BY NextKeepsConsistent
<1> QED
  BY <1>1, <1>2, PTL DEF SafeSpec

(***************************************************************************)
(* A post is scheduled exactly when it has a scheduled_at: the "data       *)
(* integrity issue" postPublish.ts throws about is unreachable.            *)
(***************************************************************************)
THEOREM ScheduledHasTimeAlways == SafeSpec => []ScheduledHasTime
<1>1. Consistent => ScheduledHasTime
  BY DEF Consistent
<1> QED
  BY <1>1, ConsistentAlways, PTL

-----------------------------------------------------------------------------
LEMMA InitIsLifecycleInit == Init => Lifecycle!Init
BY DEF Init, NoPost, Lifecycle!Init, NoTime, Lifecycle!NoTime

\* A step that leaves the post, the clock and the count of decisions alone is a
\* stutter of the lifecycle.
LEMMA OtherStepsStutter ==
  ASSUME UNCHANGED <<now, post, decisions>>
  PROVE  UNCHANGED Lifecycle!lifecycleVars
BY DEF Lifecycle!lifecycleVars

LEMMA StepIsLifecycleStep ==
  ASSUME Consistent, [Next]_vars
  PROVE  [Lifecycle!Next]_(Lifecycle!lifecycleVars)
<1> USE DEF NoTime, Lifecycle!NoTime, Statuses, Lifecycle!Statuses,
            Time, Lifecycle!Time, Clock, Lifecycle!Clock
<1>1. CASE Tick
  <2>1. Lifecycle!Tick
    BY <1>1 DEF Tick, Lifecycle!Tick
  <2> QED
    BY <2>1 DEF Lifecycle!Next
<1>2. ASSUME NEW r \in Requests, NEW body \in Bodies, NEW t \in Time,
             CreatePost(r, body, t)
      PROVE  Lifecycle!Decide(ParsedStatus(body), t)
  <2>1. /\ (ParsedStatus(body) = "scheduled") <=> (t # NoTime)
        /\ post' = [status |-> ParsedStatus(body), scheduledAt |-> t, deleted |-> FALSE,
                    publishedAt |-> IF ParsedStatus(body) = "published"
                                    THEN now ELSE NoTime]
        /\ decisions' = decisions + 1 /\ now' = now
    BY <1>2 DEF CreatePost, ValidBody, NoPost
  <2>2. ~post.deleted
    BY <1>2 DEF CreatePost, NoPost
  <2>3. post'.status = ParsedStatus(body) /\ post'.scheduledAt = t /\ ~post'.deleted
    BY <2>1
  <2>4. post'.deleted = post.deleted
    BY <1>2, <2>1 DEF CreatePost, NoPost
  <2> QED
    BY <2>1, <2>2, <2>3, <2>4 DEF Lifecycle!Decide
<1>3. ASSUME NEW r \in Requests, WriteUpdate(r), now' = now
      PROVE  /\ Lifecycle!Decide(req[r].status, req[r].at)
             /\ req[r].status \in Statuses /\ req[r].at \in Time
  <2>1. req[r] \in Request /\ post \in PostRow
    BY DEF Consistent, TypeOK
  <2>2. /\ req[r].status \in Statuses
        /\ (req[r].status = "scheduled") <=> (req[r].at # NoTime)
    BY <1>3 DEF WriteUpdate, Consistent, RequestInv
  <2>3. /\ ~post.deleted /\ post' = PatchedRow(r)
        /\ decisions' = decisions + 1 /\ now' = now
    BY <1>3 DEF WriteUpdate
  <2>4. /\ post'.status = req[r].status /\ post'.scheduledAt = req[r].at
        /\ post'.deleted = post.deleted
    BY <2>1, <2>3 DEF PatchedRow, PostRow
  <2>5. req[r].at \in Time
    BY <2>1 DEF Request
  <2> QED
    BY <2>2, <2>3, <2>4, <2>5 DEF Lifecycle!Decide
<1>4. ASSUME NEW r \in Requests, WriteDelete(r), now' = now
      PROVE  Lifecycle!Delete
  <2>1. post \in PostRow /\ post.status # "absent"
    BY <1>4 DEF WriteDelete, Consistent, TypeOK, RequestInv
  <2>2. /\ ~post.deleted /\ post' = [post EXCEPT !.deleted = TRUE]
        /\ decisions' = decisions + 1 /\ now' = now
    BY <1>4 DEF WriteDelete
  <2>3. /\ post'.status = post.status /\ post'.scheduledAt = post.scheduledAt
        /\ post'.deleted = TRUE
    BY <2>1, <2>2 DEF PostRow
  <2> QED
    BY <2>1, <2>2, <2>3 DEF Lifecycle!Delete
<1>5. CASE ApiStep
  <2>1. PICK r \in Requests :
          \/ \E body \in Bodies, t \in Time :
               CreatePost(r, body, t) \/ SubmitUpdate(r, body, t)
          \/ SubmitDelete(r) \/ BeginTx(r) \/ CommitUpdate(r) \/ CommitDelete(r)
          \/ WriteMatchesNothing(r) \/ CancelLookup(r) \/ CancelRemove(r)
          \/ RequestDies(r)
    BY <1>5 DEF ApiStep
  <2>2. CASE \E body \in Bodies, t \in Time : CreatePost(r, body, t)
    <3>1. PICK body \in Bodies, t \in Time : CreatePost(r, body, t)
      BY <2>2
    <3>2. Lifecycle!Decide(ParsedStatus(body), t)
      BY <1>2, <3>1
    <3>3. ParsedStatus(body) \in Lifecycle!Statuses /\ t \in Lifecycle!Time
      BY ParsedStatusIsStatus
    <3> QED
      BY <3>2, <3>3 DEF Lifecycle!Next
  <2>3. CASE WriteUpdate(r) /\ now' = now
    <3>1. /\ req[r].status \in Lifecycle!Statuses /\ req[r].at \in Lifecycle!Time
          /\ Lifecycle!Decide(req[r].status, req[r].at)
      BY <1>3, <2>3
    <3> QED
      BY <3>1 DEF Lifecycle!Next
  <2>4. CASE WriteDelete(r) /\ now' = now
    <3>1. Lifecycle!Delete
      BY <1>4, <2>4
    <3> QED
      BY <3>1 DEF Lifecycle!Next
  <2>5. CASE \/ \E body \in Bodies, t \in Time : SubmitUpdate(r, body, t)
             \/ SubmitDelete(r) \/ BeginTx(r) \/ WriteMatchesNothing(r)
             \/ CancelLookup(r) \/ CancelRemove(r)
             \/ UNCHANGED <<now, post, decisions>>
    <3>1. UNCHANGED <<now, post, decisions>>
      BY <2>5 DEF SubmitUpdate, SubmitDelete, BeginTx, WriteMatchesNothing,
                  CancelLookup, CancelRemove
    <3> QED
      BY <3>1, OtherStepsStutter
  <2>6. /\ CommitUpdate(r) => WriteUpdate(r) /\ now' = now
        /\ CommitDelete(r) => WriteDelete(r) /\ now' = now
        /\ RequestDies(r) => /\ now' = now
                             /\ \/ UNCHANGED <<post, decisions>>
                                \/ WriteUpdate(r) \/ WriteDelete(r)
    BY DEF CommitUpdate, CommitDelete, RequestDies
  <2> QED
    BY <2>1, <2>2, <2>3, <2>4, <2>5, <2>6
<1>6. CASE post' = Published /\ UNCHANGED <<now, decisions>>
  <2>2. CASE CasMatches
    <3>1. /\ post.status = "scheduled" /\ ~post.deleted
          /\ post.scheduledAt # NoTime /\ post.scheduledAt <= now
          /\ decisions' = decisions /\ now' = now
      BY <1>6, <2>2 DEF CasMatches, Due
    <3>2. /\ post'.status = "published" /\ post'.scheduledAt = NoTime
          /\ post'.deleted = post.deleted
      BY <1>6, <2>2, PublishedIsRow
    <3>3. Lifecycle!AutoPublish
      BY <3>1, <3>2 DEF Lifecycle!AutoPublish, Lifecycle!Due
    <3> QED
      BY <3>3 DEF Lifecycle!Next
  <2>3. CASE ~CasMatches
    BY <1>6, <2>3, PublishedIsRow, OtherStepsStutter
  <2> QED
    BY <2>2, <2>3
<1>7. CASE RelayStep \/ RelayCallFails \/ RelayRemoveFails \/ RelayFailUnrecorded
  <2>1. UNCHANGED <<now, post, decisions>>
    BY <1>7 DEF RelayStep, RelaySelect, RelayLookup, RelayCycleEnds, RelayChangeDelay,
                RelayRemove, RelayAdd, RelayMark, RelayFail, RelayCallFails,
                RelayRemoveFails, RelayFailUnrecorded, relayRest
  <2> QED
    BY <2>1, OtherStepsStutter
<1>8. CASE \/ QueueStep \/ ProcFetch \/ ProcRedelay \/ ProcFinish \/ ProcThrow
           \/ WorkerDies \/ UNCHANGED <<now, post, decisions>>
  <2>1. UNCHANGED <<now, post, decisions>>
    BY <1>8 DEF QueueStep, Promote, PickUp, StallCheck, ProcFetch, ProcRedelay,
                ProcFinish, ProcThrow, WorkerDies, procRest
  <2> QED
    BY <2>1, OtherStepsStutter
<1>9. CASE UNCHANGED vars
  BY <1>9, OtherStepsStutter DEF vars
<1>10. ProcPublish \/ ProcCallFails =>
         UNCHANGED <<now, decisions>> /\ (UNCHANGED post \/ post' = Published)
  BY DEF ProcPublish, ProcCallFails, procRest
<1> QED
  BY <1>1, <1>5, <1>6, <1>7, <1>8, <1>9, <1>10 DEF Next, ProcStep, FaultStep

(***************************************************************************)
(* Every run of the pipeline is a run of PostLifecycle: whatever fails,    *)
(* whatever outdated job fires, the worker publishes nothing but a post    *)
(* that is scheduled, not deleted and due at that moment; all other        *)
(* changes of the row are decisions of administrators, and a deleted post  *)
(* never changes again.                                                    *)
(***************************************************************************)
THEOREM LifecycleSafe == SafeSpec => LifecycleSafety
<1>1. Init => Lifecycle!Init
  BY InitIsLifecycleInit
<1>2. Consistent /\ [Next]_vars => [Lifecycle!Next]_(Lifecycle!lifecycleVars)
  BY StepIsLifecycleStep
<1> QED
  BY <1>1, <1>2, ConsistentAlways, PTL DEF SafeSpec, LifecycleSafety, Lifecycle!SafeSpec

-----------------------------------------------------------------------------
(***************************************************************************)
(* Requests one at a time.                                                 *)
(***************************************************************************)

VisibleInv == StampInv /\ PublishedIsVisible

\* A bound that leaves room for one leaves none while there is one.
LEMMA NoneOfOne ==
  ASSUME NEW S \in SUBSET Requests, Cardinality(S) < 1
  PROVE  S = {}
<1>1. IsFiniteSet(S) /\ Cardinality(S) \in Nat
  BY ConstantsAssumption, FS_Subset, FS_CardinalityType DEF ConstantsAssumption
<1>2. Cardinality(S) = 0
  BY <1>1
<1> QED  BY <1>1, <1>2, FS_EmptySet

\* A step that leaves requests and post alone.
LEMMA VisibleWaits ==
  ASSUME Consistent, VisibleInv, UNCHANGED <<post, req>>, now' \in Clock, now' >= now
  PROVE  VisibleInv'
<1>1. now \in Int /\ now' \in Int
  BY ConstantsAssumption DEF Consistent, TypeOK, Clock, ConstantsAssumption
<1>2. ASSUME NEW t \in Nat \cup {NoTime}, Due(t, now) PROVE Due(t, now')
  BY <1>1, <1>2 DEF Due, NoTime
<1>3. /\ post.publishedAt \in Nat \cup {NoTime}
      /\ \A r \in Requests : req[r].stamp \in Nat \cup {NoTime}
  BY DEF Consistent, TypeOK, PostRow, Request, Time, Clock
<1>4. PublishedIsVisible'
  BY <1>2, <1>3 DEF VisibleInv, PublishedIsVisible
<1>5. post'.publishedAt # NoTime => post'.publishedAt <= now'
  BY <1>2, <1>3 DEF VisibleInv, StampInv, Due
<1>6. StampInv'
  BY <1>2, <1>3, <1>5 DEF VisibleInv, StampInv, InFlight
<1> QED  BY <1>4, <1>6 DEF VisibleInv

\* A step of request r, which is the only one in flight or ends here.
LEMMA VisibleMoves ==
  ASSUME Consistent, VisibleInv, NEW r \in Requests, NEW q \in Request,
         req' = [req EXCEPT ![r] = q], UNCHANGED now,
         r \in InFlight \/ InFlight = {} \/ q.pc = "done",
         post'.publishedAt # NoTime => post'.publishedAt <= now,
         post'.status = "published" => post'.publishedAt # NoTime,
         \/ post'.publishedAt = post.publishedAt
         \/ \A p \in Requests \ {r} : req[p].pc \notin {"read", "begun"},
         q.pc \in {"read", "begun"} /\ q.seenPublished => post'.publishedAt # NoTime,
         q.pc = "begun" =>
           /\ q.publishedAt = "stamp" => Due(q.stamp, now)
           /\ q.status = "published" =>
                q.publishedAt = "stamp" \/ (q.publishedAt = "keep" /\ q.seenPublished)
  PROVE  VisibleInv'
<1>1. /\ req'[r] = q
      /\ \A p \in Requests \ {r} : req'[p] = req[p]
  BY DEF Consistent, TypeOK
<1>2. \A p, s \in InFlight' : p = s
  <2>1. \A p \in Requests \ {r} : p \in InFlight' => p \in InFlight
    BY <1>1 DEF InFlight
  <2>2. \A p, s \in InFlight : p = s
    BY DEF VisibleInv, StampInv
  <2>3. CASE q.pc = "done"
    <3>1. r \notin InFlight'
      BY <1>1, <2>3 DEF InFlight
    <3>2. InFlight' \subseteq InFlight
      BY <2>1, <3>1 DEF InFlight
    <3> QED  BY <2>2, <3>2
  <2>4. CASE r \in InFlight \/ InFlight = {}
    <3>1. \A p \in InFlight : p = r
      BY <2>2, <2>4
    <3>2. \A p \in InFlight' : p = r
      BY <2>1, <3>1 DEF InFlight
    <3> QED  BY <3>2
  <2> QED  BY <2>3, <2>4
<1>3. ASSUME NEW p \in Requests
      PROVE  /\ req'[p].pc \in {"read", "begun"} /\ req'[p].seenPublished => post'.publishedAt # NoTime
             /\ req'[p].pc = "begun" =>
                  /\ req'[p].publishedAt = "stamp" => Due(req'[p].stamp, now')
                  /\ req'[p].status = "published" =>
                       \/ req'[p].publishedAt = "stamp"
                       \/ req'[p].publishedAt = "keep" /\ req'[p].seenPublished
  <2>1. CASE p = r
    BY <1>1, <2>1
  <2>2. CASE p # r
    BY <1>1, <2>2 DEF VisibleInv, StampInv
  <2> QED  BY <2>1, <2>2
<1>4. StampInv'
  BY <1>2, <1>3 DEF StampInv
<1> QED  BY <1>4 DEF VisibleInv, PublishedIsVisible, Due

LEMMA ApiKeepsVisible ==
  ASSUME MaxInFlight = 1, Consistent, VisibleInv, ApiStep
  PROVE  VisibleInv'
<1> USE DEF workerVars
<1>0. /\ post \in PostRow /\ req \in [Requests -> Request]
      /\ post.publishedAt # NoTime => post.publishedAt <= now
      /\ post.status = "published" => post.publishedAt # NoTime
      /\ now \in Nat /\ now # NoTime /\ now \in Time
  BY ConstantsAssumption
     DEF Consistent, TypeOK, VisibleInv, StampInv, PublishedIsVisible, Due, Clock, Time, NoTime,
         ConstantsAssumption
<1>1. ASSUME Cardinality(InFlight) < MaxInFlight PROVE InFlight = {}
  BY <1>1, NoneOfOne DEF InFlight
<1>2. ASSUME NEW r \in Requests, NEW body \in Bodies, NEW t \in Time, CreatePost(r, body, t)
      PROVE  VisibleInv'
  <2> DEFINE s == ParsedStatus(body)
  <2>1. s \in Statuses
    BY ParsedStatusIsStatus
  <2>2. /\ post = NoPost /\ UNCHANGED now
        /\ post' = [status |-> s, scheduledAt |-> t, deleted |-> FALSE,
                    publishedAt |-> IF s = "published" THEN now ELSE NoTime]
        /\ req' = [req EXCEPT ![r] = Served(s)]
    BY <1>2 DEF CreatePost
  <2>3. Served(s) \in Request /\ Served(s).pc = "done"
    BY <2>1, ServedIsRequest
  <2>4. \A p \in Requests : req[p].pc \notin {"read", "begun"}
    BY <2>2 DEF Consistent, RequestInv, NoPost
  <2>5. /\ post'.status = s
        /\ post'.publishedAt = IF s = "published" THEN now ELSE NoTime
    BY <2>2
  <2>6. /\ post'.publishedAt # NoTime => post'.publishedAt <= now
        /\ post'.status = "published" => post'.publishedAt # NoTime
    BY <1>0, <2>5
  <2> HIDE DEF s
  <2> QED  BY <2>2, <2>3, <2>4, <2>6, VisibleMoves
<1>3. ASSUME NEW r \in Requests, NEW body \in Bodies, NEW t \in Time, SubmitUpdate(r, body, t)
      PROVE  VisibleInv'
  <2> DEFINE b == post.publishedAt # NoTime
             q == [NewRequest EXCEPT !.pc = "read",
               !.kind = "update", !.body = body, !.status = ParsedStatus(body),
               !.at = t, !.seenStatus = post.status, !.seenPublished = b]
  <2>1. ParsedStatus(body) \in Statuses /\ body \in Statuses \cup {"absent"}
    BY ParsedStatusIsStatus, ConstantsAssumption DEF Statuses, ConstantsAssumption
  <2>2. post.status \in Statuses \cup {"absent"} /\ b \in BOOLEAN
    BY <1>0 DEF PostRow
  <2>3. NewRequest \in Request
    BY DEF NewRequest, Request, Statuses, Time, Clock, NoTime
  <2>4. /\ req' = [req EXCEPT ![r] = q] /\ InFlight = {} /\ UNCHANGED <<now, post>>
    BY <1>1, <1>3 DEF SubmitUpdate
  <2> HIDE DEF b
  <2>5. q \in Request /\ q.pc = "read" /\ q.seenPublished = b
    BY <2>1, <2>2, <2>3 DEF Request
  <2>6. b => post.publishedAt # NoTime
    BY DEF b
  <2> HIDE DEF q
  <2> QED  BY <1>0, <2>4, <2>5, <2>6, VisibleMoves
<1>4. ASSUME NEW r \in Requests, SubmitDelete(r) PROVE VisibleInv'
  <2> DEFINE q == [NewRequest EXCEPT !.pc = "read", !.kind = "delete",
                                     !.seenStatus = post.status]
  <2>1. q \in Request /\ q.pc = "read" /\ q.seenPublished = FALSE
    BY <1>0 DEF NewRequest, Request, Statuses, Time, Clock, NoTime, PostRow
  <2>2. /\ req' = [req EXCEPT ![r] = q] /\ InFlight = {} /\ UNCHANGED <<now, post>>
    BY <1>1, <1>4 DEF SubmitDelete
  <2> HIDE DEF q
  <2> QED  BY <1>0, <2>1, <2>2, VisibleMoves
<1>5. ASSUME NEW r \in Requests, BeginTx(r) PROVE VisibleInv'
  <2> DEFINE n == txClock + 1
             q == [req[r] EXCEPT !.pc = "begun", !.order = n,
                     !.stamp = now, !.publishedAt = PatchedPublishedAt(r)]
  <2>1. /\ PatchedPublishedAt(r) \in {"keep", "stamp", "clear"}
        /\ req[r].status = "published" =>
             \/ PatchedPublishedAt(r) = "stamp"
             \/ PatchedPublishedAt(r) = "keep" /\ req[r].seenPublished
    BY DEF PatchedPublishedAt
  <2>2. req[r] \in Request /\ n \in Nat
    BY <1>0 DEF Consistent, TypeOK
  <2>3. /\ req' = [req EXCEPT ![r] = q] /\ req[r].pc = "read" /\ UNCHANGED <<now, post>>
        /\ r \in InFlight
    BY <1>5 DEF BeginTx, InFlight
  <2> HIDE DEF n
  <2>4. /\ q \in Request /\ q.pc = "begun" /\ q.status = req[r].status /\ q.stamp = now
        /\ q.publishedAt = PatchedPublishedAt(r) /\ q.seenPublished = req[r].seenPublished
    BY <1>0, <2>1, <2>2 DEF Request
  <2>5. Due(q.stamp, now)
    BY <1>0, <2>4 DEF Due
  <2>6. q.seenPublished => post.publishedAt # NoTime
    BY <2>3, <2>4 DEF VisibleInv, StampInv
  <2> HIDE DEF q
  <2> QED  BY <1>0, <2>1, <2>3, <2>4, <2>5, <2>6, VisibleMoves
<1>a. ASSUME NEW r \in Requests
      PROVE  /\ AfterWrite(r) \in Request /\ AfterWrite(r).pc \in {"cancel", "done"}
             /\ Served(req[r].status) \in Request /\ Served(req[r].status).pc = "done"
  BY <1>0, ServedIsRequest DEF AfterWrite, Request
<1>6. ASSUME NEW r \in Requests, NEW q \in Request, q.pc \in {"cancel", "done"},
             WriteUpdate(r), req' = [req EXCEPT ![r] = q], UNCHANGED now
      PROVE  VisibleInv'
  <2>1. /\ req[r] \in Request /\ req[r].pc = "begun" /\ r \in InFlight
        /\ post' = PatchedRow(r)
    BY <1>0, <1>6 DEF WriteUpdate, InFlight
  <2>2. post'.status = req[r].status /\ post'.publishedAt = PatchedStamp(r)
    BY <1>0, <2>1 DEF PatchedRow, PostRow
  <2>3. /\ PatchedStamp(r) # NoTime => PatchedStamp(r) <= now
        /\ req[r].status = "published" => PatchedStamp(r) # NoTime
    BY <1>0, <2>1 DEF PatchedStamp, VisibleInv, StampInv, Due
  <2>4. \A p \in Requests \ {r} : req[p].pc \notin {"read", "begun"}
    BY <2>1 DEF VisibleInv, StampInv, InFlight
  <2> QED  BY <1>6, <2>1, <2>2, <2>3, <2>4, VisibleMoves
<1>7. ASSUME NEW r \in Requests, NEW q \in Request, q.pc \in {"cancel", "done"},
             WriteDelete(r), req' = [req EXCEPT ![r] = q], UNCHANGED now
      PROVE  VisibleInv'
  <2>1. req[r].pc = "read" /\ r \in InFlight /\ post' = [post EXCEPT !.deleted = TRUE]
    BY <1>0, <1>7 DEF WriteDelete, InFlight
  <2>2. post'.status = post.status /\ post'.publishedAt = post.publishedAt
    BY <1>0, <2>1 DEF PostRow
  <2> QED  BY <1>0, <1>7, <2>1, <2>2, VisibleMoves
<1>b. ASSUME NEW r \in Requests,
             \/ CommitUpdate(r) \/ CommitDelete(r)
             \/ RequestDies(r) /\ (WriteUpdate(r) \/ WriteDelete(r))
      PROVE  VisibleInv'
  BY <1>6, <1>7, <1>a, <1>b DEF CommitUpdate, CommitDelete, RequestDies
<1>8. ASSUME NEW r \in Requests,
             \/ WriteMatchesNothing(r) \/ CancelLookup(r) \/ CancelRemove(r)
             \/ RequestDies(r) /\ UNCHANGED post
      PROVE  VisibleInv'
  <2> DEFINE q == IF CancelLookup(r) /\ job.state \in {"delayed", "waiting"}
                    THEN [req[r] EXCEPT !.pc = "remove"]
                    ELSE Served(req[r].status)
  <2>1. req[r] \in Request
    BY <1>0
  <2>2. q \in Request /\ q.pc \in {"remove", "done"}
    BY <2>1, ServedIsRequest DEF Request
  <2>3. /\ req' = [req EXCEPT ![r] = q] /\ UNCHANGED <<now, post>> /\ r \in InFlight
    BY <1>8 DEF WriteMatchesNothing, CancelLookup, CancelRemove, RequestDies, InFlight
  <2> HIDE DEF q
  <2> QED  BY <1>0, <2>2, <2>3, VisibleMoves
<1>9. ASSUME NEW r \in Requests, RequestDies(r) PROVE VisibleInv'
  BY <1>8, <1>9, <1>b DEF RequestDies
<1> QED  BY <1>2, <1>3, <1>4, <1>5, <1>8, <1>9, <1>b DEF ApiStep

LEMMA NextKeepsVisible ==
  ASSUME MaxInFlight = 1, Skew <= 0, Consistent, VisibleInv, [Next]_vars
  PROVE  VisibleInv'
<1>1. now \in Clock /\ MaxTime \in Nat /\ post \in PostRow
  BY ConstantsAssumption DEF Consistent, TypeOK, ConstantsAssumption
<1>2. CASE ApiStep
  BY <1>2, ApiKeepsVisible
<1>3. CASE UNCHANGED <<req, now>> /\ (UNCHANGED post \/ post' = Published)
  <2>1. CASE UNCHANGED post
    BY <1>1, <1>3, <2>1, VisibleWaits DEF Clock
  <2>2. CASE post' = Published /\ CasMatches
    <3>1. post'.publishedAt = WorkerStamp /\ WorkerStamp \in Nat
      BY <2>2, PublishedIsRow
    <3>2. WorkerStamp <= now
      BY <1>1, ConstantsAssumption DEF WorkerStamp, WorkerNow, Clock
    <3>3. post'.publishedAt # NoTime /\ post'.publishedAt <= now
      BY <3>1, <3>2 DEF NoTime
    <3> QED  BY <1>3, <3>3 DEF VisibleInv, StampInv, PublishedIsVisible, Due, InFlight
  <2> QED  BY <1>3, <2>1, <2>2, PublishedIsRow
<1>4. CASE Tick
  <2>1. UNCHANGED <<post, req>> /\ now' \in Clock /\ now' >= now
    BY <1>1, <1>4 DEF Tick, Clock
  <2> QED  BY <2>1, VisibleWaits
<1>5. CASE \/ RelayStep \/ RelayCallFails \/ RelayRemoveFails \/ RelayFailUnrecorded
           \/ WorkerDies \/ QueueStep \/ ProcFetch \/ ProcRedelay \/ ProcFinish \/ ProcThrow
           \/ UNCHANGED vars
  <2>1. UNCHANGED <<now, post, req>>
    BY <1>5 DEF RelayStep, RelaySelect, RelayLookup, RelayCycleEnds, RelayChangeDelay,
                RelayRemove, RelayAdd, RelayMark, RelayFail, RelayCallFails, RelayRemoveFails,
                RelayFailUnrecorded, relayRest, QueueStep, Promote, PickUp, StallCheck, ProcFetch,
                ProcRedelay, ProcFinish, ProcThrow, WorkerDies, procRest, vars
  <2> QED  BY <1>1, <2>1, VisibleWaits DEF Clock
<1>6. ProcPublish \/ ProcCallFails =>
        UNCHANGED <<req, now>> /\ (UNCHANGED post \/ post' = Published)
  BY DEF ProcPublish, ProcCallFails, procRest
<1> QED  BY <1>2, <1>3, <1>4, <1>5, <1>6 DEF Next, ProcStep, FaultStep

(***************************************************************************)
(* While administrators act one at a time and the worker's clock, which    *)
(* stamps what it publishes, is not ahead of the database's, a published   *)
(* post always has a publication time that has come, so that the public    *)
(* lists show it:                                                          *)
(* however long a request takes between its read and its write, whatever   *)
(* the worker publishes in between, and whichever patch keeps, sets or     *)
(* clears the time (updatePostService, postPublish).                       *)
(***************************************************************************)
THEOREM PublishedIsVisibleAlways ==
  ASSUME MaxInFlight = 1, Skew <= 0
  PROVE  SafeSpec => []PublishedIsVisible
<1>1. Init => VisibleInv
  BY DEF Init, NoPost, NewRequest, VisibleInv, StampInv, PublishedIsVisible, InFlight
<1>2. Consistent /\ VisibleInv /\ [Next]_vars => VisibleInv'
  BY NextKeepsVisible
<1>3. VisibleInv => PublishedIsVisible
  BY DEF VisibleInv
<1> QED  BY <1>1, <1>2, <1>3, ConsistentAlways, PTL DEF SafeSpec

-----------------------------------------------------------------------------
(***************************************************************************)
(* A post that is scheduled once.                                          *)
(***************************************************************************)

\* Nobody has asked for a schedule while one more is allowed.
LEMMA FirstSchedule ==
  ASSUME MaxSchedules <= 1, MaySchedule
  PROVE  \A r \in Requests : req[r].status # "scheduled"
<1> DEFINE S == {r \in Requests : req[r].status = "scheduled"}
<1>1. IsFiniteSet(S) /\ Cardinality(S) \in Nat
  BY ConstantsAssumption, FS_Subset, FS_CardinalityType DEF ConstantsAssumption
<1>2. MaxSchedules \in Nat
  BY ConstantsAssumption DEF ConstantsAssumption
<1>3. Cardinality(S) < 1
  BY <1>1, <1>2 DEF MaySchedule
<1> HIDE DEF S
<1>4. S = {}
  BY <1>1, <1>3, NoneOfOne DEF S
<1> QED  BY <1>4 DEF S

\* A step that leaves the post, the requests and the events alone.
LEMMA OnceWaits ==
  ASSUME OnceInv, UNCHANGED <<post, req, outbox>>, HandedOn'
  PROVE  OnceInv'
BY DEF OnceInv, OneSchedule, KnowsOf, Committed, Scheduled

\* Once the transaction is done, the post is not scheduled but by it.
LEMMA NoOtherSchedule ==
  ASSUME MaxSchedules <= 1, OnceInv, Committed
  PROVE  /\ ~MaySchedule
         /\ Consistent => \A r \in Requests : req[r].pc = "begun" => req[r].status # "scheduled"
<1>1. PICK r \in Requests : outbox[r].status # "none"
  BY DEF Committed
<1>2. req[r].status = "scheduled"
  BY <1>1 DEF OnceInv, KnowsOf
<1>3. ASSUME Consistent, NEW s \in Requests, req[s].pc = "begun", req[s].status = "scheduled"
      PROVE  FALSE
  <2>1. s = r
    BY <1>2, <1>3 DEF OnceInv, OneSchedule
  <2> QED  BY <1>1, <1>3, <2>1 DEF Consistent, RequestInv
<1> QED  BY <1>2, <1>3, FirstSchedule

\* A step of request r that leaves post, events and job alone, whatever it asks
\* for now.
LEMMA OnceMoves ==
  ASSUME Consistent, OnceInv, NEW r \in Requests, NEW q \in Request,
         req' = [req EXCEPT ![r] = q],
         UNCHANGED <<now, post, outbox, job, relay, proc>>,
         \/ q.status # "scheduled" /\ outbox[r].status = "none"
         \/ q.status = req[r].status
         \/ \A s \in Requests : req[s].status # "scheduled",
         q.pc \in {"read", "begun"} /\ q.seenStatus = "scheduled" => Committed,
         q.pc \in {"cancel", "remove"} => Committed /\ ~Scheduled
  PROVE  OnceInv'
<1>1. /\ req'[r] = q
      /\ \A p \in Requests \ {r} : req'[p] = req[p]
  BY DEF Consistent, TypeOK
<1>2. HandedOn' /\ Committed' = Committed /\ Scheduled' = Scheduled
  BY DEF OnceInv, HandedOn, Committed, Scheduled, Pending
<1>3. \A s \in Requests \ {r} : KnowsOf(s)'
  BY <1>1, <1>2 DEF OnceInv, KnowsOf
<1>4. KnowsOf(r)'
  BY <1>1, <1>2 DEF OnceInv, KnowsOf
<1>5. OneSchedule'
  BY <1>1 DEF OnceInv, OneSchedule
<1> QED  BY <1>2, <1>3, <1>4, <1>5 DEF OnceInv

\* A write of request r that leaves the post unscheduled, and adds no event.
LEMMA OnceWithdraws ==
  ASSUME Consistent, OnceInv, NEW r \in Requests, NEW q \in Request,
         req' = [req EXCEPT ![r] = q], ~Scheduled', post'.status = "scheduled" => post.status = "scheduled",
         UNCHANGED <<outbox, job, relay, proc>>,
         \/ q.status # "scheduled" /\ outbox[r].status = "none"
         \/ q.status = req[r].status,
         q.pc = "done" \/ (q.pc = "cancel" /\ Committed)
  PROVE  OnceInv'
<1>1. /\ req'[r] = q
      /\ \A p \in Requests \ {r} : req'[p] = req[p]
  BY DEF Consistent, TypeOK
<1>2. HandedOn' /\ Committed' = Committed
  BY DEF OnceInv, HandedOn, Committed
<1>3. \A s \in Requests \ {r} : KnowsOf(s)'
  BY <1>1, <1>2 DEF OnceInv, KnowsOf
<1>4. KnowsOf(r)'
  BY <1>1, <1>2 DEF OnceInv, KnowsOf
<1>5. OneSchedule'
  BY <1>1 DEF OnceInv, OneSchedule
<1> QED  BY <1>2, <1>3, <1>4, <1>5 DEF OnceInv

\* The write that schedules the post, with its event.
LEMMA OnceSchedules ==
  ASSUME Consistent, OnceInv, ~Committed, NEW r \in Requests, NEW q \in Request, NEW e,
         req' = [req EXCEPT ![r] = q], q.pc = "done", q.status = "scheduled",
         outbox' = [outbox EXCEPT ![r] = e], e.status = "pending",
         \A s \in Requests \ {r} : req[s].status # "scheduled",
         UNCHANGED <<now, job, relay, proc>>
  PROVE  OnceInv'
<1>1. /\ req'[r] = q /\ outbox'[r] = e
      /\ \A p \in Requests \ {r} : req'[p] = req[p] /\ outbox'[p] = outbox[p]
  BY DEF Consistent, TypeOK
<1>2. Committed' /\ Pending' # {}
  BY <1>1 DEF Committed, Pending
<1>3. job.state = "missing" /\ proc.pc = "idle" /\ relay.pc # "mark"
  <2>1. job.state = "missing"
    BY DEF OnceInv, HandedOn
  <2>2. proc.pc = "idle"
    BY <2>1 DEF Consistent, JobInv
  <2>3. Pending = {}
    BY DEF Committed, Pending
  <2> QED  BY <2>1, <2>2, <2>3 DEF Consistent, RelayInv
<1>4. HandedOn'
  BY <1>2, <1>3 DEF HandedOn
<1>5. \A s \in Requests \ {r} : KnowsOf(s)'
  BY <1>1, <1>2 DEF OnceInv, KnowsOf, Committed
<1>6. KnowsOf(r)' /\ OneSchedule'
  BY <1>1 DEF KnowsOf, OneSchedule
<1> QED  BY <1>4, <1>5, <1>6 DEF OnceInv

LEMMA ApiKeepsOnce ==
  ASSUME MaxSchedules <= 1, Consistent, OnceInv, ApiStep
  PROVE  OnceInv'
<1> USE DEF workerVars
<1>0. post \in PostRow /\ req \in [Requests -> Request] /\ OneSchedule
  BY DEF Consistent, TypeOK, OnceInv
<1>1. ASSUME NEW r \in Requests, req[r].pc \in {"new", "read", "begun"}
      PROVE  outbox[r].status = "none"
  BY <1>1 DEF Consistent, RequestInv
<1>2. ASSUME NEW r \in Requests, NEW body \in Bodies, NEW t \in Time, CreatePost(r, body, t)
      PROVE  OnceInv'
  <2> DEFINE s == ParsedStatus(body)
  <2>1. /\ req[r].pc = "new" /\ post = NoPost /\ (s = "scheduled" => MaySchedule)
        /\ post' = [status |-> s, scheduledAt |-> t, deleted |-> FALSE,
                    publishedAt |-> IF s = "published" THEN now ELSE NoTime]
        /\ outbox' = IF s = "scheduled" THEN [outbox EXCEPT ![r] = NewEvent(t, txClock + 1)]
                                        ELSE outbox
        /\ req' = [req EXCEPT ![r] = Served(s)]
        /\ UNCHANGED <<now, job, relay, proc>>
    BY <1>2 DEF CreatePost, ValidBody
  <2>2. s \in Statuses /\ Served(s) \in Request /\ Served(s).pc = "done" /\ Served(s).status = s
    BY ParsedStatusIsStatus, ServedIsRequest DEF Served, NewRequest
  <2>3. outbox[r].status = "none"
    BY <1>1, <2>1
  <2> HIDE DEF s
  <2>4. CASE s = "scheduled"
    <3>1. \A p \in Requests : req[p].status # "scheduled"
      BY <2>1, <2>4, FirstSchedule
    <3>2. ~Committed
      BY <3>1 DEF OnceInv, KnowsOf, Committed
    <3>3. NewEvent(t, txClock + 1).status = "pending"
      BY DEF NewEvent
    <3> QED  BY <2>1, <2>2, <2>4, <3>1, <3>2, <3>3, OnceSchedules
  <2>5. CASE s # "scheduled"
    <3>1. ~Scheduled' /\ post'.status # "scheduled"
      BY <2>1, <2>5 DEF Scheduled
    <3> QED  BY <2>1, <2>2, <2>3, <2>5, <3>1, OnceWithdraws
  <2> QED  BY <2>4, <2>5
<1>3. ASSUME NEW r \in Requests, NEW body \in Bodies, NEW t \in Time, SubmitUpdate(r, body, t)
      PROVE  OnceInv'
  <2> DEFINE b == post.publishedAt # NoTime
             q == [NewRequest EXCEPT !.pc = "read",
               !.kind = "update", !.body = body, !.status = ParsedStatus(body),
               !.at = t, !.seenStatus = post.status, !.seenPublished = b]
  <2>1. ParsedStatus(body) \in Statuses /\ body \in Statuses \cup {"absent"}
    BY ParsedStatusIsStatus, ConstantsAssumption DEF Statuses, ConstantsAssumption
  <2>2. post.status \in Statuses \cup {"absent"} /\ b \in BOOLEAN
    BY <1>0 DEF PostRow
  <2>3. NewRequest \in Request
    BY DEF NewRequest, Request, Statuses, Time, Clock, NoTime
  <2>4. /\ req' = [req EXCEPT ![r] = q] /\ req[r].pc = "new"
        /\ UNCHANGED <<now, post, outbox, job, relay, proc>>
        /\ ParsedStatus(body) = "scheduled" => MaySchedule
    BY <1>3 DEF SubmitUpdate, ValidBody
  <2> HIDE DEF b
  <2>5. /\ q \in Request /\ q.pc = "read" /\ q.status = ParsedStatus(body)
        /\ q.seenStatus = post.status
    BY <2>1, <2>2, <2>3 DEF Request
  <2>6. q.seenStatus = "scheduled" => Committed
    BY <2>5 DEF OnceInv, HandedOn
  <2>7. \/ q.status # "scheduled" /\ outbox[r].status = "none"
        \/ \A p \in Requests : req[p].status # "scheduled"
    BY <1>1, <2>4, <2>5, FirstSchedule
  <2> HIDE DEF q
  <2> QED  BY <2>4, <2>5, <2>6, <2>7, OnceMoves
<1>4. ASSUME NEW r \in Requests, SubmitDelete(r) PROVE OnceInv'
  <2> DEFINE q == [NewRequest EXCEPT !.pc = "read", !.kind = "delete",
                                     !.seenStatus = post.status]
  <2>1. /\ q \in Request /\ q.pc = "read" /\ q.status # "scheduled"
        /\ q.seenStatus = post.status
    BY <1>0 DEF NewRequest, Request, Statuses, Time, Clock, NoTime, PostRow
  <2>2. /\ req' = [req EXCEPT ![r] = q] /\ req[r].pc = "new"
        /\ UNCHANGED <<now, post, outbox, job, relay, proc>>
    BY <1>4 DEF SubmitDelete
  <2>3. q.seenStatus = "scheduled" => Committed
    BY <2>1 DEF OnceInv, HandedOn
  <2> HIDE DEF q
  <2> QED  BY <1>1, <2>1, <2>2, <2>3, OnceMoves
<1>5. ASSUME NEW r \in Requests, BeginTx(r) PROVE OnceInv'
  <2> DEFINE n == txClock + 1
             q == [req[r] EXCEPT !.pc = "begun", !.order = n,
                     !.stamp = now, !.publishedAt = PatchedPublishedAt(r)]
  <2>1. PatchedPublishedAt(r) \in {"keep", "stamp", "clear"}
    BY DEF PatchedPublishedAt
  <2>2. req[r] \in Request /\ n \in Nat /\ now \in Time
    BY <1>0 DEF Consistent, TypeOK, Time
  <2>3. /\ req' = [req EXCEPT ![r] = q] /\ req[r].pc = "read"
        /\ UNCHANGED <<now, post, outbox, job, relay, proc>>
    BY <1>5 DEF BeginTx
  <2> HIDE DEF n
  <2>4. /\ q \in Request /\ q.pc = "begun" /\ q.status = req[r].status
        /\ q.seenStatus = req[r].seenStatus
    BY <2>1, <2>2 DEF Request
  <2>5. q.seenStatus = "scheduled" => Committed
    BY <2>3, <2>4 DEF OnceInv, KnowsOf
  <2> HIDE DEF q
  <2> QED  BY <2>3, <2>4, <2>5, OnceMoves
<1>a. ASSUME NEW r \in Requests
      PROVE  /\ AfterWrite(r) \in Request /\ AfterWrite(r).status = req[r].status
             /\ \/ AfterWrite(r).pc = "done"
                \/ /\ AfterWrite(r).pc = "cancel" /\ req[r].seenStatus = "scheduled"
                   /\ req[r].status # "scheduled"
             /\ Served(req[r].status) \in Request /\ Served(req[r].status).pc = "done"
             /\ Served(req[r].status).status = req[r].status
  <2>1. req[r] \in Request /\ req[r].status \in Statuses \cup {"absent"}
    BY <1>0 DEF Request
  <2>2. /\ Served(req[r].status) \in Request /\ Served(req[r].status).pc = "done"
        /\ Served(req[r].status).status = req[r].status
    BY <2>1, ServedIsRequest DEF Served, NewRequest
  <2>3. [req[r] EXCEPT !.pc = "cancel"] \in Request
    BY <2>1 DEF Request
  <2> QED
    BY <2>1, <2>2, <2>3 DEF AfterWrite, Request
<1>6. ASSUME NEW r \in Requests, NEW q \in Request, q \in {AfterWrite(r), Served(req[r].status)},
             WriteUpdate(r), req' = [req EXCEPT ![r] = q], UNCHANGED <<now, job, relay, proc>>
      PROVE  OnceInv'
  <2>1. /\ req[r] \in Request /\ req[r].pc = "begun" /\ outbox[r].status = "none"
        /\ post' = PatchedRow(r)
        /\ outbox' = IF req[r].status = "scheduled"
                       THEN [outbox EXCEPT ![r] = NewEvent(req[r].at, req[r].order)] ELSE outbox
    BY <1>0, <1>1, <1>6 DEF WriteUpdate
  <2>2. /\ q.status = req[r].status
        /\ \/ q.pc = "done"
           \/ /\ q.pc = "cancel" /\ req[r].seenStatus = "scheduled"
              /\ req[r].status # "scheduled"
    BY <1>6, <1>a
  <2>3. post'.status = req[r].status
    BY <1>0, <2>1 DEF PatchedRow, PostRow
  <2>4. CASE req[r].status = "scheduled"
    <3>1. ~Committed
      BY <2>1, <2>4, NoOtherSchedule
    <3>2. \A p \in Requests \ {r} : req[p].status # "scheduled"
      BY <1>0, <2>4 DEF OneSchedule
    <3>3. NewEvent(req[r].at, req[r].order).status = "pending"
      BY DEF NewEvent
    <3> QED  BY <1>6, <2>1, <2>2, <2>4, <3>1, <3>2, <3>3, OnceSchedules
  <2>5. CASE req[r].status # "scheduled"
    <3>1. ~Scheduled' /\ post'.status # "scheduled"
      BY <2>3, <2>5 DEF Scheduled
    <3>2. q.pc = "cancel" => Committed
      BY <2>1, <2>2 DEF OnceInv, KnowsOf
    <3> QED  BY <1>6, <2>1, <2>2, <2>5, <3>1, <3>2, OnceWithdraws
  <2> QED  BY <2>4, <2>5
<1>7. ASSUME NEW r \in Requests, NEW q \in Request, q \in {AfterWrite(r), Served(req[r].status)},
             WriteDelete(r), req' = [req EXCEPT ![r] = q], UNCHANGED <<now, job, relay, proc>>
      PROVE  OnceInv'
  <2>1. /\ req[r] \in Request /\ req[r].pc = "read"
        /\ post' = [post EXCEPT !.deleted = TRUE] /\ UNCHANGED outbox
    BY <1>0, <1>7 DEF WriteDelete
  <2>2. /\ q.status = req[r].status
        /\ q.pc = "done" \/ (q.pc = "cancel" /\ req[r].seenStatus = "scheduled")
    BY <1>7, <1>a
  <2>3. post'.status = post.status /\ ~Scheduled'
    BY <1>0, <2>1 DEF PostRow, Scheduled
  <2>4. q.pc = "cancel" => Committed
    BY <2>1, <2>2 DEF OnceInv, KnowsOf
  <2> QED  BY <1>7, <2>1, <2>2, <2>3, <2>4, OnceWithdraws
<1>b. ASSUME NEW r \in Requests,
             \/ CommitUpdate(r) \/ CommitDelete(r)
             \/ RequestDies(r) /\ (WriteUpdate(r) \/ WriteDelete(r))
      PROVE  OnceInv'
  BY <1>6, <1>7, <1>a, <1>b DEF CommitUpdate, CommitDelete, RequestDies
<1>8. ASSUME NEW r \in Requests,
             \/ WriteMatchesNothing(r) \/ CancelLookup(r)
             \/ RequestDies(r) /\ UNCHANGED <<post, outbox>>
      PROVE  OnceInv'
  <2> DEFINE q == IF CancelLookup(r) /\ job.state \in {"delayed", "waiting"}
                    THEN [req[r] EXCEPT !.pc = "remove"]
                    ELSE Served(req[r].status)
  <2>1. req[r] \in Request
    BY <1>0
  <2>2. /\ q \in Request /\ q.status = req[r].status
        /\ q.pc = "done" \/ (CancelLookup(r) /\ q.pc = "remove")
    BY <2>1, ServedIsRequest DEF Request, Served, NewRequest
  <2>3. /\ req' = [req EXCEPT ![r] = q] /\ UNCHANGED <<now, post, outbox, job, relay, proc>>
        /\ CancelLookup(r) => req[r].pc = "cancel"
    BY <1>8 DEF WriteMatchesNothing, CancelLookup, RequestDies
  <2>4. q.pc = "remove" => Committed /\ ~Scheduled
    BY <2>2, <2>3 DEF OnceInv, KnowsOf
  <2> HIDE DEF q
  <2> QED  BY <2>2, <2>3, <2>4, OnceMoves
<1>9. ASSUME NEW r \in Requests, CancelRemove(r) PROVE OnceInv'
  <2> DEFINE q == Served(req[r].status)
  <2>0. req[r].status \in Statuses \cup {"absent"}
    BY <1>0 DEF Request
  <2>1. q \in Request /\ q.status = req[r].status /\ q.pc = "done"
    BY <2>0, ServedIsRequest DEF Served, NewRequest
  <2>2. /\ req' = [req EXCEPT ![r] = q] /\ UNCHANGED <<now, post, outbox, relay, proc>>
        /\ job' = IF job.state = "active" THEN job ELSE NoJob
        /\ req[r].pc = "remove"
    BY <1>9 DEF CancelRemove
  <2> HIDE DEF q
  <2>3. ~Scheduled /\ ~Scheduled' /\ Committed'
    BY <2>2 DEF OnceInv, KnowsOf, Scheduled, Committed
  <2>4. HandedOn'
    BY <2>3 DEF HandedOn
  <2>5. \A s \in Requests : KnowsOf(s)'
    BY <1>0, <2>1, <2>2, <2>3 DEF OnceInv, KnowsOf
  <2>6. OneSchedule'
    BY <1>0, <2>1, <2>2 DEF OneSchedule
  <2> QED  BY <2>4, <2>5, <2>6 DEF OnceInv
<1>10. ASSUME NEW r \in Requests, RequestDies(r) PROVE OnceInv'
  BY <1>8, <1>10, <1>b DEF RequestDies
<1> QED  BY <1>2, <1>3, <1>4, <1>5, <1>8, <1>9, <1>10, <1>b DEF ApiStep

\* What the relay works on is the event of the schedule.
LEMMA RelayKeepsOnce ==
  ASSUME Consistent, OnceInv,
         RelayStep \/ RelayCallFails \/ RelayRemoveFails \/ RelayFailUnrecorded
  PROVE  OnceInv'
<1> USE DEF relayRest
<1>0. /\ outbox \in [Requests -> Event] /\ job \in Job /\ relay \in Relay
      /\ HandedOn /\ RelayInv
  BY DEF Consistent, TypeOK, OnceInv
<1>1. relay.pc \in {"upsert", "add", "mark", "fail"} =>
        /\ relay.event \in Requests
        /\ outbox[relay.event].status \in {"pending", "processed"}
        /\ relay.pc # "fail" => outbox[relay.event].status = "pending"
  BY <1>0 DEF RelayInv, Pending
<1>2. CASE \/ RelaySelect \/ RelayCycleEnds \/ RelayFailUnrecorded \/ RelayRemoveFails
           \/ RelayCallFails /\ UNCHANGED <<job, outbox>>
  <2>1. UNCHANGED <<now, post, req, outbox, job, proc>> /\ relay'.pc # "mark"
    <3>1. CASE RelaySelect
      <4>1. relay' = [IdleRelay EXCEPT !.pc = "next", !.batch = Batch]
        BY <3>1 DEF RelaySelect
      <4>2. relay'.pc = "next"
        BY <4>1 DEF IdleRelay
      <4> QED  BY <3>1, <4>2 DEF RelaySelect
    <3>2. CASE RelayCycleEnds
      BY <3>2 DEF RelayCycleEnds, IdleRelay
    <3>3. CASE \/ RelayFailUnrecorded \/ RelayRemoveFails
               \/ RelayCallFails /\ UNCHANGED <<job, outbox>>
      BY <1>0, <3>3 DEF RelayCallFails, RelayRemoveFails, RelayFailUnrecorded, Relay
    <3> QED  BY <1>2, <3>1, <3>2, <3>3
  <2>2. HandedOn'
    BY <1>0, <2>1 DEF HandedOn, Committed, Scheduled, Pending
  <2> QED  BY <2>1, <2>2, OnceWaits
<1>3. CASE RelayLookup
  <2>1. /\ UNCHANGED <<now, post, req, outbox, job, proc>>
        /\ relay'.pc = "mark" => job.state = "active"
    BY <1>3 DEF RelayLookup
  <2>2. HandedOn'
    BY <1>0, <2>1 DEF HandedOn, Committed, Scheduled, Pending
  <2> QED  BY <2>1, <2>2, OnceWaits
<1>4. CASE \/ RelayChangeDelay
           \/ RelayAdd
           \/ /\ RelayCallFails /\ relay.pc # "mark"
              /\ UNCHANGED outbox /\ (job' = Rescheduled \/ job' = Added)
  <2>1. /\ UNCHANGED <<now, post, req, outbox, proc>> /\ relay.pc \in {"upsert", "add"}
        /\ \/ UNCHANGED job /\ relay'.pc # "mark"
           \/ job'.state # "missing" /\ (job'.state = "completed" => job.state = "completed")
    BY <1>0, <1>4 DEF RelayChangeDelay, RelayAdd, RelayCallFails, ChangesDelay, Rescheduled,
                      Adds, Added, Job, Relay, NoJob
  <2>2. Committed
    BY <1>1, <2>1 DEF Committed
  <2>3. HandedOn'
    BY <1>0, <2>1, <2>2 DEF HandedOn, Committed, Scheduled, Pending
  <2> QED  BY <2>1, <2>3, OnceWaits
<1>5. CASE RelayRemove
  <2>1. /\ UNCHANGED <<now, post, req, outbox, proc>> /\ relay.pc = "upsert"
        /\ relay'.pc = "add" /\ (UNCHANGED job \/ job'.state = "missing")
    BY <1>0, <1>5 DEF RelayRemove, NoJob, Relay
  <2>2. Pending # {}
    BY <1>1, <2>1 DEF Pending
  <2>3. HandedOn'
    BY <1>0, <2>1, <2>2 DEF HandedOn, Committed, Scheduled, Pending
  <2> QED  BY <2>1, <2>3, OnceWaits
<1>6. CASE \/ RelayMark
           \/ RelayFail
           \/ RelayCallFails /\ relay.pc = "mark" /\ outbox' = Marked /\ UNCHANGED job
  <2> DEFINE r == relay.event
  <2>1. PICK e : /\ outbox' = [outbox EXCEPT ![r] = e]
                 /\ e.status \in {"pending", "processed", "failed"}
                 /\ e.status = "processed" =>
                      relay.pc = "mark" \/ outbox[r].status = "processed"
    <3>1. CASE relay.pc = "mark" /\ outbox' = Marked
      <4> DEFINE e == [outbox[r] EXCEPT !.status = "processed"]
      <4>1. outbox' = [outbox EXCEPT ![r] = e] /\ relay.pc = "mark"
        BY <3>1 DEF Marked
      <4>2. e.status = "processed"
        BY <1>0, <1>1, <4>1 DEF Event
      <4> QED  BY <4>1, <4>2
    <3>2. CASE RelayFail
      <4> DEFINE n == outbox[r].attempts + 1
                 a == AfterFailure(n)
                 e == [outbox[r] EXCEPT !.attempts = n, !.status = a]
      <4>1. outbox' = [outbox EXCEPT ![r] = e] /\ relay.pc = "fail"
        BY <3>2 DEF RelayFail
      <4>2. a \in {outbox[r].status, "failed"}
        BY DEF AfterFailure
      <4> HIDE DEF a, n
      <4>3. e.status = a
        BY <1>0, <1>1, <4>1 DEF Event
      <4> QED  BY <1>1, <4>1, <4>2, <4>3
    <3> QED  BY <1>6, <3>1, <3>2 DEF RelayMark
  <2>2. /\ UNCHANGED <<now, post, req, job, proc>> /\ relay.pc \in {"mark", "fail"}
        /\ relay'.pc \in {"next", "fail"}
    BY <1>0, <1>6 DEF RelayMark, RelayFail, RelayCallFails, Relay
  <2>3. /\ r \in Requests /\ outbox[r].status \in {"pending", "processed"} /\ outbox'[r] = e
        /\ \A s \in Requests \ {r} : outbox'[s] = outbox[s]
    BY <1>0, <1>1, <2>1, <2>2
  <2> HIDE DEF r
  <2>4. \A s \in Requests : (outbox'[s].status # "none") = (outbox[s].status # "none")
    BY <2>1, <2>3
  <2>5. Committed /\ Committed'
    BY <2>3, <2>4 DEF Committed
  <2>6. Scheduled /\ Pending' = {} =>
          job.state # "missing" \/ \E s \in Requests : outbox'[s].status = "failed"
    <3>1. SUFFICES ASSUME Scheduled, Pending' = {}, \A s \in Requests : outbox'[s].status # "failed"
                   PROVE  job.state # "missing"
      OBVIOUS
    <3>2. e.status = "processed"
      BY <2>1, <2>3, <3>1 DEF Pending
    <3>3. \A s \in Requests : outbox[s].status # "failed"
      BY <2>3, <3>1
    <3>4. relay.pc = "mark" \/ Pending = {}
      BY <2>1, <2>3, <3>1, <3>2 DEF Pending
    <3> QED  BY <1>0, <3>1, <3>3, <3>4 DEF HandedOn
  <2>7. HandedOn'
    BY <1>0, <2>2, <2>5, <2>6 DEF HandedOn, Scheduled
  <2>8. \A s \in Requests : KnowsOf(s)'
    BY <2>2, <2>4, <2>5 DEF OnceInv, KnowsOf, Scheduled
  <2>9. OneSchedule'
    BY <2>2 DEF OnceInv, OneSchedule
  <2> QED  BY <2>7, <2>8, <2>9 DEF OnceInv
<1>7. CASE RelayCallFails
  <2>1. \/ UNCHANGED <<job, outbox>>
        \/ UNCHANGED outbox /\ (job' = Rescheduled \/ job' = Added) /\ relay.pc # "mark"
        \/ relay.pc = "mark" /\ outbox' = Marked /\ UNCHANGED job
    <3>1. ChangesDelay \/ Adds => relay.pc # "mark"
      BY DEF ChangesDelay, Adds
    <3> QED  BY <1>7, <3>1 DEF RelayCallFails
  <2>2. CASE UNCHANGED <<job, outbox>>
    BY <1>2, <1>7, <2>2
  <2>3. CASE UNCHANGED outbox /\ (job' = Rescheduled \/ job' = Added) /\ relay.pc # "mark"
    BY <1>4, <1>7, <2>3
  <2>4. CASE relay.pc = "mark" /\ outbox' = Marked /\ UNCHANGED job
    BY <1>6, <1>7, <2>4
  <2> QED  BY <2>1, <2>2, <2>3, <2>4
<1> QED  BY <1>2, <1>3, <1>4, <1>5, <1>6, <1>7 DEF RelayStep

\* What the queue and the processor do is judged by a post that can only be
\* withdrawn.
LEMMA ProcKeepsOnce ==
  ASSUME Skew <= 0, Consistent, OnceInv,
         QueueStep \/ ProcStep \/ ProcCallFails \/ WorkerDies
  PROVE  OnceInv'
<1> USE DEF procRest
<1>0. /\ post \in PostRow /\ job \in Job /\ proc \in Proc /\ now \in Nat
      /\ HandedOn /\ JobInv /\ Skew \in Int
  BY ConstantsAssumption DEF Consistent, TypeOK, OnceInv, Clock, ConstantsAssumption
<1>1. CASE Promote \/ PickUp \/ StallCheck \/ ProcRedelay \/ ProcThrow
  <2>1. /\ UNCHANGED <<now, post, req, outbox, relay>>
        /\ job.state # "missing" /\ job'.state \notin {"missing", "completed"}
        /\ proc'.pc = proc.pc \/ proc'.pc \in {"idle", "fetch"}
    <3>1. CASE ProcThrow
      <4> DEFINE n == job.attemptsMade + 1
                 a == AfterThrow(n)
      <4>1. /\ job' = [job EXCEPT !.attemptsMade = n, !.state = a, !.due = now]
            /\ proc.pc = "throw" /\ proc' = IdleProc /\ UNCHANGED <<now, post, req, outbox, relay>>
        BY <3>1 DEF ProcThrow
      <4>2. a \in {"delayed", "failed"}
        BY DEF AfterThrow
      <4> HIDE DEF a, n
      <4>3. job'.state = a
        BY <1>0, <4>1 DEF Job
      <4> QED  BY <1>0, <4>1, <4>2, <4>3 DEF JobInv, IdleProc
    <3>2. CASE StallCheck
      <4> DEFINE n == job.stalls + 1
                 a == IF job.stalls < MaxStalls THEN "waiting" ELSE "failed"
      <4>1. /\ job' = [job EXCEPT !.stalls = n, !.state = a]
            /\ job.state = "active" /\ UNCHANGED <<now, post, req, outbox, relay, proc>>
        BY <3>2 DEF StallCheck
      <4>2. a \in {"waiting", "failed"}
        OBVIOUS
      <4> HIDE DEF a, n
      <4>3. job'.state = a
        BY <1>0, <4>1 DEF Job
      <4> QED  BY <4>1, <4>2, <4>3
    <3>3. CASE Promote
      BY <1>0, <3>3 DEF Promote, Job
    <3>4. CASE PickUp
      BY <1>0, <3>4 DEF PickUp, Job, IdleProc
    <3>5. CASE ProcRedelay
      BY <1>0, <3>5 DEF ProcRedelay, Job, JobInv, IdleProc
    <3> QED  BY <1>1, <3>1, <3>2, <3>3, <3>4, <3>5
  <2>2. HandedOn'
    BY <1>0, <2>1 DEF HandedOn, Committed, Scheduled, Pending
  <2> QED  BY <2>1, <2>2, OnceWaits
<1>2. CASE ProcFetch
  <2>1. /\ UNCHANGED <<now, post, req, outbox, job, relay>> /\ proc'.pc = Verdict(post)
        /\ job.state = "active"
    BY <1>0, <1>2 DEF ProcFetch, JobInv
  <2>2. /\ Verdict(post) = "finish" => ~Scheduled
        /\ Verdict(post) = "cas" /\ Scheduled => Due(post.scheduledAt, now)
    BY <1>0 DEF Verdict, Scheduled, Due, PostRow, WorkerNow, Time, Clock, NoTime
  <2>3. HandedOn'
    BY <1>0, <2>1, <2>2 DEF HandedOn, Committed, Scheduled, Pending, Due
  <2> QED  BY <2>1, <2>3, OnceWaits
<1>3. CASE \/ ProcPublish
           \/ ProcCallFails /\ proc.pc = "cas" /\ post' = Published
  <2>1. /\ UNCHANGED <<now, req, outbox, job, relay>> /\ proc.pc = "cas"
        /\ proc'.pc \in {"finish", "throw"} /\ post' = Published
    BY <1>0, <1>3 DEF ProcPublish, ProcCallFails, Proc
  <2>2. ~Scheduled'
    <3>1. CASE CasMatches
      BY <2>1, <3>1, PublishedIsRow DEF Scheduled
    <3>2. CASE ~CasMatches
      BY <1>0, <2>1, <3>2, PublishedIsRow DEF HandedOn, CasMatches, Scheduled
    <3> QED  BY <3>1, <3>2
  <2>3. Committed /\ Committed'
    <3>1. job.state = "active"
      BY <1>0, <2>1 DEF JobInv
    <3> QED  BY <1>0, <2>1, <3>1 DEF HandedOn, Committed
  <2>4. HandedOn'
    BY <1>0, <2>1, <2>2, <2>3 DEF HandedOn
  <2>5. OneSchedule' /\ \A s \in Requests : KnowsOf(s)'
    BY <2>1, <2>2, <2>3 DEF OnceInv, OneSchedule, KnowsOf
  <2> QED  BY <2>4, <2>5 DEF OnceInv
<1>4. CASE ProcFinish
  <2>1. /\ UNCHANGED <<now, post, req, outbox, relay>> /\ proc.pc = "finish"
        /\ job'.state = "completed" /\ proc'.pc = "idle" /\ job.state = "active"
    BY <1>0, <1>4 DEF ProcFinish, Job, JobInv, IdleProc
  <2>2. HandedOn'
    BY <1>0, <2>1 DEF HandedOn, Committed, Scheduled, Pending
  <2> QED  BY <2>1, <2>2, OnceWaits
<1>5. CASE (ProcCallFails /\ UNCHANGED post) \/ WorkerDies
  <2>1. /\ UNCHANGED <<now, post, req, outbox, job>>
        /\ proc'.pc \in {"throw", "idle"} /\ (relay'.pc = relay.pc \/ relay'.pc = "idle")
    BY <1>0, <1>5 DEF ProcCallFails, WorkerDies, IdleRelay, IdleProc, Proc
  <2>2. HandedOn'
    BY <1>0, <2>1 DEF HandedOn, Committed, Scheduled, Pending
  <2> QED  BY <2>1, <2>2, OnceWaits
<1>6. CASE ProcCallFails
  BY <1>3, <1>5, <1>6 DEF ProcCallFails
<1> QED  BY <1>1, <1>2, <1>3, <1>4, <1>5, <1>6 DEF QueueStep, ProcStep

LEMMA NextKeepsOnce ==
  ASSUME MaxSchedules <= 1, Skew <= 0, Consistent, OnceInv, [Next]_vars
  PROVE  OnceInv'
<1>1. CASE Tick
  <2>1. /\ UNCHANGED <<post, req, outbox, job, relay, proc>> /\ now' = now + 1
        /\ now \in Nat /\ post.scheduledAt \in Time
    BY <1>1 DEF Tick, Consistent, TypeOK, Clock, PostRow
  <2>2. Due(post.scheduledAt, now) => Due(post.scheduledAt, now')
    BY <2>1, ConstantsAssumption DEF Due, Time, Clock, NoTime, ConstantsAssumption
  <2>3. HandedOn'
    BY <2>1, <2>2 DEF OnceInv, HandedOn, Committed, Scheduled, Pending
  <2> QED  BY <2>1, <2>3, OnceWaits
<1>2. CASE UNCHANGED vars
  <2>1. UNCHANGED <<now, post, req, outbox, job, relay, proc>>
    BY <1>2 DEF vars
  <2>2. HandedOn'
    BY <2>1 DEF OnceInv, HandedOn, Committed, Scheduled, Pending
  <2> QED  BY <2>1, <2>2, OnceWaits
<1> QED  BY <1>1, <1>2, ApiKeepsOnce, RelayKeepsOnce, ProcKeepsOnce DEF Next, FaultStep

LEMMA InitOnce == Init => OnceInv
BY DEF Init, NoPost, NewRequest, NoEvent, NoJob, IdleRelay, IdleProc, OnceInv, OneSchedule,
       KnowsOf, HandedOn, Committed, Scheduled

\* A schedule that is known once has a carrier, or someone who gave it up.
LEMMA OnceIsCarried ==
  ASSUME Consistent, OnceInv PROVE ScheduleNeverLost
<1>1. SUFFICES ASSUME Scheduled, Pending = {}, \A r \in Requests : outbox[r].status # "failed"
               PROVE  \/ job.state \in {"delayed", "waiting", "failed"}
                      \/ job.state = "active" /\ proc.pc # "finish"
  BY DEF ScheduleNeverLost, Carried, GaveUp
<1>2. job.state \notin {"missing", "completed"} /\ proc.pc # "finish"
  BY <1>1 DEF OnceInv, HandedOn
<1>3. job.state \in JobStates
  BY DEF Consistent, TypeOK, Job
<1> QED  BY <1>2, <1>3 DEF JobStates

(***************************************************************************)
(* A schedule that is set once is never lost between the transaction, the  *)
(* outbox, the relay, the queue and the processor: whatever calls fail,    *)
(* whoever crashes and whichever other requests overlap, the post stays    *)
(* with a carrier or the failure is on record, provided that the clock of  *)
(* the worker is not ahead of the database's.                              *)
(***************************************************************************)
THEOREM ScheduleNeverLostAlways ==
  ASSUME MaxSchedules <= 1, Skew <= 0
  PROVE  SafeSpec => []ScheduleNeverLost
<1>1. Init => OnceInv
  BY InitOnce
<1>2. Consistent /\ OnceInv /\ [Next]_vars => OnceInv'
  BY NextKeepsOnce
<1>3. Consistent /\ OnceInv => ScheduleNeverLost
  BY OnceIsCarried
<1> QED  BY <1>1, <1>2, <1>3, ConsistentAlways, PTL DEF SafeSpec
==============================================================================
