------------------------ MODULE CommentsSection_proofs ------------------------
(***************************************************************************)
(* The properties of CommentsSection for every number of requests, comments *)
(* and faults, and every size of the preview and of a page: the cached     *)
(* detail follows the moderation, the cooldown holds while Redis answers,  *)
(* and the pages hide no comment from the visitor.                         *)
(***************************************************************************)
EXTENDS CommentsSection, FiniteSetTheorems, TLAPS

IInv == ApiTypeOK /\ ReservedFirst /\ AimInv /\ CacheFollows /\ FillsFollow

-----------------------------------------------------------------------------
\* A request that goes on is one of its kind, and the others stay as they are.
LEMMA GoesShape ==
  ASSUME ApiTypeOK, NEW q \in Requests,
         NEW pc \in {"new", "reserve", "insert", "write", "scan", "del", "done"},
         Goes(q, pc)
  PROVE  /\ request' \in [Requests -> Request]
         /\ request'[q].pc = pc /\ request'[q].op = "submit"
         /\ \A p \in Requests \ {q} : request'[p] = request[p]
         /\ request[q].pc \notin {"scan", "del"} /\ Quiet' => Quiet
<1> DEFINE next == [NewRequest EXCEPT !.pc = pc]
<1>1. next \in Request /\ next.pc = pc /\ next.op = "submit"
  BY DEF NewRequest, Request, Ops, Ids, NoId
<1> HIDE DEF next
<1>2. request' = [request EXCEPT ![q] = next]
  BY DEF Goes, next
<1>3. /\ request' \in [Requests -> Request] /\ request'[q] = next
      /\ \A p \in Requests \ {q} : request'[p] = request[p]
  BY <1>1, <1>2 DEF ApiTypeOK
<1>4. request[q].pc \notin {"scan", "del"} /\ Quiet' => Quiet
  BY <1>3 DEF Quiet
<1> QED  BY <1>1, <1>3, <1>4

\* An inserted comment was not there.
LEMMA InsertShape ==
  ASSUME ApiTypeOK, NEW s \in Statuses, Insert(s)
  PROVE  /\ row' \in [Ids -> Row]
         /\ \E i \in Ids : /\ row[i].status = "none"
                           /\ row' = [row EXCEPT ![i].status = s]
BY DEF ApiTypeOK, Insert, Statuses, Row

\* A write that neither makes a comment public nor touches one that is public
\* changes no list.
LEMMA ListsKept ==
  ASSUME Public(row') = Public(row),
         \A i \in Public(row) : row'[i].version = row[i].version
  PROVE  Rows(1, Preview)' = Rows(1, Preview)
<1>1. Public(row)' = Public(row)
  BY DEF Public
<1>2. \A i \in Public(row) : Place(i)' = Place(i)
  BY <1>1 DEF Place
<1> DEFINE Here == {j \in Public(row) : Place(j) \in 1..Preview}
<1>3. {j \in Public(row)' : Place(j)' \in 1..Preview} = Here
  BY <1>1, <1>2
<1>4. Rows(1, Preview)' = {[id |-> i, version |-> row'[i].version] : i \in Here}
  BY <1>3 DEF Rows
<1>5. \A i \in Here : row'[i].version = row[i].version
  OBVIOUS
<1>6. {[id |-> i, version |-> row'[i].version] : i \in Here}
        = {[id |-> i, version |-> row[i].version] : i \in Here}
  BY <1>5
<1> QED  BY <1>4, <1>6 DEF Rows

\* The same of one row.
LEMMA RowChange ==
  ASSUME ApiTypeOK, NEW i \in Ids, NEW r, row' = [row EXCEPT ![i] = r],
         ~(row[i].status = "approved" /\ ~row[i].deleted),
         ~(r.status = "approved" /\ ~r.deleted)
  PROVE  /\ Public(row') = Public(row)
         /\ \A j \in Public(row) : row'[j].version = row[j].version
<1>1. i \notin Public(row) /\ i \notin Public(row')
  BY DEF Public, ApiTypeOK
<1>2. \A j \in Ids \ {i} : row'[j] = row[j]
  BY DEF ApiTypeOK
<1> QED  BY <1>1, <1>2 DEF Public

\* The cached detail and the fills are left alone, and the lists they are compared
\* with as well, or an invalidation is still to come.
LEMMA CacheKept ==
  ASSUME CacheFollows, FillsFollow, UNCHANGED <<entry, fill>>,
         ~raced' /\ Quiet' =>
           /\ ~raced /\ Quiet
           /\ Rows(1, Preview)' = Rows(1, Preview) /\ Public(row)' = Public(row)
  PROVE  CacheFollows' /\ FillsFollow'
<1>1. CacheFollows'
  BY DEF CacheFollows
<1>2. FillsFollow'
  BY DEF FillsFollow
<1> QED  BY <1>1, <1>2

LEMMA SameLists ==
  ASSUME row' = row
  PROVE  Rows(1, Preview)' = Rows(1, Preview) /\ Public(row)' = Public(row)
BY DEF Rows, Place, Public

\* The bound of a list is that of the comments.
LEMMA NoListShape ==
  NoList \in List /\ NoEntry \in Entry /\ NoFill \in Fill /\ Begins(NoList)
<1>1. 0 \in 0..MaxComments
  BY CommentsAssumption DEF CommentsAssumption
<1>2. NoList \in List /\ Begins(NoList)
  BY <1>1 DEF NoList, List, Begins
<1> QED  BY <1>2 DEF NoEntry, Entry, NoFill, Fill

\* Faults are counted up to their bound.
LEMMA FaultShape ==
  ASSUME ApiTypeOK, UNCHANGED faults \/ Fault
  PROVE  /\ faults' \in 0..MaxFaults
         /\ faults' = 0 => UNCHANGED faults
<1>1. MaxFaults \in Nat
  BY CommentsAssumption DEF CommentsAssumption
<1> QED  BY <1>1 DEF ApiTypeOK, Fault

-----------------------------------------------------------------------------
LEMMA InitIInv ==
  ASSUME Init PROVE IInv
<1>1. row \in [Ids -> Row]
  <2>1. PICK approved \in SUBSET (1..Existing) :
          row = [i \in Ids |->
                  [status  |-> CASE i \in approved -> "approved"
                                 [] i <= Existing /\ i \notin approved -> "pending"
                                 [] OTHER -> "none",
                   deleted |-> FALSE, version |-> 0]]
    BY DEF Init, ApiInit
  <2> QED  BY <2>1 DEF Statuses, Row
<1>2. request \in [Requests -> Request] /\ \A q \in Requests : request[q].pc = "new"
  BY DEF Init, ApiInit, NewRequest, Request, Ops, Ids, NoId
<1>3. /\ entry \in Entry /\ ~entry.present
      /\ fill \in [Readers -> Fill] /\ \A r \in Readers : ~fill[r].active
  BY NoListShape DEF Init, ApiInit, NoEntry, NoFill
<1>4. faults \in 0..MaxFaults
  BY CommentsAssumption DEF Init, ApiInit, CommentsAssumption
<1>5. ApiTypeOK
  BY <1>1, <1>2, <1>3, <1>4 DEF Init, ApiInit, ApiTypeOK
<1>6. CacheFollows /\ FillsFollow
  BY <1>3 DEF CacheFollows, FillsFollow
<1> QED  BY <1>2, <1>5, <1>6 DEF Init, ApiInit, IInv, ReservedFirst, AimInv

-----------------------------------------------------------------------------
\* The steps of a submission.

LEMMA SubmissionKeeps ==
  ASSUME IInv, NEW q \in Requests, CheckCooldown(q) \/ Reserve(q) \/ Store(q)
  PROVE  IInv'
<1> USE DEF IInv
<1>1. CASE CheckCooldown(q)
  <2>1. PICK pc \in {"done", "reserve"} :
          Goes(q, pc) /\ (UNCHANGED faults \/ Fault)
    BY <1>1 DEF CheckCooldown
  <2>2. request[q].pc = "new" /\ UNCHANGED <<row, cooldown, recent, entry, fill, raced, withdrawn>>
    BY <1>1 DEF CheckCooldown
  <2>3. /\ request' \in [Requests -> Request] /\ request'[q].pc = pc
        /\ \A p \in Requests \ {q} : request'[p] = request[p]
        /\ Quiet' => Quiet
    BY <2>1, <2>2, GoesShape
  <2>4. faults' \in 0..MaxFaults /\ (faults' = 0 => faults = 0)
    BY <2>1, FaultShape
  <2>5. ApiTypeOK' /\ ReservedFirst' /\ AimInv'
    BY <2>1, <2>2, <2>3, <2>4 DEF ApiTypeOK, ReservedFirst, AimInv
  <2> QED  BY <2>2, <2>3, <2>5, CacheKept, SameLists
<1>2. CASE Reserve(q)
  <2>1. /\ request[q].pc = "reserve" /\ Goes(q, "insert")
        /\ UNCHANGED <<row, recent, entry, fill, raced, withdrawn>>
    BY <1>2 DEF Reserve
  <2>2. /\ request' \in [Requests -> Request] /\ request'[q].pc = "insert"
        /\ \A p \in Requests \ {q} : request'[p] = request[p]
        /\ Quiet' => Quiet
    BY <2>1, GoesShape
  <2>3. UNCHANGED faults \/ Fault
    BY <1>2 DEF Reserve
  <2>4. faults' \in 0..MaxFaults /\ (faults' = 0 => UNCHANGED faults)
    BY <2>3, FaultShape
  <2>5. /\ cooldown' \in [redis : BOOLEAN, local : BOOLEAN]
        /\ faults' = 0 => faults = 0 /\ cooldown'.redis
    <3>1. CASE UNCHANGED faults /\ cooldown' = [cooldown EXCEPT !.redis = TRUE]
      BY <3>1 DEF ApiTypeOK
    <3>2. CASE Fault /\ cooldown' = [cooldown EXCEPT !.local = TRUE]
      <4>1. faults' # 0
        BY <3>2 DEF Fault, ApiTypeOK
      <4> QED  BY <3>2, <4>1 DEF ApiTypeOK
    <3> QED  BY <1>2, <3>1, <3>2 DEF Reserve
  <2>6. ApiTypeOK' /\ ReservedFirst' /\ AimInv'
    BY <2>1, <2>2, <2>4, <2>5 DEF ApiTypeOK, ReservedFirst, AimInv
  <2> QED  BY <2>1, <2>2, <2>6, CacheKept, SameLists
<1>3. CASE Store(q)
  <2>1. /\ request[q].pc = "insert" /\ Insert("pending") /\ recent' = TRUE /\ Goes(q, "done")
        /\ UNCHANGED <<cooldown, entry, fill, raced, withdrawn, faults>>
    BY <1>3 DEF Store
  <2>2. /\ request' \in [Requests -> Request] /\ request'[q].pc = "done"
        /\ \A p \in Requests \ {q} : request'[p] = request[p]
        /\ Quiet' => Quiet
    BY <2>1, GoesShape
  <2>3. /\ row' \in [Ids -> Row]
        /\ \E i \in Ids : /\ row[i].status = "none"
                          /\ row' = [row EXCEPT ![i].status = "pending"]
    BY <2>1, InsertShape DEF Statuses
  <2>4. ApiTypeOK' /\ ReservedFirst' /\ AimInv'
    BY <2>1, <2>2, <2>3 DEF ApiTypeOK, ReservedFirst, AimInv
  <2>5. PICK i \in Ids : /\ row[i].status = "none"
                        /\ row' = [row EXCEPT ![i].status = "pending"]
    BY <2>3
  <2>6. row' = [row EXCEPT ![i] = [row[i] EXCEPT !.status = "pending"]]
    BY <2>5
  <2>7. [row[i] EXCEPT !.status = "pending"].status = "pending"
    BY DEF ApiTypeOK, Row
  <2>8. /\ Public(row') = Public(row)
        /\ \A j \in Public(row) : row'[j].version = row[j].version
    BY <2>5, <2>6, <2>7, RowChange
  <2>9. Rows(1, Preview)' = Rows(1, Preview)
    BY <2>8, ListsKept
  <2>10. Public(row)' = Public(row)
    BY <2>8 DEF Public
  <2> QED  BY <2>1, <2>2, <2>4, <2>9, <2>10, CacheKept
<1> QED  BY <1>1, <1>2, <1>3

-----------------------------------------------------------------------------
\* The steps of a moderation.

LEMMA ReadShape ==
  ASSUME ApiTypeOK, NEW q \in Requests, AdminRead(q)
  PROVE  /\ request' \in [Requests -> Request]
         /\ request'[q].pc \in {"done", "write"}
         /\ request'[q].pc = "write" /\ request'[q].op = "reject" => request'[q].to = "rejected"
         /\ \A p \in Requests \ {q} : request'[p] = request[p]
<1>1. PICK op \in Ops \ {"submit"}, i \in Ids, to \in Statuses :
        /\ row[i].status # "none"
        /\ IF Refused(op, i)
             THEN Goes(q, "done")
             ELSE request' = [request EXCEPT ![q] =
                    [pc |-> "write", op |-> op, id |-> i, read |-> row[i].status,
                     to |-> Target(op, row[i].status, to)]]
  BY DEF AdminRead
<1>2. CASE Refused(op, i)
  BY <1>1, <1>2, GoesShape
<1>3. CASE ~Refused(op, i)
  <2> DEFINE target == Target(op, row[i].status, to)
  <2>1. row[i].status \in Statuses
    BY <1>1 DEF ApiTypeOK, Row
  <2>2. target \in Statuses /\ (op = "reject" => target = "rejected")
    BY <2>1 DEF Target, Statuses, Ops
  <2> HIDE DEF target
  <2> DEFINE next == [pc |-> "write", op |-> op, id |-> i, read |-> row[i].status,
                        to |-> target]
  <2>3. next \in Request
    BY <2>1, <2>2 DEF Request, Ops
  <2>4. request' = [request EXCEPT ![q] = next]
    BY <1>1, <1>3 DEF target
  <2> QED  BY <2>2, <2>3, <2>4 DEF ApiTypeOK
<1> QED  BY <1>2, <1>3

LEMMA ReadKeeps ==
  ASSUME IInv, NEW q \in Requests, AdminRead(q)
  PROVE  IInv'
<1> USE DEF IInv
<1>1. /\ request[q].pc = "new"
      /\ UNCHANGED <<row, cooldown, recent, entry, fill, raced, withdrawn, faults>>
  BY DEF AdminRead
<1>2. /\ request' \in [Requests -> Request]
      /\ request'[q].pc \in {"done", "write"}
      /\ request'[q].pc = "write" /\ request'[q].op = "reject" => request'[q].to = "rejected"
      /\ \A p \in Requests \ {q} : request'[p] = request[p]
  BY ReadShape
<1>3. ApiTypeOK' /\ ReservedFirst' /\ AimInv'
  BY <1>1, <1>2 DEF ApiTypeOK, ReservedFirst, AimInv
<1>4. Quiet' => Quiet
  BY <1>1, <1>2 DEF Quiet
<1> QED  BY <1>1, <1>3, <1>4, CacheKept, SameLists

\* A write that is not followed by an invalidation, and found the status that was
\* read, changes nothing that is public.
LEMMA QuietWrite ==
  ASSUME IInv, NEW q \in Requests, AdminWrite(q), request'[q].pc # "scan", ~raced'
  PROVE  /\ Public(row') = Public(row)
         /\ \A j \in Public(row) : row'[j].version = row[j].version
<1> USE DEF IInv
<1> DEFINE op == request[q].op
           i  == request[q].id
<1>1. row[i].status = request[q].read /\ ~row[i].deleted
  BY DEF AdminWrite
<1>2. ~NeedsInvalidation(op, request[q].read, request[q].to)
  <2>1. SUFFICES ASSUME NeedsInvalidation(op, request[q].read, request[q].to) PROVE FALSE
    OBVIOUS
  <2>2. Goes(q, "scan")
    BY <2>1 DEF AdminWrite
  <2> QED  BY <2>2, GoesShape
<1>3. op \in {"status", "reject", "edit", "remove"}
  BY <1>2 DEF AdminWrite, NeedsInvalidation
<1>4. request[q].read # "approved"
  BY <1>2, <1>3 DEF NeedsInvalidation
<1>5. CASE i \notin Ids
  <2>1. row' = row
    BY <1>3, <1>5 DEF AdminWrite, ApiTypeOK
  <2> QED  BY <2>1
<1>6. CASE i \in Ids
  <2>1. PICK r : /\ row' = [row EXCEPT ![i] = r]
                 /\ ~(r.status = "approved" /\ ~r.deleted)
    <3>1. CASE op \in {"status", "reject"}
      <4>1. row' = [row EXCEPT ![i] = [row[i] EXCEPT !.status = request[q].to]]
        BY <3>1 DEF AdminWrite
      <4>2. request[q].to # "approved"
        BY <3>1, <1>2 DEF NeedsInvalidation, AimInv, AdminWrite
      <4>3. [row[i] EXCEPT !.status = request[q].to].status = request[q].to
        BY <1>6 DEF ApiTypeOK
      <4> QED  BY <4>1, <4>2, <4>3
    <3>2. CASE op = "edit"
      <4>1. row' = [row EXCEPT ![i] = [row[i] EXCEPT !.version = @ + 1]]
        BY <3>2 DEF AdminWrite
      <4>2. [row[i] EXCEPT !.version = @ + 1].status = row[i].status
        BY <1>6 DEF ApiTypeOK
      <4> QED  BY <4>1, <4>2, <1>1, <1>4
    <3>3. CASE op = "remove"
      <4>1. row' = [row EXCEPT ![i] = [row[i] EXCEPT !.deleted = TRUE]]
        BY <3>3 DEF AdminWrite
      <4>2. [row[i] EXCEPT !.deleted = TRUE].status = row[i].status
        BY <1>6 DEF ApiTypeOK
      <4> QED  BY <4>1, <4>2, <1>1, <1>4
    <3> QED  BY <1>3, <3>1, <3>2, <3>3
  <2> QED  BY <1>1, <1>4, <1>6, <2>1, RowChange
<1> QED  BY <1>5, <1>6

LEMMA WriteKeeps ==
  ASSUME IInv, NEW q \in Requests, AdminWrite(q)
  PROVE  IInv'
<1> USE DEF IInv
<1>1. PICK pc \in {"scan", "done"} : Goes(q, pc)
  BY DEF AdminWrite
<1>2. /\ request[q].pc = "write" /\ UNCHANGED <<cooldown, recent, entry, fill, faults>>
      /\ raced' = (raced \/ row[request[q].id].status # request[q].read
                         \/ row[request[q].id].deleted)
      /\ withdrawn' \in BOOLEAN
  BY DEF AdminWrite, ApiTypeOK
<1>3. /\ request' \in [Requests -> Request] /\ request'[q].pc = pc
      /\ \A p \in Requests \ {q} : request'[p] = request[p]
      /\ Quiet' => Quiet
  BY <1>1, <1>2, GoesShape
<1>4. row' \in [Ids -> Row]
  <2> DEFINE i == request[q].id
  <2>1. CASE row' = [row EXCEPT ![i].status = request[q].to]
    <3>1. request[q].to \in {"none"} \cup Statuses
      BY DEF ApiTypeOK, Request
    <3> QED  BY <2>1, <3>1 DEF ApiTypeOK, Row
  <2>2. CASE row' = [row EXCEPT ![i].version = @ + 1]
    <3>1. CASE i \in Ids
      <4>1. row' = [row EXCEPT ![i] = [row[i] EXCEPT !.version = row[i].version + 1]]
        BY <2>2
      <4>2. [row[i] EXCEPT !.version = row[i].version + 1] \in Row
        BY <3>1 DEF ApiTypeOK, Row
      <4> QED  BY <3>1, <4>1, <4>2 DEF ApiTypeOK
    <3>2. CASE i \notin Ids
      BY <2>2, <3>2 DEF ApiTypeOK
    <3> QED  BY <3>1, <3>2
  <2>3. CASE row' = [row EXCEPT ![i].deleted = TRUE]
    BY <2>3 DEF ApiTypeOK, Row
  <2>4. CASE Insert("approved")
    BY <2>4, InsertShape DEF Statuses
  <2> QED  BY <2>1, <2>2, <2>3, <2>4 DEF AdminWrite
<1>5. raced' \in BOOLEAN /\ (~raced' => ~raced)
  <2>1. CASE request[q].id \in Ids
    BY <1>2, <2>1 DEF ApiTypeOK, Row
  <2>2. CASE request[q].id \notin Ids
    BY <1>2, <2>2 DEF ApiTypeOK
  <2> QED  BY <2>1, <2>2
<1>6. ApiTypeOK' /\ ReservedFirst' /\ AimInv'
  <2>1. ApiTypeOK'
    BY <1>2, <1>3, <1>4, <1>5 DEF ApiTypeOK
  <2>2. ReservedFirst' /\ AimInv'
    BY <1>1, <1>2, <1>3 DEF ReservedFirst, AimInv
  <2> QED  BY <2>1, <2>2
<1>7. ASSUME ~raced', Quiet'
      PROVE  Rows(1, Preview)' = Rows(1, Preview) /\ Public(row)' = Public(row)
  <2>1. request'[q].pc # "scan"
    BY <1>7 DEF Quiet
  <2>2. /\ Public(row') = Public(row)
        /\ \A j \in Public(row) : row'[j].version = row[j].version
    BY <1>7, <2>1, QuietWrite
  <2> QED  BY <2>2, ListsKept DEF Public
<1>8. CacheFollows' /\ FillsFollow'
  BY <1>2, <1>3, <1>5, <1>7, CacheKept
<1> QED  BY <1>6, <1>8

\* An invalidation that is over leaves no fill that had begun to read and is not
\* known to have missed it.
LEMMA OverShape ==
  ASSUME ApiTypeOK, NEW q \in Requests, InvalidationOver(q)
  PROVE  /\ request' \in [Requests -> Request] /\ request'[q].pc = "done"
         /\ \A p \in Requests \ {q} : request'[p] = request[p]
         /\ fill' \in [Readers -> Fill]
         /\ \A r \in Readers : /\ fill'[r].list = fill[r].list
                               /\ fill'[r].active /\ ~fill'[r].missed => fill'[r].todo = Queries
         /\ UNCHANGED <<row, cooldown, recent, raced, withdrawn>>
<1>1. /\ request' \in [Requests -> Request] /\ request'[q].pc = "done"
      /\ \A p \in Requests \ {q} : request'[p] = request[p]
  BY GoesShape DEF InvalidationOver
<1> DEFINE late(r) == fill[r].missed \/ (fill[r].active /\ fill[r].todo # Queries)
<1>2. ASSUME NEW r \in Readers
      PROVE  /\ fill'[r] = [fill[r] EXCEPT !.missed = late(r)]
             /\ fill[r] \in Fill /\ late(r) \in BOOLEAN
  BY <1>2 DEF InvalidationOver, ApiTypeOK, Fill
<1>3. fill' = [r \in Readers |-> fill'[r]]
  BY DEF InvalidationOver
<1>4. ASSUME NEW r \in Readers
      PROVE  /\ fill'[r] \in Fill /\ fill'[r].list = fill[r].list
             /\ fill'[r].active /\ ~fill'[r].missed => fill'[r].todo = Queries
  BY <1>2 DEF Fill
<1>5. fill' \in [Readers -> Fill]
  BY <1>3, <1>4
<1> QED  BY <1>1, <1>4, <1>5 DEF InvalidationOver

LEMMA InvalidationKeeps ==
  ASSUME IInv, NEW q \in Requests, Scan(q) \/ Del(q) \/ InvalidationFails(q)
  PROVE  IInv'
<1> USE DEF IInv
<1>1. CASE Scan(q) /\ entry.present
  <2>1. /\ Goes(q, "del")
        /\ UNCHANGED <<row, cooldown, recent, entry, fill, raced, withdrawn, faults>>
    BY <1>1 DEF Scan
  <2>2. /\ request' \in [Requests -> Request] /\ request'[q].pc = "del"
        /\ \A p \in Requests \ {q} : request'[p] = request[p]
    BY <2>1, GoesShape
  <2>3. ApiTypeOK' /\ ReservedFirst' /\ AimInv'
    BY <2>1, <2>2 DEF ApiTypeOK, ReservedFirst, AimInv
  <2>4. ~Quiet'
    BY <2>2 DEF Quiet
  <2> QED  BY <2>3, <2>4 DEF CacheFollows, FillsFollow
<1>2. CASE InvalidationOver(q) /\ (UNCHANGED faults \/ Fault) /\ entry' \in Entry
           /\ (entry'.present => entry'.missed)
  <2>1. /\ request' \in [Requests -> Request] /\ request'[q].pc = "done"
        /\ \A p \in Requests \ {q} : request'[p] = request[p]
        /\ fill' \in [Readers -> Fill]
        /\ \A r \in Readers : fill'[r].active /\ ~fill'[r].missed => fill'[r].todo = Queries
        /\ UNCHANGED <<row, cooldown, recent, raced, withdrawn>>
    BY <1>2, OverShape
  <2>2. faults' \in 0..MaxFaults /\ (faults' = 0 => faults = 0)
    BY <1>2, FaultShape
  <2>3. ApiTypeOK' /\ ReservedFirst' /\ AimInv'
    BY <1>2, <2>1, <2>2 DEF ApiTypeOK, ReservedFirst, AimInv
  <2>4. CacheFollows' /\ FillsFollow'
    BY <1>2, <2>1 DEF CacheFollows, FillsFollow, Queries
  <2> QED  BY <2>3, <2>4
<1>3. CASE ~(Scan(q) /\ entry.present)
  <2>1. InvalidationOver(q) /\ (UNCHANGED faults \/ Fault)
    BY <1>3 DEF Scan, Del, InvalidationFails
  <2>2. entry \in Entry
    BY DEF ApiTypeOK
  <2>3. \/ entry' = entry /\ ~entry.present
        \/ entry' = NoEntry
        \/ entry' = [entry EXCEPT !.missed = entry.present]
    BY <1>3 DEF Scan, Del, InvalidationFails
  <2>4. entry' \in Entry /\ (entry'.present => entry'.missed)
    BY <2>2, <2>3, NoListShape DEF Entry, NoEntry
  <2> QED  BY <1>2, <2>1, <2>4
<1> QED  BY <1>1, <1>3

-----------------------------------------------------------------------------
(***************************************************************************)
(* The places of comments in a list.                                       *)
(***************************************************************************)

\* What is a list of comments is finite, and no longer than the bound.
LEMMA FewIds ==
  ASSUME CommentsAssumption, NEW S \in SUBSET Ids
  PROVE  IsFiniteSet(S) /\ Cardinality(S) \in 0..MaxComments
<1>1. MaxComments \in Nat
  BY DEF CommentsAssumption
<1>2. IsFiniteSet(Ids) /\ Cardinality(Ids) = MaxComments
  BY <1>1, FS_Interval DEF Ids
<1>3. IsFiniteSet(S) /\ Cardinality(S) <= MaxComments
  BY <1>2, FS_Subset
<1> QED  BY <1>1, <1>3, FS_CardinalityType

\* The place i has among the comments S.
PlaceIn(S, i) == Cardinality({j \in S : j <= i})

\* A place is never before one among fewer comments, or of an older comment.
LEMMA PlaceGrows ==
  ASSUME CommentsAssumption, NEW T \in SUBSET Ids, NEW S \in SUBSET T,
         NEW i \in Ids, NEW j \in Ids, i <= j
  PROVE  /\ PlaceIn(S, i) \in Nat /\ PlaceIn(T, j) \in Nat
         /\ PlaceIn(S, i) <= PlaceIn(T, j)
<1> DEFINE A == {k \in S : k <= i}
           B == {k \in T : k <= j}
<1>1. A \subseteq B
  <2>1. MaxComments \in Nat
    BY DEF CommentsAssumption
  <2>2. i \in Int /\ j \in Int
    BY <2>1 DEF Ids
  <2>3. SUFFICES ASSUME NEW k \in S, k <= i PROVE k \in T /\ k <= j
    OBVIOUS
  <2>4. k \in T /\ k \in Int
    BY <2>1 DEF Ids
  <2> HIDE DEF A, B
  <2> QED  BY <2>2, <2>3, <2>4
<1>2. IsFiniteSet(B) /\ Cardinality(B) \in Nat
  BY FewIds
<1>3. Cardinality(A) \in Nat
  BY FewIds
<1>4. Cardinality(A) <= Cardinality(B)
  BY <1>1, <1>2, FS_Subset
<1> QED  BY <1>2, <1>3, <1>4 DEF PlaceIn

\* The last of some comments has their number as its place.
LEMMA PlaceOfLast ==
  ASSUME CommentsAssumption, NEW T \in SUBSET Ids, NEW S \in SUBSET T,
         NEW i \in T \ S, \A j \in S : j < i
  PROVE  PlaceIn(T, i) > Cardinality(S)
<1> DEFINE B == {k \in T : k <= i}
<1>1. S \cup {i} \subseteq B
  BY DEF Ids
<1>2. IsFiniteSet(B) /\ Cardinality(B) \in Nat
  BY FewIds
<1>3. IsFiniteSet(S) /\ Cardinality(S) \in Nat
  BY FewIds
<1>4. Cardinality(S \cup {i}) = Cardinality(S) + 1
  BY <1>3, FS_AddElement
<1>5. Cardinality(S \cup {i}) <= Cardinality(B)
  BY <1>1, <1>2, FS_Subset
<1> QED  BY <1>2, <1>3, <1>4, <1>5 DEF PlaceIn

LEMMA PlaceIsIn == \A i : Place(i) = PlaceIn(Public(row), i)
BY DEF Place, PlaceIn

\* A place is one of those the count numbers.
LEMMA PlaceType ==
  ASSUME CommentsAssumption, NEW i \in Public(row)
  PROVE  Place(i) \in 1..Cardinality(Public(row))
<1>1. Public(row) \in SUBSET Ids /\ i \in Ids
  BY DEF Public
<1>2. IsFiniteSet(Public(row)) /\ Cardinality(Public(row)) \in Nat
  BY <1>1, FewIds
<1> DEFINE B == {j \in Public(row) : j <= i}
<1>3. Cardinality(B) <= Cardinality(Public(row))
  BY <1>2, FS_Subset
<1>4. B \in SUBSET Ids
  BY <1>1
<1>5. IsFiniteSet(B) /\ Cardinality(B) \in Nat
  BY <1>4, FewIds
<1>6. Cardinality(B) # 0
  <2>1. i \in B
    BY <1>1 DEF Ids
  <2> HIDE DEF B
  <2> QED  BY <1>5, <2>1, FS_EmptySet
<1> QED  BY <1>2, <1>3, <1>5, <1>6 DEF Place

\* The comments of a page are those of its places.
LEMMA RowsIds ==
  ASSUME NEW f, NEW l
  PROVE  {c.id : c \in Rows(f, l)} = {j \in Public(row) : Place(j) \in f..l}
<1> DEFINE Here == {j \in Public(row) : Place(j) \in f..l}
<1>1. Rows(f, l) = {[id |-> i, version |-> row[i].version] : i \in Here}
  BY DEF Rows
<1> HIDE DEF Here
<1>2. ASSUME NEW i \in Here PROVE i \in {c.id : c \in Rows(f, l)}
  <2> DEFINE c == [id |-> i, version |-> row[i].version]
  <2>1. c \in Rows(f, l) /\ c.id = i
    BY <1>1
  <2> QED  BY <2>1
<1>3. ASSUME NEW c \in Rows(f, l) PROVE c.id \in Here
  BY <1>1
<1> QED  BY <1>2, <1>3 DEF Here

\* The first rows begin the list of all comments, and can be listed and counted.
LEMMA RowsBegin ==
  ASSUME ApiTypeOK
  PROVE  /\ Public(row) \in SUBSET Ids
         /\ Cardinality(Public(row)) \in 0..MaxComments
         /\ Rows(1, Preview) \in SUBSET Shown
         /\ \A n : Begins([comments |-> Rows(1, Preview), count |-> n, all |-> Public(row)])
<1> USE CommentsAssumption
<1>1. Public(row) \in SUBSET Ids
  BY DEF Public
<1>2. Cardinality(Public(row)) \in 0..MaxComments
  BY <1>1, FewIds
<1>3. Rows(1, Preview) \in SUBSET Shown
  BY <1>1 DEF Rows, Shown, ApiTypeOK, Row
<1> DEFINE ids == {j \in Public(row) : Place(j) \in 1..Preview}
<1>4. {c.id : c \in Rows(1, Preview)} = ids
  BY RowsIds
<1>5. \A i \in ids, j \in Public(row) \ ids : i < j
  <2>1. SUFFICES ASSUME NEW i \in ids, NEW j \in Public(row) \ ids, j <= i PROVE FALSE
    BY <1>1 DEF Ids, CommentsAssumption
  <2>2. Place(j) <= Place(i)
    BY <1>1, <2>1, PlaceGrows, PlaceIsIn
  <2>3. Place(j) \in 1..Cardinality(Public(row)) /\ Place(i) \in 1..Cardinality(Public(row))
    BY PlaceType
  <2>4. Preview \in Nat /\ Place(i) \in 1..Preview
    BY DEF CommentsAssumption
  <2>5. Place(j) \in 1..Preview
    BY <1>2, <2>2, <2>3, <2>4
  <2> QED  BY <2>5
<1>6. ids \subseteq Public(row)
  OBVIOUS
<1> HIDE DEF ids
<1>7. ASSUME NEW n
      PROVE  Begins([comments |-> Rows(1, Preview), count |-> n, all |-> Public(row)])
  BY <1>4, <1>5, <1>6 DEF Begins
<1> QED  BY <1>1, <1>2, <1>3, <1>7

-----------------------------------------------------------------------------
\* The fills of the cache, the clocks and the visitor.

LEMMA FillKeeps ==
  ASSUME IInv, NEW r \in Readers,
         Miss(r) \/ ReadRows(r) \/ ReadCount(r) \/ StoreEntry(r) \/ FillFails(r)
  PROVE  IInv'
<1> USE DEF IInv
<1>1. UNCHANGED <<row, request, cooldown, recent, raced, withdrawn>>
  BY DEF Miss, ReadRows, ReadCount, Asked, StoreEntry, FillFails, readRest
<1>2. /\ Rows(1, Preview)' = Rows(1, Preview) /\ Public(row)' = Public(row)
      /\ Quiet' = Quiet
  BY <1>1, SameLists DEF Quiet
<1>3. fill[r] \in Fill /\ fill \in [Readers -> Fill]
  BY DEF ApiTypeOK
<1>4. SUFFICES ASSUME NEW f \in Fill, fill' = [fill EXCEPT ![r] = f],
                      f.active /\ ~f.missed /\ ~raced /\ Quiet =>
                        /\ "rows" \notin f.todo => f.list.comments = Rows(1, Preview)
                        /\ "count" \notin f.todo => f.list.count = Cardinality(Public(row)),
                      UNCHANGED faults \/ Fault,
                      \/ UNCHANGED entry
                      \/ /\ entry' = [present |-> TRUE, list |-> fill[r].list,
                                      missed |-> fill[r].missed]
                         /\ fill[r].active /\ fill[r].todo = {}
               PROVE  IInv'
  <2>1. CASE Miss(r)
    <3> DEFINE f == [NoFill EXCEPT !.active = TRUE]
    <3>1. fill' = [fill EXCEPT ![r] = f] /\ UNCHANGED <<entry, faults>>
      BY <2>1 DEF Miss
    <3>2. f \in Fill
      BY NoListShape DEF Fill
    <3>3. f.todo = Queries
      BY DEF NoFill
    <3> QED  BY <1>4, <3>1, <3>2, <3>3 DEF Queries
  <2>2. CASE ReadRows(r)
    <3> DEFINE list == [fill[r].list EXCEPT !.comments = Rows(1, Preview), !.all = Public(row)]
               f == [fill[r] EXCEPT !.todo = @ \ {"rows"}, !.list = list]
    <3>1. fill[r].active /\ UNCHANGED <<entry, faults>>
      BY <2>2 DEF ReadRows, Asked
    <3>2. fill' = [fill EXCEPT ![r] = f]
      BY <1>3, <2>2 DEF ReadRows, Fill, List
    <3>3. list \in List /\ list.comments = Rows(1, Preview) /\ list.count = fill[r].list.count
      BY <1>3, RowsBegin DEF Fill, List
    <3> HIDE DEF list
    <3>4. f \in Fill /\ f.list = list /\ f.missed = fill[r].missed
          /\ ("count" \notin f.todo => "count" \notin fill[r].todo)
      BY <1>3, <3>3 DEF Fill
    <3> QED  BY <1>4, <3>1, <3>2, <3>3, <3>4 DEF FillsFollow
  <2>3. CASE ReadCount(r)
    <3> DEFINE list == [fill[r].list EXCEPT !.count = Cardinality(Public(row))]
               f == [fill[r] EXCEPT !.todo = @ \ {"count"}, !.list = list]
    <3>1. fill[r].active /\ UNCHANGED <<entry, faults>>
      BY <2>3 DEF ReadCount, Asked
    <3>2. fill' = [fill EXCEPT ![r] = f]
      BY <1>3, <2>3 DEF ReadCount, Fill, List
    <3>3. /\ list \in List /\ list.count = Cardinality(Public(row))
          /\ list.comments = fill[r].list.comments
      BY <1>3, RowsBegin DEF Fill, List
    <3> HIDE DEF list
    <3>4. f \in Fill /\ f.list = list /\ f.missed = fill[r].missed
          /\ ("rows" \notin f.todo => "rows" \notin fill[r].todo)
      BY <1>3, <3>3 DEF Fill
    <3> QED  BY <1>4, <3>1, <3>2, <3>3, <3>4 DEF FillsFollow
  <2>4. CASE StoreEntry(r)
    BY <1>4, <2>4, NoListShape DEF StoreEntry, NoFill
  <2>5. CASE FillFails(r)
    BY <1>4, <2>5, NoListShape DEF FillFails, NoFill, readRest
  <2> QED  BY <2>1, <2>2, <2>3, <2>4, <2>5
<1>5. fill' \in [Readers -> Fill] /\ fill'[r] = f /\ \A p \in Readers \ {r} : fill'[p] = fill[p]
  BY <1>3, <1>4
<1>6. entry' \in Entry
  <2>1. fill[r].list \in List /\ fill[r].missed \in BOOLEAN
    BY <1>3 DEF Fill
  <2>2. entry \in Entry
    BY DEF ApiTypeOK
  <2>3. CASE UNCHANGED entry
    BY <2>2, <2>3
  <2>4. CASE entry' = [present |-> TRUE, list |-> fill[r].list, missed |-> fill[r].missed]
    BY <2>1, <2>4 DEF Entry
  <2> QED  BY <1>4, <2>3, <2>4
<1>7. faults' \in 0..MaxFaults /\ (faults' = 0 => UNCHANGED faults)
  BY <1>4, FaultShape
<1>8. ApiTypeOK' /\ ReservedFirst' /\ AimInv'
  BY <1>1, <1>5, <1>6, <1>7 DEF ApiTypeOK, ReservedFirst, AimInv
<1>9. FillsFollow'
  <2>1. SUFFICES ASSUME ~raced, Quiet, NEW p \in Readers, fill'[p].active, ~fill'[p].missed
                 PROVE  /\ "rows" \notin fill'[p].todo
                             => fill'[p].list.comments = Rows(1, Preview)
                        /\ "count" \notin fill'[p].todo
                             => fill'[p].list.count = Cardinality(Public(row))
    BY <1>1, <1>2 DEF FillsFollow
  <2>2. CASE p = r
    BY <1>4, <1>5, <2>1, <2>2
  <2>3. CASE p # r
    BY <1>5, <2>1, <2>3 DEF FillsFollow
  <2> QED  BY <2>2, <2>3
<1>10. CacheFollows'
  <2>1. CASE UNCHANGED entry
    BY <1>1, <1>2, <2>1 DEF CacheFollows
  <2>2. CASE /\ entry' = [present |-> TRUE, list |-> fill[r].list, missed |-> fill[r].missed]
             /\ fill[r].active /\ fill[r].todo = {}
    BY <1>1, <1>2, <2>2 DEF CacheFollows, FillsFollow
  <2> QED  BY <1>4, <2>1, <2>2
<1> QED  BY <1>8, <1>9, <1>10

LEMMA OthersKeep ==
  ASSUME IInv, CooldownExpires \/ EntryExpires \/ UNCHANGED apiVars
  PROVE  IInv'
<1> USE DEF IInv
<1>1. UNCHANGED <<row, request, fill, raced, withdrawn, faults>>
  BY DEF CooldownExpires, EntryExpires, readRest, apiVars
<1>2. Rows(1, Preview)' = Rows(1, Preview) /\ Public(row)' = Public(row) /\ Quiet' = Quiet
  BY <1>1, SameLists DEF Quiet
<1>3. CASE CooldownExpires
  <2>1. ApiTypeOK' /\ ReservedFirst' /\ AimInv'
    BY <1>3 DEF CooldownExpires, ApiTypeOK, ReservedFirst, AimInv
  <2> QED  BY <1>2, <1>3, <2>1, CacheKept DEF CooldownExpires
<1>4. CASE EntryExpires
  <2>1. UNCHANGED <<cooldown, recent>> /\ entry' = NoEntry /\ ~entry'.present
    BY <1>4 DEF EntryExpires, NoEntry, readRest
  <2>2. ApiTypeOK' /\ ReservedFirst' /\ AimInv'
    BY <1>1, <2>1, NoListShape DEF ApiTypeOK, ReservedFirst, AimInv
  <2>3. CacheFollows' /\ FillsFollow'
    BY <1>1, <1>2, <2>1 DEF CacheFollows, FillsFollow
  <2> QED  BY <2>2, <2>3
<1>5. CASE UNCHANGED apiVars
  <2>1. ApiTypeOK' /\ ReservedFirst' /\ AimInv'
    BY <1>5 DEF apiVars, ApiTypeOK, ReservedFirst, AimInv
  <2> QED  BY <1>2, <1>5, <2>1, CacheKept DEF apiVars
<1> QED  BY <1>3, <1>4, <1>5

LEMMA NextIInv ==
  ASSUME IInv, [Next]_vars PROVE IInv'
<1>1. CASE ApiNext
  BY <1>1, SubmissionKeeps, ReadKeeps, WriteKeeps, InvalidationKeeps, FillKeeps, OthersKeep
  DEF ApiNext
<1>2. CASE UNCHANGED apiVars
  BY <1>2, OthersKeep
<1> QED  BY <1>1, <1>2 DEF Next, RenderPage, PageExpires, OpenSection, ReadTotal, ReadPage,
                           Loads, ShowPage, LoadFails, vars

LEMMA IInvAlways == Spec => []IInv
<1>1. Init => IInv
  BY InitIInv
<1>2. IInv /\ [Next]_vars => IInv'
  BY NextIInv
<1> QED  BY <1>1, <1>2, PTL DEF Spec

-----------------------------------------------------------------------------
\* A moderation that is done is seen by whoever reads the cached detail, for any
\* number of requests, readers and comments: every write that changes what is
\* public is followed by its invalidation, unless it found another status than was
\* read; and what an invalidation left behind, or let pass, is known as missed.
THEOREM CacheFollowsAlways == Spec => []CacheFollows
<1>1. IInv => CacheFollows
  BY DEF IInv
<1> QED  BY <1>1, IInvAlways, PTL

\* However many submissions of one address overlap, none passes the check after
\* another was stored, before the cooldown is over, while Redis answers.
THEOREM CooldownHoldsAlways == Spec => CooldownHolds
<1> DEFINE Late(q) == recent /\ request[q].pc = "new" /\ request'[q].pc = "reserve"
<1>1. ASSUME IInv, [Next]_vars
      PROVE  [\A q \in Requests : Late(q) => faults' > 0]_vars
  <2>1. SUFFICES ASSUME Next, NEW q \in Requests, Late(q) PROVE faults' > 0
    BY <1>1
  <2>2. CASE CheckCooldown(q)
    <3>1. PICK pc \in {"done", "reserve"} :
            /\ Goes(q, pc)
            /\ (UNCHANGED faults /\ (cooldown.redis => pc = "done")) \/ Fault
      BY <2>2 DEF CheckCooldown
    <3>2. request'[q].pc = pc
      BY <1>1, <3>1, GoesShape DEF IInv
    <3>3. ~cooldown.redis \/ Fault
      BY <2>1, <3>1, <3>2
    <3>4. CASE Fault
      BY <1>1, <3>4 DEF Fault, IInv, ApiTypeOK
    <3>5. CASE UNCHANGED faults /\ ~cooldown.redis
      <4>1. faults # 0 /\ faults \in Nat
        BY <1>1, <2>1, <3>5 DEF IInv, ApiTypeOK, ReservedFirst
      <4> QED  BY <3>5, <4>1
    <3> QED  BY <3>1, <3>2, <3>4, <3>5, <2>1
  <2>3. CASE ~CheckCooldown(q)
    <3> DEFINE Step(p) == \/ CheckCooldown(p) \/ Reserve(p) \/ Store(p)
                          \/ AdminRead(p) \/ AdminWrite(p)
                          \/ Scan(p) \/ Del(p) \/ InvalidationFails(p)
    <3>1. PICK p \in Requests \ {q} : Step(p)
      <4>1. request' # request
        BY <2>1
      <4>2. PICK p \in Requests : Step(p)
        BY <2>1, <4>1
        DEF Next, ApiNext, Miss, ReadRows, ReadCount, Asked, StoreEntry, FillFails, readRest,
            CooldownExpires, EntryExpires, RenderPage, PageExpires, OpenSection, ReadTotal,
            ReadPage, Loads, ShowPage, LoadFails, apiVars
      <4>3. p # q
        <5>1. ~(Reserve(q) \/ Store(q) \/ AdminWrite(q) \/ Scan(q) \/ Del(q)
                \/ InvalidationFails(q))
          BY <2>1 DEF Reserve, Store, AdminWrite, Scan, Del, InvalidationFails
        <5>2. ~AdminRead(q)
          <6>1. SUFFICES ASSUME AdminRead(q) PROVE FALSE
            OBVIOUS
          <6>2. request'[q].pc \in {"done", "write"}
            BY <1>1, <6>1, ReadShape DEF IInv
          <6> QED  BY <2>1, <6>2
        <5> QED  BY <4>2, <5>1, <5>2, <2>3
      <4> QED  BY <4>2, <4>3
    <3>2. request'[q] = request[q]
      <4>1. CASE AdminRead(p)
        BY <1>1, <4>1, ReadShape DEF IInv
      <4>2. CASE ~AdminRead(p)
        <5>1. PICK pc \in {"reserve", "insert", "scan", "del", "done"} : Goes(p, pc)
          BY <3>1, <4>2 DEF CheckCooldown, Reserve, Store, AdminWrite, Scan, Del,
                            InvalidationFails, InvalidationOver
        <5> QED  BY <1>1, <5>1, GoesShape DEF IInv
      <4> QED  BY <4>1, <4>2
    <3> QED  BY <2>1, <3>2
  <2> QED  BY <2>2, <2>3
<1> QED  BY <1>1, IInvAlways, PTL DEF Spec, CooldownHolds

-----------------------------------------------------------------------------
\* The pages there are, and the comments on them.
LEMMA DivBounds ==
  ASSUME NEW a \in Nat, NEW b \in Nat \ {0}
  PROVE  a \div b \in 0..a /\ (a \div b) * b <= a
BY SMT

LEMMA LastPage ==
  ASSUME NEW total \in Nat, NEW b \in Nat \ {0}
  PROVE  /\ (total + b - 1) \div b \in 0..total
         /\ \A n \in Nat : ~(n < (total + b - 1) \div b) => total <= n * b
BY SMT

LEMMA NextFirst ==
  ASSUME NEW n \in Nat \ {0}, NEW b \in Nat \ {0}, NEW p \in Nat,
         p > (n - 1) * b, p \notin ((n - 1) * b + 1)..(n * b)
  PROVE  p > (n + 1 - 1) * b
BY SMT

-----------------------------------------------------------------------------
(***************************************************************************)
(* The lists and the pages, on top of IInv.                                *)
(***************************************************************************)

PagesInv == TypeOK /\ ListsBegin /\ StillAhead /\ LoadInv /\ PagesEnd

LEMMA InitPagesInv ==
  ASSUME Init PROVE PagesInv
<1>1. /\ entry = NoEntry /\ page = NoPage /\ section = Closed /\ load = NoLoad
      /\ \A r \in Readers : fill[r] = NoFill
  BY DEF Init, ApiInit
<1>2. MaxComments \in Nat
  BY CommentsAssumption DEF CommentsAssumption
<1>3. NoPage \in [present : BOOLEAN, list : List] /\ Closed \in Section /\ NoLoad \in Load
  BY <1>2, NoListShape DEF NoPage, Closed, Section, NoLoad, Load
<1>4. TypeOK
  BY <1>1, <1>3, InitIInv DEF TypeOK, IInv
<1>5. \A list \in Lists : list = NoList
  BY <1>1 DEF Lists, NoEntry, NoPage, NoFill
<1>6. ListsBegin
  BY <1>5, NoListShape DEF ListsBegin, NoList
<1> QED  BY <1>1, <1>4, <1>6 DEF PagesInv, StillAhead, LoadInv, PagesEnd, Closed

\* Unless something was withdrawn, what was public is.
LEMMA PublicGrows ==
  ASSUME ApiTypeOK, ApiNext, ~withdrawn'
  PROVE  ~withdrawn /\ Public(row) \subseteq Public(row')
<1>1. CASE UNCHANGED <<row, withdrawn>>
  BY <1>1 DEF Public
<1>2. CASE \E q \in Requests : AdminWrite(q)
  BY <1>2 DEF AdminWrite, ApiTypeOK
<1>3. CASE \E q \in Requests : Store(q)
  <2>1. Insert("pending") /\ UNCHANGED withdrawn
    BY <1>3 DEF Store
  <2>2. PICK i \in Ids : /\ row[i].status = "none"
                        /\ row' = [row EXCEPT ![i].status = "pending"]
    BY <2>1, InsertShape DEF Statuses
  <2>3. row' = [row EXCEPT ![i] = [row[i] EXCEPT !.status = "pending"]]
    BY <2>2
  <2>4. [row[i] EXCEPT !.status = "pending"].status = "pending"
    BY DEF ApiTypeOK, Row
  <2>5. Public(row') = Public(row)
    BY <2>2, <2>3, <2>4, RowChange
  <2> QED  BY <2>1, <2>5
<1> QED  BY <1>1, <1>2, <1>3
         DEF ApiNext, CheckCooldown, Reserve, AdminRead, Scan, Del, InvalidationFails,
             InvalidationOver, Miss, ReadRows, ReadCount, Asked, StoreEntry, FillFails,
             CooldownExpires, EntryExpires, readRest

\* The lists in the cache and on the way to it.
LEMMA ApiKeepsLists ==
  ASSUME ApiTypeOK, ListsBegin, ApiNext, UNCHANGED page
  PROVE  ListsBegin'
<1> DEFINE Good(list) == Begins(list) /\ (~withdrawn' => list.all \subseteq Public(row'))
<1>1. ~withdrawn' => ~withdrawn /\ Public(row) \subseteq Public(row')
  BY PublicGrows
<1>2. \A list \in Lists : Good(list)
  BY <1>1 DEF ListsBegin
<1>3. Good(entry.list) /\ Good(page.list) /\ \A r \in Readers : Good(fill[r].list)
  BY <1>2 DEF Lists
<1>4. Good(NoList)
  BY NoListShape DEF NoList
<1> HIDE DEF Good
<1>5. Good(entry'.list) /\ \A r \in Readers : Good(fill'[r].list)
  <2>1. CASE UNCHANGED <<entry, fill>>
    BY <1>3, <2>1
  <2>2. CASE EntryExpires
    BY <1>3, <1>4, <2>2 DEF EntryExpires, NoEntry
  <2>3. ASSUME NEW q \in Requests, InvalidationOver(q),
               \/ entry' \in {entry, NoEntry}
               \/ entry' = [entry EXCEPT !.missed = entry.present]
        PROVE  Good(entry'.list) /\ \A r \in Readers : Good(fill'[r].list)
    <3>1. \A r \in Readers : fill'[r].list = fill[r].list
      BY <2>3, OverShape
    <3>2. entry'.list \in {entry.list, NoList}
      BY <2>3 DEF NoEntry, ApiTypeOK, Entry
    <3> QED  BY <1>3, <1>4, <3>1, <3>2
  <2>4. ASSUME NEW r \in Readers,
               Miss(r) \/ ReadRows(r) \/ ReadCount(r) \/ StoreEntry(r) \/ FillFails(r)
        PROVE  Good(entry'.list) /\ \A p \in Readers : Good(fill'[p].list)
    <3>1. fill \in [Readers -> Fill] /\ fill[r] \in Fill
      BY DEF ApiTypeOK
    <3>2. \/ UNCHANGED entry
          \/ entry' = [present |-> TRUE, list |-> fill[r].list, missed |-> fill[r].missed]
      BY <2>4 DEF Miss, ReadRows, ReadCount, Asked, StoreEntry, FillFails
    <3>3. Good(entry'.list)
      BY <1>3, <3>2
    <3>4. SUFFICES ASSUME NEW f, fill' = [fill EXCEPT ![r] = f], Good(f.list)
                   PROVE  \A p \in Readers : Good(fill'[p].list)
      <4>1. CASE Miss(r) \/ StoreEntry(r) \/ FillFails(r)
        BY <1>4, <3>3, <3>4, <4>1 DEF Miss, StoreEntry, FillFails, NoFill
      <4>2. CASE ReadRows(r)
        <5> DEFINE list == [fill[r].list EXCEPT !.comments = Rows(1, Preview), !.all = Public(row)]
                   f == [fill[r] EXCEPT !.todo = @ \ {"rows"}, !.list = list]
        <5>1. fill' = [fill EXCEPT ![r] = f]
          BY <3>1, <4>2 DEF ReadRows, Fill, List
        <5>2. list.comments = Rows(1, Preview) /\ list.all = Public(row)
          BY <3>1 DEF Fill, List
        <5> HIDE DEF list
        <5>3. row' = row
          BY <4>2 DEF ReadRows, Asked, readRest
        <5>4. Begins(list)
          BY <5>2, RowsBegin DEF Begins
        <5>5. Good(list)
          BY <5>2, <5>3, <5>4 DEF Good
        <5>6. f.list = list
          BY <3>1 DEF Fill
        <5> QED  BY <3>3, <3>4, <5>1, <5>5, <5>6
      <4>3. CASE ReadCount(r)
        <5> DEFINE list == [fill[r].list EXCEPT !.count = Cardinality(Public(row))]
                   f == [fill[r] EXCEPT !.todo = @ \ {"count"}, !.list = list]
        <5>1. fill' = [fill EXCEPT ![r] = f]
          BY <3>1, <4>3 DEF ReadCount, Fill, List
        <5>2. list.comments = fill[r].list.comments /\ list.all = fill[r].list.all
          BY <3>1 DEF Fill, List
        <5> HIDE DEF list
        <5>3. Good(list)
          BY <1>3, <5>2 DEF Good, Begins
        <5>4. f.list = list
          BY <3>1 DEF Fill
        <5> QED  BY <3>3, <3>4, <5>1, <5>3, <5>4
      <4> QED  BY <2>4, <4>1, <4>2, <4>3
    <3>5. fill'[r] = f /\ \A p \in Readers \ {r} : fill'[p] = fill[p]
      BY <3>1, <3>4
    <3> QED  BY <1>3, <3>4, <3>5
  <2> QED  BY <2>1, <2>2, <2>3, <2>4
           DEF ApiNext, CheckCooldown, Reserve, Store, AdminRead, AdminWrite, Scan, Del,
               InvalidationFails, CooldownExpires
<1> QED  BY <1>3, <1>5 DEF ListsBegin, Lists, Good

\* While the page, the section and its load stay as they are.
LEMMA ApiKeepsPages ==
  ASSUME PagesInv, ApiTypeOK', ApiNext, UNCHANGED <<page, section, load>>
  PROVE  PagesInv'
<1> USE CommentsAssumption DEF PagesInv
<1>1. TypeOK'
  BY DEF TypeOK
<1>2. /\ Public(row)' = Public(row')
      /\ ~withdrawn' => ~withdrawn /\ Public(row) \subseteq Public(row')
  BY PublicGrows DEF Public, TypeOK
<1>3. ListsBegin'
  BY ApiKeepsLists DEF TypeOK
<1>4. StillAhead'
  <2>1. SUFFICES ASSUME section.open, ~withdrawn'
                 PROVE  /\ section.all \subseteq Public(row')
                        /\ \A i \in section.all \ section.loaded :
                             /\ Place(i)' > (section.nextPage - 1) * PerPage
                             /\ section.short \/ section.hasMore
                             /\ "rows" \notin load.todo /\ i \notin load.got =>
                                  /\ Place(i)' > section.nextPage * PerPage
                                  /\ "count" \notin load.todo /\ ~load.short
                                       => load.total > section.nextPage * PerPage
    BY <1>2 DEF StillAhead
  <2>2. section.all \subseteq Public(row) /\ Public(row) \subseteq Public(row')
    BY <1>2, <2>1 DEF StillAhead
  <2>3. ASSUME NEW i \in section.all \ section.loaded
        PROVE  /\ Place(i)' > (section.nextPage - 1) * PerPage
               /\ section.short \/ section.hasMore
               /\ "rows" \notin load.todo /\ i \notin load.got =>
                    /\ Place(i)' > section.nextPage * PerPage
                    /\ "count" \notin load.todo /\ ~load.short
                         => load.total > section.nextPage * PerPage
    <3>1. /\ Place(i) > (section.nextPage - 1) * PerPage
          /\ section.short \/ section.hasMore
          /\ "rows" \notin load.todo /\ i \notin load.got =>
               /\ Place(i) > section.nextPage * PerPage
               /\ "count" \notin load.todo /\ ~load.short
                    => load.total > section.nextPage * PerPage
      BY <1>2, <2>1 DEF StillAhead
    <3>2. Place(i)' = PlaceIn(Public(row'), i)
      BY DEF Place, PlaceIn, Public
    <3>3. /\ Place(i) \in Nat /\ Place(i)' \in Nat
          /\ Place(i) <= Place(i)'
      <4>1. Public(row') \in SUBSET Ids /\ i \in Ids
        BY <2>2 DEF Public
      <4>2. i <= i
        BY <4>1 DEF Ids, CommentsAssumption
      <4> QED  BY <2>2, <3>2, <4>1, <4>2, PlaceGrows, PlaceIsIn
    <3>4. (section.nextPage - 1) * PerPage \in Int /\ section.nextPage * PerPage \in Int
      BY <1>1, PerPageAssumption DEF TypeOK, Section, PerPageAssumption
    <3>5. \A k \in Int : Place(i) > k => Place(i)' > k
      BY <3>3
    <3> QED  BY <3>1, <3>4, <3>5
  <2> QED  BY <2>2, <2>3
<1>5. PagesEnd' /\ LoadInv'
  BY DEF PagesEnd, LoadInv
<1> QED  BY <1>1, <1>3, <1>4, <1>5

LEMMA PageKeepsPages ==
  ASSUME PagesInv, RenderPage \/ PageExpires
  PROVE  PagesInv'
<1>1. /\ UNCHANGED <<row, request, cooldown, recent, entry, fill, raced, withdrawn, faults>>
      /\ UNCHANGED <<section, load>>
      /\ page' = [present |-> TRUE, list |-> entry.list] \/ page' = NoPage
  BY DEF RenderPage, PageExpires, apiVars
<1>2. TypeOK'
  <2>1. NoPage \in [present : BOOLEAN, list : List] /\ entry.list \in List
    BY NoListShape DEF NoPage, PagesInv, TypeOK, ApiTypeOK, Entry
  <2>2. CASE page' = [present |-> TRUE, list |-> entry.list]
    BY <1>1, <2>1, <2>2 DEF PagesInv, TypeOK, ApiTypeOK
  <2>3. CASE page' = NoPage
    BY <1>1, <2>1, <2>3 DEF PagesInv, TypeOK, ApiTypeOK
  <2> QED  BY <1>1, <2>2, <2>3
<1>3. ListsBegin'
  <2>1. Public(row)' = Public(row)
    BY <1>1 DEF Public
  <2>2. NoPage.list = NoList /\ NoList.all = {}
    BY DEF NoPage, NoList
  <2>3. Lists' \subseteq Lists \cup {NoList}
    BY <1>1, <2>2 DEF Lists
  <2>4. \A list \in Lists \cup {NoList} :
          Begins(list) /\ (~withdrawn => list.all \subseteq Public(row))
    BY <2>2, NoListShape DEF PagesInv, ListsBegin
  <2> QED  BY <1>1, <2>1, <2>3, <2>4 DEF ListsBegin
<1>4. StillAhead' /\ PagesEnd' /\ LoadInv'
  BY <1>1 DEF PagesInv, StillAhead, PagesEnd, LoadInv, Place, Public
<1> QED  BY <1>2, <1>3, <1>4 DEF PagesInv

\* What a step of the section or of its load leaves alone.
LEMMA Untouched ==
  ASSUME PagesInv, UNCHANGED <<apiVars, page>>
  PROVE  /\ row' = row /\ withdrawn' = withdrawn
         /\ Public(row)' = Public(row) /\ (\A i : Place(i)' = Place(i))
         /\ ListsBegin'
         /\ section' \in Section /\ load' \in Load => TypeOK'
<1>1. /\ UNCHANGED <<row, request, cooldown, recent, entry, fill, raced, withdrawn, faults>>
      /\ UNCHANGED page
  BY DEF apiVars
<1>2. Public(row)' = Public(row) /\ (\A i : Place(i)' = Place(i))
  BY <1>1 DEF Place, Public
<1>3. Lists' = Lists
  BY <1>1 DEF Lists
<1>4. ListsBegin'
  BY <1>1, <1>2, <1>3 DEF PagesInv, ListsBegin
<1>5. section' \in Section /\ load' \in Load => TypeOK'
  BY <1>1 DEF PagesInv, TypeOK, ApiTypeOK
<1> QED  BY <1>1, <1>2, <1>4, <1>5

\* The section starts with what the page shows.
LEMMA OpenKeepsPages ==
  ASSUME PagesInv, OpenSection
  PROVE  PagesInv'
<1> USE CommentsAssumption, PerPageAssumption DEF PagesInv
<1> DEFINE ids == {c.id : c \in page.list.comments}
           all == page.list.all
<1>1. /\ UNCHANGED <<apiVars, page>> /\ load' = load /\ ~section.open
      /\ section' = [open |-> TRUE, loaded |-> ids,
                     nextPage |-> FirstPage(Cardinality(ids)),
                     hasMore |-> Cardinality(ids) < page.list.count, all |-> all,
                     short |-> page.list.count < Cardinality(all)]
  BY DEF OpenSection
<1>2. /\ ids \subseteq all
      /\ \A i \in ids, j \in all \ ids : i < j
      /\ all \in SUBSET Ids
      /\ page.list.count \in 0..MaxComments
      /\ ~withdrawn => all \subseteq Public(row)
  BY DEF ListsBegin, Lists, Begins, TypeOK, List
<1> HIDE DEF ids, all
<1>3. /\ IsFiniteSet(all) /\ Cardinality(all) \in 0..MaxComments
      /\ IsFiniteSet(ids) /\ Cardinality(ids) \in 0..MaxComments
  BY <1>2, FewIds
<1> DEFINE before == Cardinality(ids) \div PerPage
<1>4. before \in 0..Cardinality(ids) /\ before * PerPage <= Cardinality(ids)
  BY <1>3, DivBounds DEF PerPageAssumption
<1>5. FirstPage(Cardinality(ids)) = before + 1
  BY DEF FirstPage
<1> HIDE DEF before
<1>6. MaxComments \in Nat
  BY DEF CommentsAssumption
<1>7. load = NoLoad
  BY <1>1 DEF LoadInv
<1>8. TypeOK' /\ PagesEnd' /\ LoadInv'
  <2>1. before + 1 \in 1..(MaxComments + 2) /\ before + 1 <= MaxComments + 1
    BY <1>3, <1>4, <1>6
  <2>2. section' \in Section
    BY <1>1, <1>2, <1>3, <1>5, <2>1 DEF Section
  <2>3. load' \in Load
    BY <1>1 DEF TypeOK
  <2> QED  BY <1>1, <1>5, <1>7, <2>1, <2>2, <2>3, Untouched DEF PagesEnd, LoadInv
<1>9. ListsBegin'
  BY <1>1, Untouched
<1>10. StillAhead'
  <2>1. /\ Public(row)' = Public(row) /\ (\A i : Place(i)' = Place(i))
        /\ withdrawn' = withdrawn /\ load'.todo = Queries
    BY <1>1, <1>7, Untouched DEF NoLoad
  <2>2. SUFFICES ASSUME ~withdrawn
                 PROVE  /\ all \subseteq Public(row)
                        /\ \A i \in all \ ids :
                             /\ Place(i) > (section'.nextPage - 1) * PerPage
                             /\ section'.short \/ section'.hasMore
    BY <1>1, <2>1 DEF StillAhead, Queries
  <2>3. all \subseteq Public(row)
    BY <1>2, <2>2
  <2>4. ASSUME NEW i \in all \ ids
        PROVE  /\ Place(i) > (section'.nextPage - 1) * PerPage
               /\ section'.short \/ section'.hasMore
    <3>1. section'.short \/ section'.hasMore
      <4>1. Cardinality(ids) <= Cardinality(all) /\ Cardinality(ids) # Cardinality(all)
        BY <1>2, <1>3, FS_Subset
      <4>2. page.list.count < Cardinality(all) \/ Cardinality(ids) < page.list.count
        BY <1>2, <1>3, <1>6, <4>1
      <4> QED  BY <1>1, <4>2
    <3>2. Place(i) > Cardinality(ids)
      <4>1. Public(row) \in SUBSET Ids
        BY DEF Public
      <4>2. PlaceIn(all, i) > Cardinality(ids)
        BY <1>2, PlaceOfLast
      <4>3. i \in Ids /\ i <= i
        BY <1>2, <1>6 DEF Ids
      <4>4. /\ PlaceIn(all, i) \in Nat /\ PlaceIn(Public(row), i) \in Nat
            /\ PlaceIn(all, i) <= PlaceIn(Public(row), i)
        BY <2>3, <4>1, <4>3, PlaceGrows
      <4> QED  BY <1>3, <4>2, <4>4, PlaceIsIn
    <3>3. section'.nextPage - 1 = before
      BY <1>1, <1>4, <1>5
    <3>4. Place(i) \in Nat /\ before * PerPage \in Nat
      BY <1>4, <2>3, PlaceType DEF PerPageAssumption
    <3> QED  BY <1>3, <1>4, <3>1, <3>2, <3>3, <3>4
  <2> QED  BY <2>3, <2>4
<1> QED  BY <1>8, <1>9, <1>10

\* The number of comments is read: those still to come are counted.
LEMMA TotalKeepsPages ==
  ASSUME PagesInv, ReadTotal
  PROVE  PagesInv'
<1> USE CommentsAssumption, PerPageAssumption DEF PagesInv
<1> DEFINE total == Cardinality(Public(row))
<1>1. /\ UNCHANGED <<apiVars, page, section>> /\ section.open /\ section.hasMore
      /\ load' = [load EXCEPT !.todo = @ \ {"count"}, !.total = total]
  BY DEF ReadTotal, Loads
<1>2. load \in Load /\ section \in Section
  BY DEF TypeOK
<1>3. total \in 0..MaxComments
  BY FewIds DEF Public
<1> HIDE DEF total
<1>4. /\ load' \in Load /\ load'.got = load.got /\ load'.total = total
      /\ "rows" \in load.todo <=> "rows" \in load'.todo
  BY <1>1, <1>2, <1>3 DEF Load
<1>5. /\ TypeOK' /\ ListsBegin' /\ PagesEnd' /\ LoadInv'
      /\ Public(row)' = Public(row) /\ (\A i : Place(i)' = Place(i)) /\ withdrawn' = withdrawn
  BY <1>1, <1>2, <1>4, Untouched DEF PagesEnd, LoadInv
<1>6. StillAhead'
  <2>1. SUFFICES ASSUME ~withdrawn
                 PROVE  /\ section.all \subseteq Public(row)
                        /\ \A i \in section.all \ section.loaded :
                             /\ Place(i) > (section.nextPage - 1) * PerPage
                             /\ section.short \/ section.hasMore
                             /\ "rows" \notin load.todo /\ i \notin load.got =>
                                  /\ Place(i) > section.nextPage * PerPage
                                  /\ total > section.nextPage * PerPage
    BY <1>1, <1>4, <1>5 DEF StillAhead
  <2>2. section.all \subseteq Public(row)
    BY <1>1, <2>1 DEF StillAhead
  <2>3. ASSUME NEW i \in section.all \ section.loaded
        PROVE  /\ Place(i) > (section.nextPage - 1) * PerPage
               /\ section.short \/ section.hasMore
               /\ "rows" \notin load.todo /\ i \notin load.got =>
                    /\ Place(i) > section.nextPage * PerPage
                    /\ total > section.nextPage * PerPage
    <3>1. /\ Place(i) > (section.nextPage - 1) * PerPage
          /\ section.short \/ section.hasMore
          /\ "rows" \notin load.todo /\ i \notin load.got
               => Place(i) > section.nextPage * PerPage
      BY <1>1, <2>1 DEF StillAhead
    <3>2. Place(i) \in 1..total
      BY <2>2, PlaceType DEF total
    <3>3. section.nextPage * PerPage \in Nat
      BY <1>2 DEF Section, PerPageAssumption
    <3>4. Place(i) > section.nextPage * PerPage => total > section.nextPage * PerPage
      BY <1>3, <3>2, <3>3
    <3> QED  BY <3>1, <3>4
  <2> QED  BY <2>2, <2>3
<1> QED  BY <1>5, <1>6

\* The comments of a page are read: those that are not on it come after it, and
\* are counted, unless the count was read first and is too short.
LEMMA RowsKeepPages ==
  ASSUME PagesInv, ReadPage
  PROVE  PagesInv'
<1> USE CommentsAssumption, PerPageAssumption DEF PagesInv
<1> DEFINE n == section.nextPage
           total == Cardinality(Public(row))
           got == {c.id : c \in Rows((n - 1) * PerPage + 1, n * PerPage)}
           short == "count" \notin load.todo /\ load.total < total
<1>1. /\ UNCHANGED <<apiVars, page, section>> /\ section.open /\ section.hasMore
      /\ load' = [load EXCEPT !.todo = @ \ {"rows"}, !.got = got, !.short = short]
  BY DEF ReadPage, Loads
<1>2. load \in Load /\ section \in Section
  BY DEF TypeOK
<1>3. got = {j \in Public(row) : Place(j) \in ((n - 1) * PerPage + 1)..(n * PerPage)}
  BY RowsIds
<1>4. got \in SUBSET Ids
  BY <1>3 DEF Public
<1>5. total \in 0..MaxComments
  BY FewIds DEF Public
<1>6. /\ MaxComments \in Nat /\ PerPage \in Nat \ {0} /\ n \in Nat \ {0}
      /\ total \in Nat /\ load.total \in Nat /\ short \in BOOLEAN
  BY <1>2, <1>5 DEF CommentsAssumption, PerPageAssumption, Load, Section
<1> HIDE DEF got, total
<1>7. /\ load' \in Load /\ load'.got = got /\ load'.total = load.total
      /\ load'.short = short
      /\ "count" \in load'.todo <=> "count" \in load.todo
  BY <1>1, <1>2, <1>4, <1>6 DEF Load
<1>8. /\ TypeOK' /\ ListsBegin' /\ PagesEnd' /\ LoadInv'
      /\ Public(row)' = Public(row) /\ (\A i : Place(i)' = Place(i)) /\ withdrawn' = withdrawn
  BY <1>1, <1>2, <1>7, Untouched DEF PagesEnd, LoadInv
<1>9. StillAhead'
  <2>1. SUFFICES ASSUME ~withdrawn
                 PROVE  /\ section.all \subseteq Public(row)
                        /\ \A i \in section.all \ section.loaded :
                             /\ Place(i) > (n - 1) * PerPage
                             /\ section.short \/ section.hasMore
                             /\ i \notin got =>
                                  /\ Place(i) > n * PerPage
                                  /\ "count" \notin load.todo /\ ~short
                                       => load.total > n * PerPage
    BY <1>1, <1>7, <1>8 DEF StillAhead
  <2> HIDE DEF n
  <2>2. section.all \subseteq Public(row)
    BY <1>1, <2>1 DEF StillAhead
  <2>3. ASSUME NEW i \in section.all \ section.loaded
        PROVE  /\ Place(i) > (n - 1) * PerPage
               /\ section.short \/ section.hasMore
               /\ i \notin got =>
                    /\ Place(i) > n * PerPage
                    /\ "count" \notin load.todo /\ ~short => load.total > n * PerPage
    <3>1. Place(i) > (n - 1) * PerPage /\ (section.short \/ section.hasMore)
      BY <1>1, <2>1 DEF StillAhead, n
    <3>2. Place(i) \in 1..total
      BY <2>2, PlaceType DEF total
    <3>3. ASSUME i \notin got PROVE Place(i) > n * PerPage
      <4>1. Place(i) \notin ((n - 1) * PerPage + 1)..(n * PerPage)
        BY <1>3, <2>2, <3>3
      <4> QED  BY <1>6, <3>1, <3>2, <4>1, NextFirst
    <3>4. n * PerPage \in Nat
      BY <1>6
    <3>5. ASSUME i \notin got, "count" \notin load.todo, ~short
          PROVE  load.total > n * PerPage
      <4>1. ~(load.total < total)
        BY <3>5
      <4> QED  BY <1>6, <3>2, <3>3, <3>4, <3>5, <4>1
    <3> QED  BY <3>1, <3>3, <3>5
  <2> QED  BY <2>2, <2>3
<1> QED  BY <1>8, <1>9

\* A page that is shown brings the section one page further.
LEMMA ShowKeepsPages ==
  ASSUME PagesInv, ShowPage
  PROVE  PagesInv'
<1> USE CommentsAssumption, PerPageAssumption DEF PagesInv
<1> DEFINE n == section.nextPage
           pages == (load.total + PerPage - 1) \div PerPage
           more == n < pages
<1>1. /\ UNCHANGED <<apiVars, page>> /\ load' = NoLoad /\ load.todo = {}
      /\ section' = [section EXCEPT !.loaded = @ \cup load.got, !.nextPage = n + 1,
                                    !.hasMore = more, !.short = @ \/ load.short]
  BY DEF ShowPage
<1>2. section.open /\ section.hasMore
  BY <1>1 DEF LoadInv, NoLoad, Queries
<1>3. load \in Load /\ section \in Section /\ MaxComments \in Nat
  BY DEF TypeOK, CommentsAssumption
<1>4. /\ load.total \in 0..MaxComments /\ load.total \in Nat /\ load.short \in BOOLEAN
      /\ load.got \in SUBSET Ids
      /\ PerPage \in Nat \ {0} /\ n \in 1..(MaxComments + 2) /\ n \in Nat \ {0}
  BY <1>3 DEF Load, Section, PerPageAssumption
<1> HIDE DEF n
<1>5. pages \in 0..load.total /\ (~(n < pages) => load.total <= n * PerPage)
  BY <1>4, LastPage
<1>6. more \in BOOLEAN
  OBVIOUS
<1> HIDE DEF pages, more
<1>7. /\ section'.open /\ section'.all = section.all
      /\ section'.loaded = section.loaded \cup load.got /\ section'.nextPage = n + 1
      /\ section'.hasMore = more /\ section'.short = (section.short \/ load.short)
  BY <1>1, <1>2, <1>3 DEF Section
<1>8. TypeOK' /\ PagesEnd' /\ LoadInv'
  <2>1. n <= MaxComments + 1
    BY <1>2 DEF PagesEnd, n
  <2>2. n + 1 \in 1..(MaxComments + 2) /\ (more => n + 1 <= MaxComments + 1)
    BY <1>3, <1>4, <1>5, <2>1 DEF more
  <2>3. section.loaded \cup load.got \in SUBSET Ids /\ (section.short \/ load.short) \in BOOLEAN
    BY <1>3, <1>4 DEF Section
  <2>4. section' \in Section
    BY <1>1, <1>3, <1>6, <2>2, <2>3 DEF Section
  <2>5. load' \in Load
    BY <1>1, <1>3 DEF NoLoad, Load
  <2> QED  BY <1>1, <1>7, <2>2, <2>4, <2>5, Untouched DEF PagesEnd, LoadInv
<1>9. ListsBegin'
  BY <1>1, Untouched
<1>10. StillAhead'
  <2>1. /\ Public(row)' = Public(row) /\ (\A i : Place(i)' = Place(i))
        /\ withdrawn' = withdrawn /\ load'.todo = Queries
        /\ (section'.nextPage - 1) * PerPage = n * PerPage
    BY <1>1, <1>4, <1>7, Untouched DEF NoLoad
  <2>2. SUFFICES ASSUME ~withdrawn
                 PROVE  /\ section.all \subseteq Public(row)
                        /\ \A i \in section.all \ (section.loaded \cup load.got) :
                             /\ Place(i) > n * PerPage
                             /\ section.short \/ load.short \/ more
    BY <1>7, <2>1 DEF StillAhead, Queries
  <2>3. ASSUME NEW i \in section.all \ (section.loaded \cup load.got)
        PROVE  /\ Place(i) > n * PerPage
               /\ section.short \/ load.short \/ more
    <3>1. /\ Place(i) > n * PerPage
          /\ ~load.short => load.total > n * PerPage
      BY <1>1, <1>2, <2>2 DEF StillAhead, n
    <3>2. n * PerPage \in Nat
      BY <1>4
    <3>3. load.total > n * PerPage => more
      BY <1>4, <1>5, <3>2 DEF more
    <3> QED  BY <3>1, <3>3
  <2> QED  BY <1>2, <2>2, <2>3 DEF StillAhead
<1> QED  BY <1>8, <1>9, <1>10

LEMMA FailKeepsPages ==
  ASSUME PagesInv, LoadFails
  PROVE  PagesInv'
<1>1. UNCHANGED <<apiVars, page, section>> /\ load' = NoLoad
  BY DEF LoadFails
<1>2. MaxComments \in Nat
  BY CommentsAssumption DEF CommentsAssumption
<1>3. load' \in Load
  BY <1>1, <1>2 DEF NoLoad, Load
<1>4. /\ TypeOK' /\ ListsBegin'
      /\ Public(row)' = Public(row) /\ (\A i : Place(i)' = Place(i)) /\ withdrawn' = withdrawn
  BY <1>1, <1>3, Untouched DEF PagesInv, TypeOK
<1>5. StillAhead' /\ LoadInv' /\ PagesEnd'
  BY <1>1, <1>4 DEF PagesInv, StillAhead, LoadInv, PagesEnd, NoLoad, Queries
<1> QED  BY <1>4, <1>5 DEF PagesInv

LEMMA NextPagesInv ==
  ASSUME PagesInv, ApiTypeOK', [Next]_vars PROVE PagesInv'
<1>1. CASE UNCHANGED vars
  <2>1. UNCHANGED <<apiVars, page, section, load>>
    BY <1>1 DEF vars
  <2>2. /\ TypeOK' /\ ListsBegin'
        /\ Public(row)' = Public(row) /\ (\A i : Place(i)' = Place(i)) /\ withdrawn' = withdrawn
    BY <2>1, Untouched DEF PagesInv, TypeOK
  <2>3. StillAhead' /\ LoadInv' /\ PagesEnd'
    BY <2>1, <2>2 DEF PagesInv, StillAhead, LoadInv, PagesEnd
  <2> QED  BY <2>2, <2>3 DEF PagesInv
<1> QED  BY <1>1, ApiKeepsPages, PageKeepsPages, OpenKeepsPages, TotalKeepsPages,
            RowsKeepPages, ShowKeepsPages, FailKeepsPages DEF Next

LEMMA PagesInvAlways == Spec => []PagesInv
<1>1. Init => PagesInv
  BY InitPagesInv
<1>2. IInv /\ IInv' /\ PagesInv /\ [Next]_vars => PagesInv'
  BY NextPagesInv DEF IInv
<1> QED  BY <1>1, <1>2, IInvAlways, PTL DEF Spec

\* The section is consistent with the table, the cache, its fills and the page for
\* every number of requests, readers and comments: every list begins the list of
\* what was public, and what is still to be loaded is on the page that is being
\* read or on those still to be asked for, unless a count was too short.
THEOREM ConsistentAlways == Spec => []Consistent
<1>1. IInv /\ PagesInv => Consistent
  BY DEF IInv, PagesInv, Consistent
<1> QED  BY <1>1, IInvAlways, PagesInvAlways, PTL

\* However the preview and the pages are cut and whatever is approved between
\* them, a visitor who loads all pages sees every comment that was public when
\* the page was rendered, unless one was withdrawn, or one became public between
\* the count and the rows of one read.
THEOREM AllShownAlways == Spec => []AllShown
<1>1. PagesInv => AllShown
  BY DEF PagesInv, StillAhead, AllShown
<1> QED  BY <1>1, PagesInvAlways, PTL
=============================================================================
