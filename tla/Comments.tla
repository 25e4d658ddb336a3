------------------------------- MODULE Comments -------------------------------
(***************************************************************************)
(* The comments of one post in the API:                                    *)
(*   visitors        submitComment, with the cooldown of one address       *)
(*   administrators  status, approve, reject, edit, remove and reply       *)
(*   the cache       the entry of the post's detail, which holds the first *)
(*                   comments, the fills that store it and the             *)
(*                   invalidations that delete it (its time to live and    *)
(*                   its lock are those of module ReadThroughCache)        *)
(* Comments are numbered in the order of createdAt.  A reply whose parent  *)
(* is not in the list becomes a root of the tree, so every row of a list is *)
(* one node of it, and a list is a set of comments here.                   *)
(***************************************************************************)
EXTENDS Integers, FiniteSets

CONSTANTS
  Requests,    \* requests that change something, each served once
  Readers,     \* how many requests fetch the post's detail at the same time
  MaxComments, \* bound on the comments of the post
  Existing,    \* how many there are at first
  Preview,     \* the limit of findApprovedCommentsByPostId
  MaxFaults    \* bound on failed calls and dying processes

ASSUME CommentsAssumption ==
  /\ IsFiniteSet(Requests)
  /\ {MaxComments, Existing, MaxFaults} \subseteq Nat /\ Existing <= MaxComments
  /\ Preview \in Nat \ {0}

VARIABLES
  row,       \* the comments table
  request,   \* the progress of each request
  cooldown,  \* the key of the address in Redis, and in the process's own store
  recent,    \* history: a comment of the address was stored in this cooldown
  entry,     \* the cached detail of the post
  fill,      \* what each reader that found no entry has fetched
  raced,     \* history: a write found a status other than the one read for it
  withdrawn, \* history: a comment that was public is not any more
  faults

apiVars == <<row, request, cooldown, recent, entry, fill, raced, withdrawn, faults>>

-----------------------------------------------------------------------------
Ids == 1..MaxComments
NoId == 0

Statuses == {"pending", "approved", "rejected"}

Row == [status : {"none"} \cup Statuses, deleted : BOOLEAN, version : Nat]

Ops == {"submit", "status", "approve", "reject", "edit", "remove", "reply"}

\* read is the status findCommentById() found, to the one that is asked for.
Request == [pc : {"new", "reserve", "insert", "write", "scan", "del", "done"},
            op : Ops, id : Ids \cup {NoId},
            read : {"none"} \cup Statuses, to : {"none"} \cup Statuses]

\* A comment as a page shows it.
Shown == [id : Ids, version : Nat]

\* "all" is history: the comments that were public when the rows were read.
List == [comments : SUBSET Shown, count : 0..MaxComments, all : SUBSET Ids]

NoList == [comments |-> {}, count |-> 0, all |-> {}]

\* "missed" is history: an invalidation failed, or was over before the fill stored
\* what it had begun to read.
Entry == [present : BOOLEAN, list : List, missed : BOOLEAN]

\* The two queries of one Promise.all: of the comments, and of their number.
Queries == {"rows", "count"}

Fill == [active : BOOLEAN, todo : SUBSET Queries, list : List, missed : BOOLEAN]

ApiTypeOK ==
  /\ row \in [Ids -> Row]
  /\ request \in [Requests -> Request]
  /\ cooldown \in [redis : BOOLEAN, local : BOOLEAN]
  /\ entry \in Entry
  /\ fill \in [Readers -> Fill]
  /\ {recent, raced, withdrawn} \subseteq BOOLEAN
  /\ faults \in 0..MaxFaults

NewRequest == [pc |-> "new", op |-> "submit", id |-> NoId, read |-> "none", to |-> "none"]

NoEntry == [present |-> FALSE, list |-> NoList, missed |-> FALSE]

NoFill == [active |-> FALSE, todo |-> Queries, list |-> NoList, missed |-> FALSE]

ApiInit ==
  /\ \E approved \in SUBSET (1..Existing) :
       row = [i \in Ids |->
               [status  |-> CASE i \in approved -> "approved"
                              [] i <= Existing /\ i \notin approved -> "pending"
                              [] OTHER -> "none",
                deleted |-> FALSE, version |-> 0]]
  /\ request = [q \in Requests |-> NewRequest]
  /\ cooldown = [redis |-> FALSE, local |-> FALSE]
  /\ entry = NoEntry
  /\ fill = [r \in Readers |-> NoFill]
  /\ recent = FALSE /\ raced = FALSE /\ withdrawn = FALSE
  /\ faults = 0

-----------------------------------------------------------------------------
\* status = 'approved' and deleted_at is null
Public(rows) == {i \in Ids : rows[i].status = "approved" /\ ~rows[i].deleted}

\* The place of a comment in the list by createdAt.
Place(i) == Cardinality({j \in Public(row) : j <= i})

\* The rows from one place to another, as buildCommentTree() gets them.
Rows(first, last) ==
  {[id |-> i, version |-> row[i].version] : i \in {j \in Public(row) : Place(j) \in first..last}}

Fault == faults < MaxFaults /\ faults' = faults + 1

\* Only the write of a moderation remembers what was read.
Goes(q, pc) == request' = [request EXCEPT ![q] = [NewRequest EXCEPT !.pc = pc]]

\* insert(comments): the next id, if the bound leaves one.
Insert(status) ==
  \E i \in Ids :
    /\ row[i].status = "none" /\ \A j \in 1..(i - 1) : row[j].status # "none"
    /\ row' = [row EXCEPT ![i].status = status]

-----------------------------------------------------------------------------
(***************************************************************************)
(* submitComment(), all for one address.                                   *)
(***************************************************************************)

\* isCommentEmailInCooldown(): the local store is asked when Redis fails.
CheckCooldown(q) ==
  /\ request[q].pc = "new"
  /\ \/ Goes(q, IF cooldown.redis THEN "done" ELSE "reserve") /\ UNCHANGED faults
     \/ Fault /\ Goes(q, IF cooldown.local THEN "done" ELSE "reserve")
  /\ UNCHANGED <<row, cooldown, recent, entry, fill, raced, withdrawn>>

\* Mutant: the comment is stored while the reservation is still on its way.
Reserve_NotAwaited(q) ==
  /\ request[q].pc = "reserve"
  /\ Goes(q, "insert")
  /\ UNCHANGED <<row, cooldown, recent, entry, fill, raced, withdrawn, faults>>

\* setCommentEmailCooldown(), after the post and the parent were found.
Reserve(q) ==
  /\ request[q].pc = "reserve"
  /\ \/ cooldown' = [cooldown EXCEPT !.redis = TRUE] /\ UNCHANGED faults
     \/ Fault /\ cooldown' = [cooldown EXCEPT !.local = TRUE]
  /\ Goes(q, "insert")
  /\ UNCHANGED <<row, recent, entry, fill, raced, withdrawn>>

Store(q) ==
  /\ request[q].pc = "insert"
  /\ Insert("pending")
  /\ recent' = TRUE
  /\ Goes(q, "done")
  /\ UNCHANGED <<cooldown, entry, fill, raced, withdrawn, faults>>

\* 300 seconds are long against the insert they are reserved for.
CooldownExpires ==
  /\ \A q \in Requests : request[q].pc # "insert"
  /\ cooldown.redis \/ cooldown.local
  /\ cooldown' = [redis |-> FALSE, local |-> FALSE]
  /\ recent' = FALSE
  /\ UNCHANGED <<row, request, entry, fill, raced, withdrawn, faults>>

-----------------------------------------------------------------------------
(***************************************************************************)
(* comments.admin.service.ts: read, check, write, invalidate.              *)
(***************************************************************************)

\* The status the row has afterwards.
Target(op, read, to) ==
  CASE op = "approve" -> "approved"
    [] op = "reject"  -> "rejected"
    [] op = "status"  -> to
    [] OTHER -> read

\* A deleted comment is refused, and what the legacy endpoints would not change.
Refused(op, i) ==
  \/ row[i].deleted
  \/ op = "approve" /\ row[i].status = "approved"
  \/ op = "reject"  /\ row[i].status = "rejected"

AdminRead(q) ==
  /\ request[q].pc = "new"
  /\ \E op \in Ops \ {"submit"}, i \in Ids, to \in Statuses :
       /\ row[i].status # "none"
       /\ op # "status" => to = "pending"   \* one value for what is not used
       /\ IF Refused(op, i)
            THEN Goes(q, "done")
            ELSE request' = [request EXCEPT ![q] =
                   [pc |-> "write", op |-> op, id |-> i, read |-> row[i].status,
                    to |-> Target(op, row[i].status, to)]]
  /\ UNCHANGED <<row, cooldown, recent, entry, fill, raced, withdrawn, faults>>

\* Mutant: only what becomes public is thought of.
NeedsInvalidation_NewOnly(op, read, to) ==
  \/ op \in {"approve", "reply"}
  \/ op = "status" /\ to = "approved"

\* Whether the cache is invalidated, from the status that was read:
\* needsCacheInvalidation(), and what the other operations do in its place.
NeedsInvalidation(op, read, to) ==
  CASE op \in {"approve", "reply"}          -> TRUE
    [] op = "status"                        -> read = "approved" \/ to = "approved"
    [] op \in {"reject", "edit", "remove"}  -> read = "approved"

\* UPDATE ... WHERE id = ..., whatever the row has become by now; a reply is a
\* row of its own, approved at once.
AdminWrite(q) ==
  LET op == request[q].op  i == request[q].id IN
  /\ request[q].pc = "write"
  /\ \/ op \in {"status", "approve", "reject"} /\ row' = [row EXCEPT ![i].status = request[q].to]
     \/ op = "edit"   /\ row' = [row EXCEPT ![i].version = @ + 1]
     \/ op = "remove" /\ row' = [row EXCEPT ![i].deleted = TRUE]
     \/ op = "reply"  /\ Insert("approved")
  /\ Goes(q, IF NeedsInvalidation(op, request[q].read, request[q].to)
               THEN "scan" ELSE "done")
  /\ raced' = (raced \/ row[i].status # request[q].read \/ row[i].deleted)
  /\ withdrawn' = (withdrawn \/ ~(Public(row) \subseteq Public(row')))
  /\ UNCHANGED <<cooldown, recent, entry, fill, faults>>

\* invalidateGroup('commentsModeration'): a fill that has begun to read is not
\* reached by an invalidation that is over.
InvalidationOver(q) ==
  /\ Goes(q, "done")
  /\ fill' = [r \in Readers |->
                [fill[r] EXCEPT !.missed = @ \/ (fill[r].active /\ fill[r].todo # Queries)]]
  /\ UNCHANGED <<row, cooldown, recent, raced, withdrawn>>

\* SCAN posts:slug:* finds the entry, if it is there ...
Scan(q) ==
  /\ request[q].pc = "scan"
  /\ IF entry.present
       THEN Goes(q, "del") /\ UNCHANGED <<row, cooldown, recent, fill, raced, withdrawn>>
       ELSE InvalidationOver(q)
  /\ UNCHANGED <<entry, faults>>

\* ... and DEL deletes it.
Del(q) ==
  /\ request[q].pc = "del"
  /\ entry' = NoEntry
  /\ InvalidationOver(q)
  /\ UNCHANGED faults

\* Best effort: an error of Redis is logged.  Or the process dies, or the answer of
\* the write is lost and the request ends with an error.
InvalidationFails(q) ==
  /\ request[q].pc \in {"scan", "del"}
  /\ Fault
  /\ \/ entry' = [entry EXCEPT !.missed = entry.present]
     \/ request[q].pc = "del" /\ entry' = NoEntry
  /\ InvalidationOver(q)

-----------------------------------------------------------------------------
(***************************************************************************)
(* getPostBySlug(): readers that find the lock taken wait a moment and then *)
(* fetch as well, so that several fills may be on their way.               *)
(***************************************************************************)
readRest == <<row, request, cooldown, recent, raced, withdrawn>>

Miss(r) ==
  /\ ~fill[r].active /\ ~entry.present
  /\ fill' = [fill EXCEPT ![r] = [NoFill EXCEPT !.active = TRUE]]
  /\ UNCHANGED <<readRest, entry, faults>>

\* The two queries run at the same time, in either order.
Asked(r, query) ==
  /\ fill[r].active /\ query \in fill[r].todo
  /\ UNCHANGED <<readRest, entry, faults>>

\* findApprovedCommentsByPostId()
ReadRows(r) ==
  /\ Asked(r, "rows")
  /\ fill' = [fill EXCEPT ![r].todo = @ \ {"rows"},
                          ![r].list.comments = Rows(1, Preview), ![r].list.all = Public(row)]

\* countApprovedCommentsByPostId()
ReadCount(r) ==
  /\ Asked(r, "count")
  /\ fill' = [fill EXCEPT ![r].todo = @ \ {"count"},
                          ![r].list.count = Cardinality(Public(row))]

\* SET, whatever the key holds by now.  (When its answer is lost, the request fails.)
StoreEntry(r) ==
  /\ fill[r].active /\ fill[r].todo = {}
  /\ entry' = [present |-> TRUE, list |-> fill[r].list, missed |-> fill[r].missed]
  /\ fill' = [fill EXCEPT ![r] = NoFill]
  /\ UNCHANGED <<readRest, faults>>

\* A query or the SET fails, and the request with it.
FillFails(r) ==
  /\ fill[r].active
  /\ Fault
  /\ fill' = [fill EXCEPT ![r] = NoFill]
  /\ UNCHANGED <<readRest, entry>>

\* DETAIL_TTL
EntryExpires ==
  /\ entry.present
  /\ entry' = NoEntry
  /\ UNCHANGED <<readRest, fill, faults>>

ApiNext ==
  \/ \E q \in Requests :
       \/ CheckCooldown(q) \/ Reserve(q) \/ Store(q)
       \/ AdminRead(q) \/ AdminWrite(q) \/ Scan(q) \/ Del(q) \/ InvalidationFails(q)
  \/ \E r \in Readers :
       Miss(r) \/ ReadRows(r) \/ ReadCount(r) \/ StoreEntry(r) \/ FillFails(r)
  \/ CooldownExpires
  \/ EntryExpires
==============================================================================
