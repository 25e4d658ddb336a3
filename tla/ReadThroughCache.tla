--------------------------- MODULE ReadThroughCache ---------------------------
(***************************************************************************)
(* One key of the API's cache, shared through Redis:                       *)
(*   readers   cached(): hit, or lock, wait and retry, fetch, store, release *)
(*   writers   a service or the worker that commits a change of the data   *)
(*             and then calls invalidatePattern()                          *)
(* A step is one command to Redis or one query.  Time passes in units that *)
(* are long against LOCK_RETRY_DELAY_MS.  An entry that cannot be parsed is *)
(* left out: nothing but JSON.stringify() writes entries.                  *)
(***************************************************************************)
EXTENDS Integers, FiniteSets

CONSTANTS
  Readers,     \* how many requests read at the same time
  Writers,     \* requests and jobs that change the data, each once
  Uncovered,   \* the writers whose patterns do not match the key
  NoReader,
  TTL,         \* ttlSeconds
  LockTTL,     \* LOCK_TTL_SECONDS
  MaxFetch,    \* the longest a fetcher takes, to the release of the lock
  MaxFaults    \* bound on failed calls and dying processes

ASSUME ConstantsAssumption ==
  /\ IsFiniteSet(Writers) /\ Uncovered \subseteq Writers
  /\ NoReader \notin Readers
  /\ {TTL, LockTTL} \subseteq Nat \ {0}
  /\ {MaxFetch, MaxFaults} \subseteq Nat

VARIABLES
  version,  \* the version of the data in PostgreSQL
  age,      \* history: how long ago each version was replaced, up to Bound
  entry,    \* the key: which version, and the time left until it expires
  lock,     \* lock:{key}: the time left, and (history) who set it
  reader,   \* the progress of each request that reads
  writer,   \* the progress of each writer
  faults    \* how many faults have happened

vars == <<version, age, entry, lock, reader, writer, faults>>

-----------------------------------------------------------------------------
\* LOCK_TTL_SECONDS "must exceed the slowest fetcher" (cache.ts:30); nothing
\* in the code enforces it.
LockOutlivesFetch == MaxFetch < LockTTL

Versions  == 0..Cardinality(Writers)
NoVersion == -1

\* An answer was current less than this long ago.
Bound == TTL + MaxFetch

Entry == [value : Versions, left : 0..TTL]

Lock == [left : 0..LockTTL, holder : Readers \cup {NoReader}]

\* "locked" is lockAcquired; "age" is how long ago the fetch began; "ok" says
\* whether the try block ended well.
Reader == [pc : {"get", "lock", "retry", "fetch", "store", "release",
                 "answered", "failed"},
           value : Versions \cup {NoVersion}, locked : BOOLEAN,
           age : 0..MaxFetch, ok : BOOLEAN]

TypeOK ==
  /\ version \in Versions
  /\ age \in [Versions -> 0..Bound]
  /\ entry \in Entry
  /\ lock \in Lock
  /\ reader \in [Readers -> Reader]
  /\ writer \in [Writers -> {"new", "scan", "del", "done"}]
  /\ faults \in 0..MaxFaults

NoEntry == [value |-> 0, left |-> 0]

NoLock == [left |-> 0, holder |-> NoReader]

NewReader == [pc |-> "get", value |-> NoVersion, locked |-> FALSE, age |-> 0, ok |-> FALSE]

Init ==
  /\ version = 0
  /\ age = [v \in Versions |-> 0]
  /\ entry = NoEntry
  /\ lock = NoLock
  /\ reader = [r \in Readers |-> NewReader]
  /\ writer = [w \in Writers |-> "new"]
  /\ faults = 0

Fault == faults < MaxFaults /\ faults' = faults + 1

-----------------------------------------------------------------------------
(***************************************************************************)
(* cached()                                                                *)
(***************************************************************************)
readRest == <<version, age, writer>>

Goes(r, pc) == reader' = [reader EXCEPT ![r].pc = pc]

Answers(r, v) ==
  reader' = [reader EXCEPT ![r] = [NewReader EXCEPT !.pc = "answered", !.value = v]]

Fails(r) == reader' = [reader EXCEPT ![r] = [NewReader EXCEPT !.pc = "failed"]]

\* One request has ended, and another one comes.
Arrive(r) ==
  /\ reader[r].pc \in {"answered", "failed"}
  /\ reader' = [reader EXCEPT ![r] = NewReader]
  /\ UNCHANGED <<readRest, entry, lock, faults>>

\* Redis: the key is there as long as it has not expired.
Hit == entry.left > 0

Get(r) ==
  /\ reader[r].pc = "get"
  /\ IF Hit THEN Answers(r, entry.value) ELSE Goes(r, "lock")
  /\ UNCHANGED <<readRest, entry, lock, faults>>

\* Mutant: SET without NX.
LockFree_Always == TRUE

\* SET ... NX succeeds.
LockFree == lock.left = 0

LockedBy(r) == [left |-> LockTTL, holder |-> r]

\* With the lock, to the fetcher; without it, to sleep and retry.
TryLock(r) ==
  /\ reader[r].pc = "lock"
  /\ IF LockFree
     THEN /\ lock' = LockedBy(r)
          /\ reader' = [reader EXCEPT ![r].pc = "fetch", ![r].locked = TRUE]
     ELSE Goes(r, "retry") /\ UNCHANGED lock
  /\ UNCHANGED <<readRest, entry, faults>>

\* Mutant: the request waits for as long as there is no entry.
AfterRetryMiss_Waits == "retry"

\* Still missing: fall through to the fetcher.
AfterRetryMiss == "fetch"

Retry(r) ==
  /\ reader[r].pc = "retry"
  /\ IF Hit THEN Answers(r, entry.value) ELSE Goes(r, AfterRetryMiss)
  /\ UNCHANGED <<readRest, entry, lock, faults>>

Fetch(r) ==
  /\ reader[r].pc = "fetch"
  /\ reader' = [reader EXCEPT ![r].pc = "store", ![r].value = version]
  /\ UNCHANGED <<readRest, entry, lock, faults>>

\* Mutant: the time to live is given in the wrong unit.
Stored_Longer(r) == [value |-> reader[r].value, left |-> 2 * TTL]

\* SET ... EX
Stored(r) == [value |-> reader[r].value, left |-> TTL]

Store(r) ==
  /\ reader[r].pc = "store"
  /\ entry' = Stored(r)
  /\ reader' = [reader EXCEPT ![r].pc = "release", ![r].ok = TRUE]
  /\ UNCHANGED <<readRest, lock, faults>>

Ends(r) == IF reader[r].ok THEN Answers(r, reader[r].value) ELSE Fails(r)

\* Mutant: the finally block deletes the lock whoever set it.
Releases_Always(r) == TRUE

Releases(r) == reader[r].locked

\* The finally block; DEL does not ask who set the lock.
Release(r) ==
  /\ reader[r].pc = "release"
  /\ lock' = IF Releases(r) THEN NoLock ELSE lock
  /\ Ends(r)
  /\ UNCHANGED <<readRest, entry, faults>>

\* A call rejects: outside the try block the request fails, inside it the
\* finally block runs.  A command may have taken effect all the same.
CallFails(r) ==
  /\ reader[r].pc \in {"get", "lock", "retry", "fetch", "store"}
  /\ Fault
  /\ IF reader[r].pc \in {"fetch", "store"} THEN Goes(r, "release") ELSE Fails(r)
  /\ \/ UNCHANGED <<entry, lock>>
     \/ reader[r].pc = "lock" /\ LockFree /\ lock' = LockedBy(r) /\ UNCHANGED entry
     \/ reader[r].pc = "store" /\ entry' = Stored(r) /\ UNCHANGED lock
  /\ UNCHANGED readRest

\* The release is best effort.
ReleaseFails(r) ==
  /\ reader[r].pc = "release"
  /\ Fault
  /\ Ends(r)
  /\ UNCHANGED <<readRest, entry, lock>>

\* The API process dies with the request.
ReaderDies(r) ==
  /\ reader[r].pc \notin {"answered", "failed"}
  /\ Fault
  /\ Fails(r)
  /\ UNCHANGED <<readRest, entry, lock>>

-----------------------------------------------------------------------------
(***************************************************************************)
(* A committed change, and invalidatePattern()                             *)
(***************************************************************************)
writeRest == <<age, lock, reader>>

Commit(w) ==
  /\ writer[w] = "new"
  /\ version' = version + 1
  /\ writer' = [writer EXCEPT ![w] = "scan"]
  /\ UNCHANGED <<writeRest, entry, faults>>

\* SCAN finds the key if it is there and one of the patterns matches.
Scan(w) ==
  /\ writer[w] = "scan"
  /\ writer' = [writer EXCEPT ![w] = IF Hit /\ w \notin Uncovered THEN "del" ELSE "done"]
  /\ UNCHANGED <<writeRest, version, entry, faults>>

Del(w) ==
  /\ writer[w] = "del"
  /\ entry' = NoEntry
  /\ writer' = [writer EXCEPT ![w] = "done"]
  /\ UNCHANGED <<writeRest, version, faults>>

\* Best effort; or the process dies.
InvalidationFails(w) ==
  /\ writer[w] \in {"scan", "del"}
  /\ Fault
  /\ writer' = [writer EXCEPT ![w] = "done"]
  /\ \/ UNCHANGED entry
     \/ writer[w] = "del" /\ entry' = NoEntry
  /\ UNCHANGED <<writeRest, version>>

-----------------------------------------------------------------------------
Fetching(r) == reader[r].pc \in {"fetch", "store", "release"}

\* Mutant: entries are stored without EX.
EntryAged_Never == entry

\* EX: an entry goes by itself.
EntryAged == IF entry.left > 1 THEN [entry EXCEPT !.left = @ - 1] ELSE NoEntry

\* A unit of time, in which keys expire; no fetch goes on for longer than MaxFetch.
Tick ==
  /\ \A r \in Readers : Fetching(r) => reader[r].age < MaxFetch
  /\ age' = [v \in Versions |->
               IF v < version /\ age[v] < Bound THEN age[v] + 1 ELSE age[v]]
  /\ entry' = EntryAged
  /\ lock' = IF lock.left > 1 THEN [lock EXCEPT !.left = @ - 1] ELSE NoLock
  /\ reader' = [r \in Readers |->
       [reader[r] EXCEPT !.age = IF Fetching(r) THEN @ + 1 ELSE @]]
  /\ UNCHANGED <<version, writer, faults>>

ReaderStep(r) == Get(r) \/ TryLock(r) \/ Retry(r) \/ Fetch(r) \/ Store(r) \/ Release(r)

WriterStep(w) == Scan(w) \/ Del(w)

FaultStep ==
  \/ \E r \in Readers : CallFails(r) \/ ReleaseFails(r) \/ ReaderDies(r)
  \/ \E w \in Writers : InvalidationFails(w)

Next ==
  \/ Tick
  \/ \E r \in Readers : Arrive(r) \/ ReaderStep(r)
  \/ \E w \in Writers : Commit(w) \/ WriterStep(w)
  \/ FaultStep

SafeSpec == Init /\ [][Next]_vars

\* Every call returns or rejects, and time passes; nobody has to read or write.
Fairness ==
  /\ WF_vars(Tick)
  /\ \A r \in Readers : WF_vars(ReaderStep(r))
  /\ \A w \in Writers : WF_vars(WriterStep(w))

Spec == SafeSpec /\ Fairness

-----------------------------------------------------------------------------
(***************************************************************************)
(* Properties.                                                             *)
(***************************************************************************)

\* The anti-stampede lock (cache.ts:7-9): one request at most fetches under the
\* lock, although the release deletes it without asking whose it is, and
\* requests that die leave it behind.
LockExclusive ==
  LockOutlivesFetch =>
    \A r, s \in Readers :
      Fetching(r) /\ reader[r].locked /\ Fetching(s) /\ reader[s].locked => r = s

Outcome(s) == IF s.pc \in {"answered", "failed"} THEN s.pc ELSE "pending"

AnswerOf(s) == IF s.pc = "answered" THEN s.value ELSE NoVersion

\* An answer is never older than the TTL and one fetch, whatever invalidations
\* are lost, late or overtaken by a fill ("stale data will be served until the
\* TTL expires", cache.ts:134-137).
Bounded == INSTANCE BoundedRead WITH
             Requests <- Readers,
             outcome <- [r \in Readers |-> Outcome(reader[r])],
             answer <- [r \in Readers |-> AnswerOf(reader[r])]

BoundedStaleness == Bounded!SafeSpec

\* No request waits for another one's lock ("avoids indefinite stall", cache.ts:101).
EveryRequestEnds ==
  \A r \in Readers :
    (reader[r].pc = "get") ~> (reader[r].pc \in {"answered", "failed"})

\* Once the changes are over, what the cache holds is current at last, although
\* any invalidation may have failed and readers go on filling the cache.
FreshAtLast == <>[](Hit => entry.value = version)

-----------------------------------------------------------------------------
(***************************************************************************)
(* The inductive invariant behind the proofs (ReadThroughCache_proofs).    *)
(***************************************************************************)

\* Every commit is a version.
VersionInv == version = Cardinality({w \in Writers : writer[w] # "new"})

\* The current version has no age, and no later one.
AgeInv == \A v \in Versions : v >= version => age[v] = 0

\* An entry: the older it is, the less time it has left.
EntryInv == entry.value <= version /\ age[entry.value] + entry.left <= Bound

\* A request that has not begun to fetch has no lock, and none that is still at it
\* has ended well.
StartInv ==
  \A r \in Readers :
    /\ reader[r].pc \in {"get", "lock", "retry"} => reader[r].age = 0 /\ ~reader[r].locked
    /\ reader[r].pc \in {"get", "lock", "retry", "fetch", "store"} => ~reader[r].ok

\* A fetched value is not older than the fetch.
FetchInv ==
  \A r \in Readers :
    reader[r].pc = "store" \/ (reader[r].pc = "release" /\ reader[r].ok) =>
      /\ reader[r].value \in 0..version
      /\ age[reader[r].value] <= reader[r].age

\* A request that fetches under the lock holds it, with time left.
LockInv ==
  LockOutlivesFetch => \A r \in Readers :
    Fetching(r) /\ reader[r].locked =>
      lock.holder = r /\ lock.left + reader[r].age = LockTTL

Consistent ==
  TypeOK /\ VersionInv /\ AgeInv /\ EntryInv /\ StartInv /\ FetchInv /\ LockInv

-----------------------------------------------------------------------------
(***************************************************************************)
(* What a document says, and the code does not do.                         *)
(***************************************************************************)

\* docs/caching.md:15 says that an invalidation "clears all post-related
\* entries": when all writers have invalidated, no older entry is left.
InvalidationClears ==
  (\A w \in Writers : writer[w] \in {"new", "done"}) => (Hit => entry.value = version)
==============================================================================
