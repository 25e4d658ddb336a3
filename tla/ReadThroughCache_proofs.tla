----------------------- MODULE ReadThroughCache_proofs -----------------------
(***************************************************************************)
(* For every set of readers and writers, every TTL and every number of     *)
(* faults: the inductive invariant Consistent, the exclusion of the lock   *)
(* (where it outlives a fetch), and the bound on staleness.                *)
(***************************************************************************)
EXTENDS ReadThroughCache, FiniteSetTheorems, TLAPS

LEMMA Bounds ==
  /\ Cardinality(Writers) \in Nat
  /\ Bound \in Nat /\ MaxFetch < Bound /\ TTL <= Bound
  /\ Versions = {v \in Nat : v <= Cardinality(Writers)}
<1>1. Cardinality(Writers) \in Nat
  BY ConstantsAssumption, FS_CardinalityType
<1> QED
  BY <1>1, ConstantsAssumption DEF Bound, Versions

LEMMA InitConsistent == Init => Consistent
<1> SUFFICES ASSUME Init PROVE Consistent
  OBVIOUS
<1> USE ConstantsAssumption, Bounds
<1>1. TypeOK
  BY DEF Init, TypeOK, Entry, Lock, Reader, NoEntry, NoLock, NewReader
<1>2. VersionInv
  <2>1. {w \in Writers : writer[w] # "new"} = {}
    BY DEF Init
  <2> QED
    BY <2>1, FS_EmptySet DEF Init, VersionInv
<1>3. AgeInv /\ EntryInv
  BY DEF Init, AgeInv, EntryInv, NoEntry
<1>4. StartInv /\ FetchInv /\ LockInv
  BY DEF Init, StartInv, FetchInv, LockInv, Fetching, NewReader
<1> QED
  BY <1>1, <1>2, <1>3, <1>4 DEF Consistent

-----------------------------------------------------------------------------
(***************************************************************************)
(* The readers.                                                            *)
(***************************************************************************)

\* What the record of a reader must satisfy by itself, between two writes.
LEMMA ReaderMoves ==
  ASSUME Consistent, NEW r \in Readers, NEW n \in Reader,
         reader' = [reader EXCEPT ![r] = n],
         UNCHANGED <<version, age, writer>>, faults' \in 0..MaxFaults,
         entry' \in Entry, EntryInv', lock' \in Lock, LockInv',
         n.pc \in {"get", "lock", "retry"} => n.age = 0 /\ ~n.locked,
         n.pc \in {"get", "lock", "retry", "fetch", "store"} => ~n.ok,
         n.pc = "store" \/ (n.pc = "release" /\ n.ok) =>
           n.value \in 0..version /\ age[n.value] <= n.age
  PROVE  Consistent'
<1>1. TypeOK'
  BY DEF Consistent, TypeOK
<1>2. VersionInv' /\ AgeInv'
  BY DEF Consistent, VersionInv, AgeInv
<1>3. \A s \in Readers : reader'[s] = IF s = r THEN n ELSE reader[s]
  BY DEF Consistent, TypeOK
<1>4. StartInv'
  BY <1>3 DEF Consistent, StartInv
<1>5. FetchInv'
  BY <1>3 DEF Consistent, FetchInv
<1> QED
  BY <1>1, <1>2, <1>4, <1>5 DEF Consistent

\* The entry keeps its promise while the versions and their ages stay.
LEMMA EntryStays ==
  ASSUME Consistent, UNCHANGED <<version, age, entry>>
  PROVE  entry' \in Entry /\ EntryInv'
BY DEF Consistent, TypeOK, EntryInv

\* What a fetch stores is as old as the fetch, at most.
LEMMA StoredKeepsPromise ==
  ASSUME Consistent, NEW r \in Readers, reader[r].pc = "store",
         entry' = Stored(r), UNCHANGED <<version, age>>
  PROVE  entry' \in Entry /\ EntryInv'
<1>1. reader[r].value \in 0..version /\ age[reader[r].value] <= reader[r].age
  BY DEF Consistent, FetchInv
<1>2. version \in Versions /\ reader[r].age \in 0..MaxFetch
  BY DEF Consistent, TypeOK, Reader
<1>3. reader[r].value \in Versions /\ reader[r].value <= version
  BY <1>1, <1>2, Bounds
<1>4. age[reader[r].value] \in 0..Bound
  BY <1>3 DEF Consistent, TypeOK
<1>5. entry' \in Entry
  BY <1>3, ConstantsAssumption DEF Stored, Entry
<1>6. age[reader[r].value] + TTL <= Bound
  BY <1>1, <1>2, <1>4, ConstantsAssumption DEF Bound
<1> QED
  BY <1>3, <1>5, <1>6 DEF Stored, EntryInv

\* A step that neither takes nor frees the lock.
LEMMA LockStays ==
  ASSUME Consistent, NEW r \in Readers, NEW n \in Reader,
         reader' = [reader EXCEPT ![r] = n], UNCHANGED lock,
         n.pc \in {"fetch", "store", "release"} /\ n.locked =>
           Fetching(r) /\ reader[r].locked /\ n.age = reader[r].age
  PROVE  lock' \in Lock /\ LockInv'
<1>1. \A s \in Readers : reader'[s] = IF s = r THEN n ELSE reader[s]
  BY DEF Consistent, TypeOK
<1> QED
  BY <1>1 DEF Consistent, TypeOK, LockInv, Fetching

\* While somebody fetches under the lock, it has time left, and it is theirs alone.
LEMMA LockHeld ==
  ASSUME Consistent, LockOutlivesFetch, NEW s \in Readers,
         Fetching(s), reader[s].locked
  PROVE  lock.left > 0 /\ lock.holder = s
<1>1. lock.holder = s /\ lock.left + reader[s].age = LockTTL
  BY DEF Consistent, LockInv
<1>2. reader[s].age \in 0..MaxFetch /\ lock.left \in 0..LockTTL
  BY DEF Consistent, TypeOK, Reader, Lock
<1> QED
  BY <1>1, <1>2, ConstantsAssumption DEF LockOutlivesFetch

LEMMA LockTaken ==
  ASSUME Consistent, NEW r \in Readers, NEW n \in Reader,
         reader' = [reader EXCEPT ![r] = n], LockFree, lock' = LockedBy(r), n.age = 0
  PROVE  lock' \in Lock /\ LockInv'
<1>1. \A s \in Readers : reader'[s] = IF s = r THEN n ELSE reader[s]
  BY DEF Consistent, TypeOK
<1>2. lock' = [left |-> LockTTL, holder |-> r] /\ lock' \in Lock
  BY ConstantsAssumption DEF LockedBy, Lock
<1>3. LockOutlivesFetch => \A s \in Readers : ~(Fetching(s) /\ reader[s].locked)
  BY LockHeld DEF LockFree
<1> QED
  BY <1>1, <1>2, <1>3, ConstantsAssumption DEF LockInv, Fetching

LEMMA LockFreed ==
  ASSUME Consistent, NEW r \in Readers, NEW n \in Reader,
         reader' = [reader EXCEPT ![r] = n],
         Fetching(r), reader[r].locked, n.pc \in {"answered", "failed"},
         lock' = NoLock
  PROVE  lock' \in Lock /\ LockInv'
<1>1. \A s \in Readers : reader'[s] = IF s = r THEN n ELSE reader[s]
  BY DEF Consistent, TypeOK
<1>2. lock' \in Lock
  BY ConstantsAssumption DEF Lock, NoLock
<1>3. LockOutlivesFetch =>
        \A s \in Readers : Fetching(s) /\ reader[s].locked => s = r
  BY LockHeld
<1> QED
  BY <1>1, <1>2, <1>3 DEF LockInv, Fetching

\* A request that has not begun, and one that has ended.
Blank(n) == n \in Reader /\ n.age = 0 /\ ~n.locked /\ ~n.ok

LEMMA BlankReaders ==
  /\ Blank(NewReader) /\ NewReader.pc = "get"
  /\ LET n == [NewReader EXCEPT !.pc = "failed"] IN Blank(n) /\ n.pc = "failed"
  /\ \A v \in Versions \cup {NoVersion} :
       LET n == [NewReader EXCEPT !.pc = "answered", !.value = v]
       IN  Blank(n) /\ n.pc = "answered" /\ n.value = v
<1>1. 0 \in 0..MaxFetch /\ NoVersion \in Versions \cup {NoVersion}
  BY ConstantsAssumption
<1>2. Blank(NewReader) /\ NewReader.pc = "get"
  BY <1>1 DEF Blank, NewReader, Reader
<1>3. LET n == [NewReader EXCEPT !.pc = "failed"] IN Blank(n) /\ n.pc = "failed"
  BY <1>1 DEF Blank, NewReader, Reader
<1>4. ASSUME NEW v \in Versions \cup {NoVersion}
      PROVE  LET n == [NewReader EXCEPT !.pc = "answered", !.value = v]
             IN  Blank(n) /\ n.pc = "answered" /\ n.value = v
  <2> DEFINE n == [NewReader EXCEPT !.pc = "answered", !.value = v]
  <2>1. n \in Reader
    BY <1>1, <1>2 DEF Blank, Reader
  <2>2. /\ n.pc = "answered" /\ n.value = v
        /\ n.age = NewReader.age /\ n.locked = NewReader.locked /\ n.ok = NewReader.ok
    BY <1>2 DEF Blank, Reader
  <2> QED
    BY <1>2, <2>1, <2>2 DEF Blank
<1> QED
  BY <1>2, <1>3, <1>4

LEMMA ReadersKeepConsistent ==
  ASSUME Consistent, NEW r \in Readers,
         Arrive(r) \/ ReaderStep(r) \/ CallFails(r) \/ ReleaseFails(r) \/ ReaderDies(r)
  PROVE  Consistent'
<1> USE DEF readRest
<1>0. /\ reader[r] \in Reader
      /\ UNCHANGED faults \/ Fault => faults' \in 0..MaxFaults
  BY ConstantsAssumption DEF Consistent, TypeOK, Fault
<1>1. reader[r].pc \in {"get", "lock", "retry"} =>
        reader[r].age = 0 /\ ~reader[r].locked
  BY DEF Consistent, StartInv
<1>2. reader[r].pc \in {"get", "lock", "retry", "fetch", "store"} => ~reader[r].ok
  BY DEF Consistent, StartInv
<1>3. CASE Get(r) \/ Retry(r)
  <2>1. PICK n : /\ n \in {[NewReader EXCEPT !.pc = "answered", !.value = entry.value],
                           [reader[r] EXCEPT !.pc = "lock"],
                           [reader[r] EXCEPT !.pc = "fetch"]}
                 /\ reader' = [reader EXCEPT ![r] = n]
    BY <1>3 DEF Get, Retry, Goes, Answers, AfterRetryMiss
  <2>2. /\ UNCHANGED <<version, age, writer, entry, lock, faults>>
        /\ reader[r].pc \in {"get", "retry"}
    BY <1>3 DEF Get, Retry
  <2>3. entry.value \in Versions
    BY DEF Consistent, TypeOK, Entry
  <2>4. Blank(n) /\ n.pc \in {"answered", "lock", "fetch"}
    <3>1. CASE n = [NewReader EXCEPT !.pc = "answered", !.value = entry.value]
      BY <2>3, <3>1, BlankReaders
    <3>2. CASE n \in {[reader[r] EXCEPT !.pc = "lock"], [reader[r] EXCEPT !.pc = "fetch"]}
      BY <1>0, <1>1, <1>2, <2>2, <3>2 DEF Blank, Reader
    <3> QED
      BY <2>1, <3>1, <3>2
  <2>5. n \in Reader /\ ~n.locked /\ n.age = 0 /\ ~n.ok
    BY <2>4 DEF Blank
  <2> HIDE <2>1
  <2> QED
    BY <1>0, <2>1, <2>2, <2>4, <2>5, EntryStays, LockStays, ReaderMoves
<1>4. CASE TryLock(r)
  <2>1. /\ reader[r].pc = "lock" /\ UNCHANGED <<version, age, writer, entry, faults>>
    BY <1>4 DEF TryLock
  <2>2. CASE LockFree
    <3> DEFINE n == [reader[r] EXCEPT !.pc = "fetch", !.locked = TRUE]
    <3>1. lock' = LockedBy(r) /\ reader' = [reader EXCEPT ![r] = n]
      BY <1>4, <2>2 DEF TryLock
    <3>2. n \in Reader /\ n.pc = "fetch" /\ n.age = 0 /\ ~n.ok
      BY <1>0, <1>1, <1>2, <2>1 DEF Reader
    <3> HIDE DEF n
    <3> QED
      BY <1>0, <2>1, <2>2, <3>1, <3>2, EntryStays, LockTaken, ReaderMoves
  <2>3. CASE ~LockFree
    <3> DEFINE n == [reader[r] EXCEPT !.pc = "retry"]
    <3>1. UNCHANGED lock /\ reader' = [reader EXCEPT ![r] = n]
      BY <1>4, <2>3 DEF TryLock, Goes
    <3>2. n \in Reader /\ n.pc = "retry" /\ n.age = 0 /\ ~n.ok /\ ~n.locked
      BY <1>0, <1>1, <1>2, <2>1 DEF Reader
    <3> HIDE DEF n
    <3> QED
      BY <1>0, <2>1, <3>1, <3>2, EntryStays, LockStays, ReaderMoves
  <2> QED
    BY <2>2, <2>3
<1>5. CASE Fetch(r)
  <2> DEFINE n == [reader[r] EXCEPT !.pc = "store", !.value = version]
  <2>1. /\ reader[r].pc = "fetch" /\ UNCHANGED <<version, age, writer, entry, lock, faults>>
        /\ reader' = [reader EXCEPT ![r] = n]
    BY <1>5 DEF Fetch
  <2>2. version \in Versions /\ age[version] = 0 /\ version \in 0..version
    BY Bounds DEF Consistent, TypeOK, AgeInv
  <2>3. /\ n \in Reader /\ n.pc = "store" /\ n.value = version
        /\ n.age = reader[r].age /\ n.locked = reader[r].locked /\ ~n.ok
    BY <1>0, <1>2, <2>1, <2>2 DEF Reader
  <2>4. n.age >= 0
    BY <1>0, <2>3, ConstantsAssumption DEF Reader
  <2> HIDE DEF n
  <2> QED
    BY <1>0, <2>1, <2>2, <2>3, <2>4, EntryStays, LockStays, ReaderMoves DEF Fetching
<1>6. CASE Store(r)
  <2> DEFINE n == [reader[r] EXCEPT !.pc = "release", !.ok = TRUE]
  <2>1. /\ reader[r].pc = "store" /\ UNCHANGED <<version, age, writer, lock, faults>>
        /\ reader' = [reader EXCEPT ![r] = n] /\ entry' = Stored(r)
    BY <1>6 DEF Store
  <2>2. /\ n \in Reader /\ n.pc = "release" /\ n.value = reader[r].value
        /\ n.age = reader[r].age /\ n.locked = reader[r].locked
    BY <1>0 DEF Reader
  <2> HIDE DEF n
  <2>3. reader[r].value \in 0..version /\ age[reader[r].value] <= reader[r].age
    BY <2>1 DEF Consistent, FetchInv
  <2>4. entry' \in Entry /\ EntryInv'
    BY <2>1, StoredKeepsPromise
  <2> QED
    BY <1>0, <2>1, <2>2, <2>3, <2>4, LockStays, ReaderMoves DEF Fetching
<1>7. CASE Arrive(r) \/ Release(r) \/ ReleaseFails(r) \/ ReaderDies(r)
  <2>1. PICK n : /\ n \in {NewReader,
                           [NewReader EXCEPT !.pc = "answered", !.value = reader[r].value],
                           [NewReader EXCEPT !.pc = "failed"]}
                 /\ n.pc = "get" => UNCHANGED lock
                 /\ reader' = [reader EXCEPT ![r] = n]
    BY <1>7 DEF Arrive, Release, ReleaseFails, ReaderDies, Ends, Answers, Fails, NewReader
  <2>2. /\ UNCHANGED <<version, age, writer, entry>>
        /\ UNCHANGED faults \/ Fault
        /\ UNCHANGED lock \/ (Fetching(r) /\ reader[r].locked /\ lock' = NoLock)
    BY <1>7 DEF Arrive, Release, ReleaseFails, ReaderDies, Releases, Fetching
  <2>3. /\ n \in Reader /\ n.pc \in {"get", "answered", "failed"}
        /\ n.age = 0 /\ ~n.locked /\ ~n.ok
    <3>1. reader[r].value \in Versions \cup {NoVersion}
      BY <1>0 DEF Reader
    <3> QED
      BY <2>1, <3>1, BlankReaders DEF Blank
  <2> HIDE <2>1
  <2>4. lock' \in Lock /\ LockInv'
    BY <2>1, <2>2, <2>3, LockStays, LockFreed
  <2> QED
    BY <1>0, <2>1, <2>2, <2>3, <2>4, EntryStays, ReaderMoves
<1>8. CASE CallFails(r)
  <2>1. PICK n : /\ \/ /\ n = [reader[r] EXCEPT !.pc = "release"]
                       /\ reader[r].pc \in {"fetch", "store"}
                    \/ n = [NewReader EXCEPT !.pc = "failed"]
                 /\ reader' = [reader EXCEPT ![r] = n]
    BY <1>0, <1>8 DEF CallFails, Goes, Fails
  <2>2. /\ UNCHANGED <<version, age, writer>> /\ Fault
        /\ \/ UNCHANGED <<entry, lock>>
           \/ reader[r].pc = "lock" /\ LockFree /\ lock' = LockedBy(r) /\ UNCHANGED entry
           \/ reader[r].pc = "store" /\ entry' = Stored(r) /\ UNCHANGED lock
        /\ reader[r].pc \in {"get", "lock", "retry", "fetch", "store"}
    BY <1>8 DEF CallFails
  <2>3. /\ n \in Reader /\ n.pc \in {"release", "failed"} /\ ~n.ok
        /\ n.pc = "release" => /\ reader[r].pc \in {"fetch", "store"}
                              /\ n.age = reader[r].age /\ n.locked = reader[r].locked
        /\ n.pc = "failed" => n.age = 0 /\ ~n.locked
    <3>1. CASE n = [NewReader EXCEPT !.pc = "failed"]
      BY <3>1, BlankReaders DEF Blank
    <3>2. CASE n = [reader[r] EXCEPT !.pc = "release"] /\ reader[r].pc \in {"fetch", "store"}
      BY <1>0, <1>2, <3>2 DEF Reader
    <3> QED
      BY <2>1, <3>1, <3>2
  <2> HIDE <2>1
  <2>4. entry' \in Entry /\ EntryInv'
    BY <2>2, EntryStays, StoredKeepsPromise
  <2>5. lock' \in Lock /\ LockInv'
    BY <1>1, <2>1, <2>2, <2>3, LockStays, LockTaken DEF Fetching
  <2> QED
    BY <1>0, <2>1, <2>2, <2>3, <2>4, <2>5, ReaderMoves
<1> QED
  BY <1>3, <1>4, <1>5, <1>6, <1>7, <1>8 DEF ReaderStep

-----------------------------------------------------------------------------
(***************************************************************************)
(* The writers and the clock.                                              *)
(***************************************************************************)

\* No entry promises nothing.
LEMMA NoEntryPromises ==
  ASSUME Consistent, entry' = NoEntry, version' \in Versions,
         age' \in [Versions -> 0..Bound]
  PROVE  entry' \in Entry /\ EntryInv'
<1>1. entry' = [value |-> 0, left |-> 0] /\ 0 \in Versions /\ version' >= 0
  BY Bounds DEF NoEntry
<1>2. entry' \in Entry
  BY <1>1, ConstantsAssumption DEF Entry
<1>3. age'[0] \in 0..Bound
  BY <1>1
<1> QED
  BY <1>1, <1>2, <1>3, Bounds DEF EntryInv

\* A commit makes one more version, and there are as many as writers.
LEMMA CommitCounts ==
  ASSUME Consistent, NEW w \in Writers, Commit(w)
  PROVE  version + 1 \in Versions /\ VersionInv'
<1> DEFINE W == {x \in Writers : writer[x] # "new"}
<1>1. version' = version + 1 /\ writer' = [writer EXCEPT ![w] = "scan"] /\ w \notin W
  BY DEF Commit
<1>2. IsFiniteSet(W) /\ IsFiniteSet(W \cup {w}) /\ W \cup {w} \subseteq Writers
  BY ConstantsAssumption, FS_Subset, FS_AddElement
<1>3. Cardinality(W \cup {w}) = Cardinality(W) + 1
  BY <1>1, <1>2, FS_AddElement
<1>4. Cardinality(W \cup {w}) <= Cardinality(Writers)
  BY <1>2, ConstantsAssumption, FS_Subset
<1>5. version = Cardinality(W)
  BY DEF Consistent, VersionInv
<1>6. {x \in Writers : writer'[x] # "new"} = W \cup {w}
  BY <1>1 DEF Consistent, TypeOK
<1>7. VersionInv'
  BY <1>1, <1>3, <1>5, <1>6 DEF VersionInv
<1>8. version \in Nat
  BY Bounds DEF Consistent, TypeOK
<1> HIDE DEF W
<1> QED
  BY <1>3, <1>4, <1>5, <1>7, <1>8, Bounds

LEMMA WritersKeepConsistent ==
  ASSUME Consistent, NEW w \in Writers,
         Commit(w) \/ WriterStep(w) \/ InvalidationFails(w)
  PROVE  Consistent'
<1> USE DEF writeRest
<1>1. CASE Commit(w)
  <2>1. /\ version' = version + 1 /\ UNCHANGED <<age, lock, reader, entry, faults>>
        /\ writer' = [writer EXCEPT ![w] = "scan"]
    BY <1>1 DEF Commit
  <2>2. version + 1 \in Versions /\ VersionInv'
    BY <1>1, CommitCounts
  <2>3. version \in Nat /\ \A v \in Versions : v \in Nat
    BY Bounds DEF Consistent, TypeOK
  <2>4. TypeOK'
    BY <2>1, <2>2 DEF Consistent, TypeOK
  <2>5. AgeInv'
    BY <2>1, <2>3 DEF Consistent, AgeInv
  <2>6. EntryInv'
    <3>1. entry.value \in Nat /\ entry.value <= version
      BY <2>3 DEF Consistent, TypeOK, Entry, EntryInv
    <3> QED
      BY <2>1, <2>3, <3>1 DEF Consistent, EntryInv
  <2>7. StartInv' /\ LockInv'
    BY <2>1 DEF Consistent, StartInv, LockInv, Fetching
  <2>8. FetchInv'
    BY <2>1, <2>3 DEF Consistent, FetchInv
  <2> QED
    BY <2>2, <2>4, <2>5, <2>6, <2>7, <2>8 DEF Consistent
<1>2. CASE WriterStep(w) \/ InvalidationFails(w)
  <2>1. /\ UNCHANGED <<version, age, lock, reader>>
        /\ entry' \in {entry, NoEntry}
        /\ UNCHANGED faults \/ Fault
        /\ writer[w] \in {"scan", "del"}
        /\ writer' \in {[writer EXCEPT ![w] = "del"], [writer EXCEPT ![w] = "done"]}
    BY <1>2 DEF WriterStep, Scan, Del, InvalidationFails
  <2>2. entry' \in Entry /\ EntryInv'
    <3>1. CASE entry' = entry
      BY <2>1, <3>1 DEF Consistent, TypeOK, EntryInv
    <3>2. CASE entry' = NoEntry
      BY <2>1, <3>2, NoEntryPromises DEF Consistent, TypeOK
    <3> QED
      BY <2>1, <3>1, <3>2
  <2>3. TypeOK'
    BY <2>1, <2>2, ConstantsAssumption DEF Consistent, TypeOK, Fault
  <2>4. VersionInv'
    <3>1. {x \in Writers : writer'[x] # "new"} = {x \in Writers : writer[x] # "new"}
      BY <2>1 DEF Consistent, TypeOK
    <3> QED
      BY <2>1, <3>1 DEF Consistent, VersionInv
  <2>5. AgeInv' /\ StartInv' /\ FetchInv' /\ LockInv'
    BY <2>1 DEF Consistent, AgeInv, StartInv, FetchInv, LockInv, Fetching
  <2> QED
    BY <2>2, <2>3, <2>4, <2>5 DEF Consistent
<1> QED
  BY <1>1, <1>2

\* One unit of time: what ages and what expires keep step.
LEMMA TickKeepsConsistent ==
  ASSUME Consistent, Tick
  PROVE  Consistent'
<1>1. /\ \A r \in Readers : Fetching(r) => reader[r].age < MaxFetch
      /\ UNCHANGED <<version, writer, faults>>
      /\ age' = [v \in Versions |->
                   IF v < version /\ age[v] < Bound THEN age[v] + 1 ELSE age[v]]
      /\ reader' = [r \in Readers |->
           [reader[r] EXCEPT !.age = IF Fetching(r) THEN @ + 1 ELSE @]]
  BY DEF Tick
<1>2. /\ version \in Versions /\ age \in [Versions -> 0..Bound]
      /\ entry \in Entry /\ lock \in Lock /\ reader \in [Readers -> Reader]
  BY DEF Consistent, TypeOK
<1>3. IF entry.left > 1 THEN entry' = [value |-> entry.value, left |-> entry.left - 1]
                       ELSE entry' = NoEntry
  BY <1>2 DEF Tick, EntryAged, Entry
<1>4. IF lock.left > 1 THEN lock' = [left |-> lock.left - 1, holder |-> lock.holder]
                      ELSE lock' = NoLock
  BY <1>2 DEF Tick, Lock
<1>5. /\ age' \in [Versions -> 0..Bound]
      /\ \A v \in Versions : age'[v] = IF v < version /\ age[v] < Bound
                                       THEN age[v] + 1 ELSE age[v]
  BY <1>1, <1>2, Bounds
<1>6. \A r \in Readers :
        /\ reader'[r] \in Reader
        /\ reader'[r].pc = reader[r].pc /\ reader'[r].value = reader[r].value
        /\ reader'[r].locked = reader[r].locked /\ reader'[r].ok = reader[r].ok
        /\ reader'[r].age = IF Fetching(r) THEN reader[r].age + 1 ELSE reader[r].age
  BY <1>1, <1>2, ConstantsAssumption DEF Reader
<1>7. lock' \in Lock
  BY <1>2, <1>4, ConstantsAssumption DEF Lock, NoLock
<1>8. entry' \in Entry /\ EntryInv'
  <2>1. CASE entry.left > 1
    <3>1. entry' = [value |-> entry.value, left |-> entry.left - 1]
      BY <1>3, <2>1
    <3>2. entry.value \in Versions /\ entry.left \in 0..TTL
      BY <1>2 DEF Entry
    <3>3. entry' \in Entry
      BY <2>1, <3>1, <3>2, ConstantsAssumption DEF Entry
    <3>4. entry.value <= version /\ age[entry.value] + entry.left <= Bound
      BY DEF Consistent, EntryInv
    <3>5. age[entry.value] \in Nat
      BY <1>2, <3>2, Bounds
    <3>6. age'[entry.value] <= age[entry.value] + 1
      BY <1>5, <3>2, <3>5
    <3>7. age'[entry.value] \in Nat
      BY <1>5, <3>2, Bounds
    <3> QED
      BY <1>1, <3>1, <3>2, <3>3, <3>4, <3>5, <3>6, <3>7, Bounds, ConstantsAssumption
         DEF EntryInv
  <2>2. CASE ~(entry.left > 1)
    BY <1>1, <1>2, <1>3, <1>5, <2>2, NoEntryPromises
  <2> QED
    BY <2>1, <2>2
<1>9. TypeOK'
  BY <1>1, <1>5, <1>6, <1>7, <1>8 DEF Consistent, TypeOK
<1>10. VersionInv' /\ AgeInv'
  <2>1. VersionInv'
    BY <1>1 DEF Consistent, VersionInv
  <2>2. \A v \in Versions : v >= version => ~(v < version)
    BY <1>2, Bounds
  <2>3. AgeInv'
    BY <1>1, <1>5, <2>2 DEF Consistent, AgeInv
  <2> QED
    BY <2>1, <2>3
<1>11. StartInv'
  BY <1>6 DEF Consistent, StartInv, Fetching
<1>12. FetchInv'
  <2> SUFFICES ASSUME NEW r \in Readers,
                      reader[r].pc = "store" \/ (reader[r].pc = "release" /\ reader[r].ok)
               PROVE  reader[r].value \in 0..version
                      /\ age'[reader[r].value] <= reader[r].age + 1
    BY <1>1, <1>6 DEF FetchInv, Fetching
  <2>1. reader[r].value \in 0..version /\ age[reader[r].value] <= reader[r].age
    BY DEF Consistent, FetchInv
  <2>2. reader[r].value \in Versions /\ reader[r].age \in 0..MaxFetch
    BY <1>2, <2>1, Bounds DEF Reader
  <2> QED
    BY <1>2, <1>5, <2>1, <2>2, Bounds, ConstantsAssumption
<1>13. LockInv'
  <2> SUFFICES ASSUME LockOutlivesFetch, NEW r \in Readers, Fetching(r), reader[r].locked
               PROVE  lock'.holder = r /\ lock'.left + (reader[r].age + 1) = LockTTL
    BY <1>6 DEF LockInv, Fetching
  <2>1. lock.holder = r /\ lock.left + reader[r].age = LockTTL
    BY DEF Consistent, LockInv
  <2>2. reader[r].age < MaxFetch /\ reader[r].age \in Nat /\ lock.left \in Nat
    BY <1>1, <1>2, ConstantsAssumption DEF Lock, Reader
  <2>3. lock.left > 1
    BY <2>1, <2>2, ConstantsAssumption DEF LockOutlivesFetch
  <2> QED
    BY <1>4, <2>1, <2>2, <2>3, ConstantsAssumption
<1> QED
  BY <1>8, <1>9, <1>10, <1>11, <1>12, <1>13 DEF Consistent

-----------------------------------------------------------------------------
LEMMA NextKeepsConsistent == Consistent /\ [Next]_vars => Consistent'
<1> SUFFICES ASSUME Consistent, [Next]_vars PROVE Consistent'
  OBVIOUS
<1>1. CASE Next
  BY <1>1, ReadersKeepConsistent, WritersKeepConsistent, TickKeepsConsistent
     DEF Next, FaultStep
<1>2. CASE UNCHANGED vars
  BY <1>2 DEF vars, Consistent, TypeOK, VersionInv, AgeInv, EntryInv, StartInv, FetchInv,
              LockInv, Fetching
<1> QED
  BY <1>1, <1>2

\* The inductive invariant holds in every reachable state: versions are counted
\* right, an entry's time left makes up for its age, and the lock outlives its holder.
THEOREM ConsistentAlways == Spec => []Consistent
<1>1. Spec => Init /\ [][Next]_vars
  BY DEF Spec, SafeSpec
<1> QED
  BY <1>1, InitConsistent, NextKeepsConsistent, PTL

\* cache.ts:7-9: where the lock outlives a fetch, one request at most fetches under it.
THEOREM LockExclusiveAlways == Spec => []LockExclusive
<1>1. Consistent => LockExclusive
  BY DEF Consistent, LockExclusive, LockInv
<1> QED
  BY <1>1, ConsistentAlways, PTL

-----------------------------------------------------------------------------
(***************************************************************************)
(* Every step is a step of BoundedRead, or one that it does not see.       *)
(***************************************************************************)
\* A step of one reader is seen through its outcome and its answer only.
LEMMA ReaderSeen ==
  ASSUME Consistent, NEW r \in Readers, NEW n,
         reader' = [reader EXCEPT ![r] = n]
  PROVE  /\ [s \in Readers |-> Outcome(reader'[s])]
            = [[s \in Readers |-> Outcome(reader[s])] EXCEPT ![r] = Outcome(n)]
         /\ [s \in Readers |-> AnswerOf(reader'[s])]
            = [[s \in Readers |-> AnswerOf(reader[s])] EXCEPT ![r] = AnswerOf(n)]
<1>1. \A s \in Readers : reader'[s] = IF s = r THEN n ELSE reader[s]
  BY DEF Consistent, TypeOK
<1>2. \A s \in Readers :
        /\ Outcome(reader'[s]) = IF s = r THEN Outcome(n) ELSE Outcome(reader[s])
        /\ AnswerOf(reader'[s]) = IF s = r THEN AnswerOf(n) ELSE AnswerOf(reader[s])
  BY <1>1
<1> QED
  BY <1>2

\* A request that is still at it has no outcome.
LEMMA SilentStep ==
  ASSUME Consistent, NEW r \in Readers, NEW n,
         reader' = [reader EXCEPT ![r] = n], UNCHANGED <<version, age>>,
         Outcome(reader[r]) = "pending", Outcome(n) = "pending"
  PROVE  UNCHANGED Bounded!readVars
<1>1. AnswerOf(reader[r]) = NoVersion /\ AnswerOf(n) = NoVersion
  BY DEF Outcome, AnswerOf
<1>2. /\ [s \in Readers |-> Outcome(reader'[s])] = [s \in Readers |-> Outcome(reader[s])]
      /\ [s \in Readers |-> AnswerOf(reader'[s])] = [s \in Readers |-> AnswerOf(reader[s])]
  BY <1>1, ReaderSeen
<1> QED
  BY <1>2 DEF Bounded!readVars

LEMMA FailingStep ==
  ASSUME Consistent, NEW r \in Readers, NEW n,
         reader' = [reader EXCEPT ![r] = n], UNCHANGED <<version, age>>,
         Outcome(reader[r]) = "pending", n.pc = "failed"
  PROVE  Bounded!Fail(r)
<1>1. AnswerOf(reader[r]) = NoVersion /\ AnswerOf(n) = NoVersion /\ Outcome(n) = "failed"
  BY DEF Outcome, AnswerOf
<1>2. [s \in Readers |-> AnswerOf(reader'[s])] = [s \in Readers |-> AnswerOf(reader[s])]
  BY <1>1, ReaderSeen
<1>3. [s \in Readers |-> Outcome(reader'[s])]
      = [[s \in Readers |-> Outcome(reader[s])] EXCEPT ![r] = "failed"]
  <2>1. [s \in Readers |-> Outcome(reader'[s])]
        = [[s \in Readers |-> Outcome(reader[s])] EXCEPT ![r] = Outcome(n)]
    BY ReaderSeen
  <2> QED
    BY <1>1, <2>1
<1>4. [s \in Readers |-> Outcome(reader[s])][r] = "pending"
  OBVIOUS
<1> QED
  BY <1>2, <1>3, <1>4 DEF Bounded!Fail

LEMMA AnsweringStep ==
  ASSUME Consistent, NEW r \in Readers, NEW n,
         reader' = [reader EXCEPT ![r] = n], UNCHANGED <<version, age>>,
         Outcome(reader[r]) = "pending", n.pc = "answered",
         n.value <= version, age[n.value] < Bound
  PROVE  Bounded!Answer(r, n.value)
<1>1. Outcome(n) = "answered" /\ AnswerOf(n) = n.value
  BY DEF Outcome, AnswerOf
<1>2. /\ [s \in Readers |-> Outcome(reader'[s])]
         = [[s \in Readers |-> Outcome(reader[s])] EXCEPT ![r] = "answered"]
      /\ [s \in Readers |-> AnswerOf(reader'[s])]
         = [[s \in Readers |-> AnswerOf(reader[s])] EXCEPT ![r] = n.value]
  <2>1. /\ [s \in Readers |-> Outcome(reader'[s])]
           = [[s \in Readers |-> Outcome(reader[s])] EXCEPT ![r] = Outcome(n)]
        /\ [s \in Readers |-> AnswerOf(reader'[s])]
           = [[s \in Readers |-> AnswerOf(reader[s])] EXCEPT ![r] = AnswerOf(n)]
    BY ReaderSeen
  <2> QED
    BY <1>1, <2>1
<1>3. [s \in Readers |-> Outcome(reader[s])][r] = "pending"
  OBVIOUS
<1> QED
  BY <1>2, <1>3 DEF Bounded!Answer

\* A hit is not stale, and neither is what has just been fetched.
LEMMA FreshEnough ==
  ASSUME Consistent
  PROVE  /\ Hit => entry.value \in Versions /\ entry.value <= version
                   /\ age[entry.value] < Bound
         /\ \A r \in Readers : reader[r].pc = "release" /\ reader[r].ok =>
              /\ reader[r].value \in Versions /\ reader[r].value <= version
              /\ age[reader[r].value] < Bound
<1>1. /\ version \in Versions /\ age \in [Versions -> 0..Bound] /\ entry \in Entry
      /\ reader \in [Readers -> Reader]
  BY DEF Consistent, TypeOK
<1>2. ASSUME Hit
      PROVE  entry.value \in Versions /\ entry.value <= version /\ age[entry.value] < Bound
  <2>1. entry.value \in Versions /\ entry.left \in Nat /\ entry.left > 0
    BY <1>1, <1>2, ConstantsAssumption DEF Entry, Hit
  <2>2. entry.value <= version /\ age[entry.value] + entry.left <= Bound
    BY DEF Consistent, EntryInv
  <2>3. age[entry.value] \in Nat
    BY <1>1, <2>1, Bounds
  <2> QED
    BY <2>1, <2>2, <2>3, Bounds
<1>3. ASSUME NEW r \in Readers, reader[r].pc = "release", reader[r].ok
      PROVE  /\ reader[r].value \in Versions /\ reader[r].value <= version
             /\ age[reader[r].value] < Bound
  <2>1. reader[r].value \in 0..version /\ age[reader[r].value] <= reader[r].age
    BY <1>3 DEF Consistent, FetchInv
  <2>2. reader[r].value \in Versions /\ reader[r].age \in 0..MaxFetch
    BY <1>1, <2>1, Bounds DEF Reader
  <2>3. age[reader[r].value] \in Nat
    BY <1>1, <2>2, Bounds
  <2>4. reader[r].value <= version
    BY <1>1, <2>1, Bounds
  <2>5. age[reader[r].value] < Bound
    BY <2>1, <2>2, <2>3, Bounds, ConstantsAssumption
  <2> QED
    BY <2>2, <2>4, <2>5
<1> QED
  BY <1>2, <1>3

\* Another request.
LEMMA AskingStep ==
  ASSUME Consistent, NEW r \in Readers, Arrive(r)
  PROVE  Bounded!Ask(r)
<1>1. /\ reader' = [reader EXCEPT ![r] = NewReader] /\ UNCHANGED <<version, age>>
      /\ Outcome(reader[r]) # "pending"
      /\ Outcome(NewReader) = "pending" /\ AnswerOf(NewReader) = NoVersion
  BY DEF Arrive, readRest, Outcome, AnswerOf, NewReader
<1>2. /\ [s \in Readers |-> Outcome(reader'[s])]
         = [[s \in Readers |-> Outcome(reader[s])] EXCEPT ![r] = "pending"]
      /\ [s \in Readers |-> AnswerOf(reader'[s])]
         = [[s \in Readers |-> AnswerOf(reader[s])] EXCEPT ![r] = NoVersion]
  <2>1. /\ [s \in Readers |-> Outcome(reader'[s])]
           = [[s \in Readers |-> Outcome(reader[s])] EXCEPT ![r] = Outcome(NewReader)]
        /\ [s \in Readers |-> AnswerOf(reader'[s])]
           = [[s \in Readers |-> AnswerOf(reader[s])] EXCEPT ![r] = AnswerOf(NewReader)]
    BY <1>1, ReaderSeen
  <2> QED
    BY <1>1, <2>1
<1>3. [s \in Readers |-> Outcome(reader[s])][r] # "pending"
  BY <1>1
<1> QED
  BY <1>1, <1>2, <1>3 DEF Bounded!Ask

LEMMA ReadersRefine ==
  ASSUME Consistent, NEW r \in Readers,
         ReaderStep(r) \/ CallFails(r) \/ ReleaseFails(r) \/ ReaderDies(r)
  PROVE  [Bounded!Next]_Bounded!readVars
<1> USE DEF readRest
<1>0. reader[r] \in Reader /\ Outcome(reader[r]) = "pending"
  BY DEF Consistent, TypeOK, ReaderStep, Get, TryLock, Retry, Fetch, Store, Release,
         CallFails, ReleaseFails, ReaderDies, Outcome
<1>1. PICK n :
        /\ reader' = [reader EXCEPT ![r] = n]
        /\ \/ n.pc = "answered" /\ Hit /\ n.value = entry.value
           \/ n.pc = "answered" /\ reader[r].pc = "release" /\ reader[r].ok
              /\ n.value = reader[r].value
           \/ n.pc = "failed"
           \/ n.pc \in {"lock", "retry", "fetch", "store", "release"}
  <2>1. CASE Get(r) \/ Retry(r)
    <3>1. CASE Hit
      <4> DEFINE n == [NewReader EXCEPT !.pc = "answered", !.value = entry.value]
      <4>1. reader' = [reader EXCEPT ![r] = n]
        BY <2>1, <3>1 DEF Get, Retry, Answers
      <4>2. n.pc = "answered" /\ n.value = entry.value
        BY DEF NewReader
      <4> QED
        BY <3>1, <4>1, <4>2
    <3>2. CASE ~Hit
      <4>1. PICK pc \in {"lock", "fetch"} : reader' = [reader EXCEPT ![r].pc = pc]
        BY <2>1, <3>2 DEF Get, Retry, Goes, AfterRetryMiss
      <4> DEFINE n == [reader[r] EXCEPT !.pc = pc]
      <4>2. reader' = [reader EXCEPT ![r] = n] /\ n.pc = pc
        BY <1>0, <4>1 DEF Reader
      <4> QED
        BY <4>1, <4>2
    <3> QED
      BY <3>1, <3>2
  <2>2. CASE TryLock(r) \/ Fetch(r) \/ Store(r)
    <3>1. PICK n : /\ n \in {[reader[r] EXCEPT !.pc = "fetch", !.locked = TRUE],
                             [reader[r] EXCEPT !.pc = "retry"],
                             [reader[r] EXCEPT !.pc = "store", !.value = version],
                             [reader[r] EXCEPT !.pc = "release", !.ok = TRUE]}
                   /\ reader' = [reader EXCEPT ![r] = n]
      BY <2>2 DEF TryLock, Goes, Fetch, Store
    <3>2. n.pc \in {"fetch", "retry", "store", "release"}
      BY <1>0, <3>1 DEF Reader
    <3> QED
      BY <3>1, <3>2
  <2>3. CASE Release(r) \/ ReleaseFails(r) \/ ReaderDies(r) \/ CallFails(r)
    <3>1. PICK n : /\ reader' = [reader EXCEPT ![r] = n]
                   /\ \/ /\ n = [NewReader EXCEPT !.pc = "answered",
                                                !.value = reader[r].value]
                         /\ reader[r].pc = "release" /\ reader[r].ok
                      \/ n = [NewReader EXCEPT !.pc = "failed"]
                      \/ n = [reader[r] EXCEPT !.pc = "release"]
      BY <2>3 DEF Release, ReleaseFails, ReaderDies, CallFails, Ends, Goes, Answers, Fails
    <3>2. \/ /\ n.pc = "answered" /\ n.value = reader[r].value
             /\ reader[r].pc = "release" /\ reader[r].ok
          \/ n.pc \in {"failed", "release"}
      BY <1>0, <3>1 DEF Reader, NewReader
    <3> QED
      BY <3>1, <3>2
  <2> QED
    BY <2>1, <2>2, <2>3 DEF ReaderStep
<1>2. UNCHANGED <<version, age>>
  BY DEF ReaderStep, Get, TryLock, Retry, Fetch, Store, Release, CallFails, ReleaseFails,
         ReaderDies
<1>3. CASE n.pc = "answered" /\ n.value \in Versions /\ n.value <= version
           /\ age[n.value] < Bound
  <2>1. Bounded!Answer(r, n.value)
    BY <1>0, <1>1, <1>2, <1>3, AnsweringStep
  <2>2. n.value \in DOMAIN age
    BY <1>3 DEF Consistent, TypeOK
  <2> QED
    BY <2>1, <2>2 DEF Bounded!Next
<1>4. CASE n.pc = "failed"
  BY <1>0, <1>1, <1>2, <1>4, FailingStep DEF Bounded!Next
<1>5. CASE n.pc \in {"lock", "retry", "fetch", "store", "release"}
  <2>1. Outcome(n) = "pending"
    BY <1>5 DEF Outcome
  <2> QED
    BY <1>0, <1>1, <1>2, <2>1, SilentStep
<1> QED
  BY <1>1, <1>3, <1>4, <1>5, FreshEnough

LEMMA NextRefines ==
  ASSUME Consistent, [Next]_vars
  PROVE  [Bounded!Next]_Bounded!readVars
<1>1. CASE \E r \in Readers :
             ReaderStep(r) \/ CallFails(r) \/ ReleaseFails(r) \/ ReaderDies(r)
  BY <1>1, ReadersRefine
<1>2. CASE \E r \in Readers : Arrive(r)
  BY <1>2, AskingStep DEF Bounded!Next
<1>3. CASE \E w \in Writers : Commit(w)
  BY <1>3 DEF Commit, writeRest, Bounded!Next, Bounded!Write
<1>4. CASE \E w \in Writers : WriterStep(w) \/ InvalidationFails(w)
  BY <1>4 DEF WriterStep, Scan, Del, InvalidationFails, writeRest, Bounded!readVars
<1>5. CASE Tick
  <2>1. \A r \in Readers : /\ reader'[r].pc = reader[r].pc
                            /\ reader'[r].value = reader[r].value
    BY <1>5 DEF Tick, Consistent, TypeOK, Reader
  <2>2. /\ [r \in Readers |-> Outcome(reader'[r])] = [r \in Readers |-> Outcome(reader[r])]
        /\ [r \in Readers |-> AnswerOf(reader'[r])] = [r \in Readers |-> AnswerOf(reader[r])]
    BY <2>1 DEF Outcome, AnswerOf
  <2>3. DOMAIN age = Versions
    BY DEF Consistent, TypeOK
  <2> QED
    BY <1>5, <2>2, <2>3 DEF Tick, Bounded!Next, Bounded!Tick
<1>6. CASE UNCHANGED vars
  BY <1>6 DEF vars, Bounded!readVars
<1> QED
  BY <1>1, <1>2, <1>3, <1>4, <1>5, <1>6 DEF Next, FaultStep

\* cache.ts:134-137, for every schedule of invalidations, fills and faults: an
\* answer was current less than the TTL and one fetch ago.
THEOREM BoundedStalenessAlways == Spec => BoundedStaleness
<1>1. Init => Bounded!Init
  <2> SUFFICES ASSUME Init PROVE Bounded!Init
    OBVIOUS
  <2>1. \A r \in Readers : reader[r].pc = "get"
    BY DEF Init, NewReader
  <2> QED
    BY <2>1 DEF Init, Bounded!Init, Outcome, AnswerOf
<1>2. Spec => Init /\ [][Next]_vars
  BY DEF Spec, SafeSpec
<1> QED
  BY <1>1, <1>2, ConsistentAlways, NextRefines, PTL DEF BoundedStaleness, Bounded!SafeSpec
==============================================================================
