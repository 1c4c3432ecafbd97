-------------------------- MODULE SdrManagerProofs --------------------------
(***************************************************************************)
(* What holds of IpmiSdrManager for any editions, keys and threads: its    *)
(* mutex keeps lookups and reads apart although an exception may leave it  *)
(* locked, and the maps never hold a sensor of another SDR than the one    *)
(* whose header is stored.                                                 *)
(***************************************************************************)
EXTENDS SdrManager, TLAPS

(* Who has the mutex: nobody, a lookup that holds it once, or the provider *)
(* thread, which may hold it more than once after an exception.            *)
MutexInv ==
    /\ owner = Nobody <=> depth = 0
    /\ \A t \in Threads : owner = t => depth = 1 /\ lookup[t] = "reading"
    /\ \A t \in Threads : lookup[t] = "reading" => owner = t
    /\ pc \in {"header", "insert"} => owner = Worker

(* readSdr() runs with an open cache.                                      *)
CacheInv == pc # "idle" => cache # NoEdition

LockInv == TypeOK /\ MutexInv /\ CacheInv

(* readSdr() inserts records of the header that it has stored, and has     *)
(* removed those of any other.                                             *)
MapInv ==
    /\ pc = "insert" => header = cache
    /\ MapOfHeader

-----------------------------------------------------------------------------
(* A mutex that is taken is held by the one who took it.                   *)
LEMMA Taken ==
    ASSUME LockInv, NEW t, t # Nobody, Take(t)
    PROVE  /\ owner' = t /\ depth' \in Nat \ {0}
           /\ owner = Nobody => depth' = 1
BY DEF LockInv, MutexInv, CacheInv, TypeOK, Take

(* A mutex that is held can be released; held once, it is free then.       *)
LEMMA Released ==
    ASSUME LockInv, owner # Nobody, Release
    PROVE  /\ depth' \in Nat
           /\ owner' \in {owner, Nobody}
           /\ owner' = Nobody <=> depth' = 0
           /\ depth = 1 => owner' = Nobody
BY DEF LockInv, MutexInv, CacheInv, TypeOK, Release

(* The mutex and the types are right in the beginning.                     *)
LEMMA LockInit == Init => LockInv
<1> SUFFICES ASSUME Init PROVE LockInv
  OBVIOUS
<1> USE ThreadsAssumption, FaultsAssumption, ContentAssumption
<1>1. header \in Editions \union {NoEdition} /\ cache \in Editions \union {NoEdition}
      /\ deviceSdr \in Editions
  BY DEF Init
<1>2. map \in SUBSET Keys
  <2>1. CASE map = {}
    BY <2>1
  <2>2. ASSUME NEW n \in 0 .. Len(Content[deviceSdr]), map = KeysUpTo(deviceSdr, n)
        PROVE  map \in SUBSET Keys
    <3>1. Content[deviceSdr] \in Seq(Keys)
      BY <1>1
    <3>2. \A i \in DOMAIN Content[deviceSdr] : Content[deviceSdr][i] \in Keys
      BY <3>1
    <3> QED BY <2>2, <3>2 DEF KeysUpTo
  <2> QED BY <2>1, <2>2 DEF Init
<1>3. TypeOK
  BY <1>1, <1>2 DEF Init, TypeOK
<1>4. MutexInv /\ CacheInv
  BY DEF Init, MutexInv, CacheInv
<1> QED BY <1>3, <1>4 DEF LockInv

(* The steps of readSdr() keep the mutex and the types right.              *)
LEMMA ReadLockStep == LockInv /\ (ReadSdr \/ FoundCacheChanged) => LockInv'
<1> SUFFICES ASSUME LockInv, ReadSdr \/ FoundCacheChanged PROVE LockInv'
  OBVIOUS
<1> USE ThreadsAssumption, FaultsAssumption, ContentAssumption
<1>1. CASE FoundCacheChanged
  BY <1>1 DEF FoundCacheChanged, HeaderChanged, CallReadSdr, LockInv, MutexInv, CacheInv, TypeOK,
              memory, mutex, outside
<1>2. CASE ReadLock
  <2>1. owner' = Worker /\ depth' \in Nat \ {0}
    BY <1>2, Taken DEF ReadLock, TakeForReading
  <2>2. owner \in {Nobody, Worker}
    BY <1>2 DEF ReadLock, TakeForReading, Take
  <2>3. \A t \in Threads : lookup[t] # "reading"
    BY <2>2 DEF LockInv, MutexInv
  <2> QED BY <1>2, <2>1, <2>3 DEF ReadLock, LockInv, MutexInv, CacheInv, TypeOK,
             memory, outside
<1>3. CASE ReadHeader
  BY <1>3 DEF ReadHeader, TakeHeader, ClearMaps, LockInv, MutexInv, CacheInv, TypeOK,
              mutex, outside
<1>4. CASE InsertRecord
  <2>1. cache \in Editions /\ next \in Nat \ {0} /\ next <= Len(Content[cache])
    BY <1>4 DEF InsertRecord, More, LockInv, CacheInv, TypeOK
  <2>2. Content[cache] \in Seq(Keys)
    BY <2>1
  <2>3. Content[cache][next] \in Keys
    BY <2>1, <2>2
  <2> QED BY <1>4, <2>1, <2>3 DEF InsertRecord, LockInv, MutexInv, CacheInv, TypeOK, mutex, outside
<1>5. ASSUME pc = "insert", Release \/ UNCHANGED mutex, pc' = "idle",
             UNCHANGED <<header, map, next, lookup, caller>>,
             readDue' \in BOOLEAN, cache' = cache, deviceSdr' = deviceSdr,
             sdrFaults' \in 0 .. MaxSdrFaults
      PROVE  LockInv'
  <2>1. owner = Worker /\ owner # Nobody
    BY <1>5 DEF LockInv, MutexInv
  <2>2. /\ depth' \in Nat /\ owner' \in {Worker, Nobody}
        /\ owner' = Nobody <=> depth' = 0
    BY <1>5, <2>1, Released DEF mutex, LockInv, MutexInv, CacheInv, TypeOK
  <2>3. \A t \in Threads : lookup[t] # "reading"
    BY <2>1 DEF LockInv, MutexInv
  <2> QED BY <1>5, <2>2, <2>3 DEF LockInv, MutexInv, CacheInv, TypeOK
<1>6. CASE ReadDone
  BY <1>6, <1>5 DEF ReadDone, outside, LockInv, TypeOK
<1>7. CASE ReadFails
  BY <1>7, <1>5 DEF ReadFails, Fault, LeaveByException, memory, LockInv, TypeOK
<1>8. CASE DuplicateKey
  BY <1>8, <1>5 DEF DuplicateKey, LeaveByException, memory, outside, LockInv, TypeOK
<1> QED BY <1>1, <1>2, <1>3, <1>4, <1>6, <1>7, <1>8 DEF ReadSdr

(* So do the steps of a lookup.                                            *)
LEMMA LookupStep ==
    ASSUME LockInv, NEW t \in Threads, LookupCall(t) \/ Lookup(t)
    PROVE  LockInv'
<1> USE ThreadsAssumption
<1>1. CASE LookupCall(t)
  BY <1>1 DEF LookupCall, LockInv, MutexInv, CacheInv, TypeOK, memory, mutex, thread, outside
<1>2. CASE LookupLock(t)
  <2>1. owner = Nobody
    BY <1>2 DEF LookupLock, Take, LockInv, MutexInv
  <2>2. owner' = t /\ depth' = 1
    BY <1>2, <2>1, Taken DEF LookupLock
  <2>3. \A u \in Threads : lookup[u] # "reading"
    BY <2>1 DEF LockInv, MutexInv
  <2>4. pc \notin {"header", "insert"}
    BY <2>1 DEF LockInv, MutexInv
  <2> QED BY <1>2, <2>2, <2>3, <2>4 DEF LookupLock, LockInv, MutexInv, CacheInv, TypeOK,
             memory, thread, outside
<1>3. CASE LookupFind(t)
  <2>1. owner = t /\ depth = 1 /\ owner # Nobody
    BY <1>3 DEF LookupFind, LockInv, MutexInv
  <2>2. owner' = Nobody /\ depth' = 0
    BY <1>3, <2>1 DEF LookupFind, Release
  <2>3. \A u \in Threads : lookup'[u] # "reading"
    BY <1>3, <2>1 DEF LookupFind, LockInv, MutexInv, CacheInv, TypeOK
  <2>4. pc \notin {"header", "insert"}
    BY <2>1 DEF LockInv, MutexInv
  <2> QED BY <1>3, <2>2, <2>3, <2>4 DEF LookupFind, LockInv, MutexInv, CacheInv, TypeOK,
             memory, thread, outside
<1> QED BY <1>1, <1>2, <1>3 DEF Lookup

(* The steps that do not touch the mutex.                                  *)
LEMMA OtherLockStep ==
    ASSUME LockInv, Poll \/ CacheLost \/ CacheOpened \/ SdrUpdated \/ MinuteOver
    PROVE  LockInv'
<1> USE FaultsAssumption DEF LockInv, MutexInv, CacheInv, TypeOK, mutex, thread, outside
<1>1. CASE PollSame
  BY <1>1 DEF PollSame
<1>2. CASE PollFails
  BY <1>2 DEF PollFails, PollDue, Fault, memory
<1>3. CASE PollRebuilt
  BY <1>3, EditionsAssumption DEF PollRebuilt, CallReadSdr, PollDue
<1>4. CASE PollRebuildFails
  <2>1. pc = "idle" /\ sdrFaults' \in 0 .. MaxSdrFaults
    BY <1>4 DEF PollRebuildFails, PollDue, Fault
  <2> QED BY <1>4, <2>1 DEF PollRebuildFails
<1>5. CASE CacheLost \/ CacheOpened \/ SdrUpdated
  BY <1>5, EditionsAssumption DEF CacheLost, CacheOpened, SdrUpdated, Fault, memory
<1>6. CASE MinuteOver
  BY <1>6 DEF MinuteOver
<1> QED BY <1>1, <1>2, <1>3, <1>4, <1>5, <1>6 DEF Poll

LEMMA LockStep == LockInv /\ [Next]_vars => LockInv'
<1> SUFFICES ASSUME LockInv, [Next]_vars PROVE LockInv'
  OBVIOUS
<1>1. CASE UNCHANGED vars
  BY <1>1 DEF vars, memory, mutex, thread, outside, LockInv, MutexInv, CacheInv, TypeOK
<1>2. CASE Next
  BY <1>2, ReadLockStep, LookupStep, OtherLockStep DEF Next
<1> QED BY <1>1, <1>2

(* Every variable stays within its type: above all, epicsMutex is never    *)
(* unlocked by a thread that does not hold it.                             *)
THEOREM TypeCorrect == Spec => []TypeOK
<1>1. LockInv => TypeOK
  BY DEF LockInv
<1> QED BY <1>1, LockInit, LockStep, PTL DEF Spec

(* A lookup has the maps for itself, in whatever order reads fail, are     *)
(* repeated and leave the mutex locked.                                    *)
THEOREM LookupsExcludeReads == Spec => []LookupExclusive
<1>1. LockInv => LookupExclusive
  BY ThreadsAssumption DEF LockInv, MutexInv, LookupExclusive
<1> QED BY <1>1, LockInit, LockStep, PTL DEF Spec

-----------------------------------------------------------------------------
(* The first keys of an edition are keys of it.                            *)
LEMMA KeysUpToInKeysOf ==
    ASSUME NEW e \in Editions, NEW n \in Nat
    PROVE  KeysUpTo(e, n) \subseteq KeysOf(e)
BY EditionsAssumption DEF KeysUpTo, KeysOf, ToSet

LEMMA MapInit == Init => MapInv
<1> SUFFICES ASSUME Init PROVE MapInv
  OBVIOUS
<1>1. pc = "idle"
  BY DEF Init
<1>2. MapOfHeader
  BY KeysUpToInKeysOf DEF Init, MapOfHeader
<1> QED BY <1>1, <1>2 DEF MapInv

LEMMA MapStep == LockInv /\ MapInv /\ [Next]_vars => MapInv'
<1> SUFFICES ASSUME LockInv, MapInv, [Next]_vars PROVE MapInv'
  OBVIOUS
<1> USE EditionsAssumption DEF MapInv, MapOfHeader, KeysOf
<1>1. CASE UNCHANGED vars
  BY <1>1 DEF vars, memory, thread, outside
<1>2. CASE FoundCacheChanged
  BY <1>2 DEF FoundCacheChanged, HeaderChanged, CallReadSdr, memory, outside
<1>3. CASE PollSame
  BY <1>3 DEF PollSame, thread, outside
<1>4. CASE PollFails
  BY <1>4 DEF PollFails, PollDue, memory, thread
<1>5. CASE PollRebuilt
  BY <1>5 DEF PollRebuilt, CallReadSdr, LockInv, TypeOK
<1>6. CASE PollRebuildFails
  BY <1>6 DEF PollRebuildFails, PollDue, thread
<1>7. CASE ReadLock
  BY <1>7 DEF ReadLock, memory, outside
<1>8. CASE ReadHeader
  BY <1>8 DEF ReadHeader, TakeHeader, ClearMaps, outside
<1>9. CASE InsertRecord
  <2>1. cache \in Editions /\ next \in Nat \ {0}
    BY <1>9 DEF InsertRecord, LockInv, CacheInv, TypeOK
  <2>2. Content[cache] \in Seq(Keys)
    BY <2>1, ContentAssumption
  <2>3. next \in DOMAIN Content[cache]
    BY <1>9, <2>1, <2>2 DEF InsertRecord, More
  <2>4. Content[cache][next] \in KeysOf(cache)
    BY <2>1, <2>3 DEF ToSet
  <2> QED BY <1>9, <2>4 DEF InsertRecord, outside
<1>10. CASE ReadDone
  BY <1>10 DEF ReadDone, outside
<1>11. CASE ReadFails
  BY <1>11 DEF ReadFails, LeaveByException, memory
<1>12. CASE DuplicateKey
  BY <1>12 DEF DuplicateKey, LeaveByException, memory, outside
<1>13. ASSUME NEW t \in Threads, LookupCall(t) \/ Lookup(t) PROVE MapInv'
  BY <1>13 DEF LookupCall, Lookup, LookupLock, LookupFind, memory, thread, outside
<1>14. CASE CacheLost \/ CacheOpened \/ SdrUpdated
  BY <1>14 DEF CacheLost, CacheOpened, SdrUpdated, memory, thread, LockInv, CacheInv, TypeOK
<1>15. CASE MinuteOver
  BY <1>15 DEF MinuteOver, thread, outside
<1> QED BY <1>1, <1>2, <1>3, <1>4, <1>5, <1>6, <1>7, <1>8, <1>9, <1>10, <1>11,
           <1>12, <1>13, <1>14, <1>15 DEF Next, Poll, ReadSdr

(* No sensor of an SDR that the device no longer has can be found once the *)
(* header of the new one is stored, even if its records cannot be read.    *)
THEOREM OldSensorsGone == Spec => []MapOfHeader
<1>1. MapInv => MapOfHeader
  BY DEF MapInv
<1> QED BY <1>1, LockInit, LockStep, MapInit, MapStep, PTL DEF Spec
=============================================================================
