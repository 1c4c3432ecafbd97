----------------------------- MODULE SdrManager -----------------------------
(***************************************************************************)
(* The sensor data records of a device in memory (IpmiSdrManager.cpp).     *)
(* The provider thread keeps them up to date: it reads the SDR cache into  *)
(* maps under a recursive mutex whenever the header of the cache is not    *)
(* the one it has read, and once a minute asks the device whether its SDR  *)
(* repository is still the one in the cache.  The threads that process     *)
(* records look sensors up under the same mutex.                           *)
(*                                                                         *)
(* An SDR is an edition: the four header fields that are compared stand    *)
(* for it, and Content gives the keys of its sensor records in the order   *)
(* of the repository.  The cache belongs to the connection, which opens    *)
(* and loses it between two calls of the provider thread.                  *)
(***************************************************************************)
EXTENDS Naturals, Sequences, SequencesExt

CONSTANTS
    Editions,        \* the SDRs the device may have
    Keys,            \* entity-id : entity-instance : sensor name
    Content,         \* the sensor records of every edition, by their key
    Threads,         \* threads that process records
    Worker,          \* the provider thread
    Nobody,          \* the mutex is free
    NoEdition,       \* no header read, or no cache to read
    MaxSdrFaults        \* bound on failing calls and on changes of the SDR

ASSUME ContentAssumption == Content \in [Editions -> Seq(Keys)]

ASSUME ThreadsAssumption ==
    /\ Worker \notin Threads /\ Nobody \notin Threads /\ Worker # Nobody

ASSUME EditionsAssumption == NoEdition \notin Editions

ASSUME FaultsAssumption == MaxSdrFaults \in Nat

VARIABLES
    owner,           \* who holds mMutex ...
    depth,           \* ... and how often
    header,          \* mVersion, mRecordCount and the two timestamps
    map,             \* the keys of mSidEntityMap
    readDue,         \* mReadTime is more than a minute ago
    pc,              \* where the provider thread is in process()
    caller,          \* which of its calls of readSdr() it is in
    next,            \* i of the loop over the records
    lookup,          \* where a record thread is in findSensorByMapKey()
    cache,           \* the edition in the open cache
    deviceSdr,       \* the edition in the device
    sdrFaults

memory == <<header, map, readDue>>
mutex == <<owner, depth>>
thread == <<pc, caller, next>>
outside == <<cache, deviceSdr, sdrFaults>>

vars == <<memory, mutex, thread, lookup, outside>>

(* The keys of the first n sensor records of an edition.                   *)
KeysUpTo(e, n) == {Content[e][i] : i \in {j \in DOMAIN Content[e] : j <= n}}

KeysOf(e) == IF e = NoEdition THEN {} ELSE ToSet(Content[e])

TypeOK ==
    /\ owner \in Threads \union {Worker, Nobody}
    /\ depth \in Nat
    /\ header \in Editions \union {NoEdition}
    /\ map \in SUBSET Keys
    /\ readDue \in BOOLEAN
    /\ pc \in {"idle", "lock", "header", "insert"}
    /\ caller \in {"changed", "rebuilt"}
    /\ next \in Nat \ {0}
    /\ lookup \in [Threads -> {"idle", "waiting", "reading"}]
    /\ cache \in Editions \union {NoEdition}
    /\ deviceSdr \in Editions
    /\ sdrFaults \in 0 .. MaxSdrFaults

(* The first n sensor records of an edition can be inserted: their keys    *)
(* differ.                                                                 *)
Insertable(e, n) == n <= Len(Content[e]) /\ IsInjective(SubSeq(Content[e], 1, n))

(* The constructor has run readSdr() before there are other threads.  It   *)
(* may have failed at once or at a record, which leaves mReadTime at its   *)
(* default, long ago; its catch clause unlocks.                            *)
Init ==
    /\ owner = Nobody /\ depth = 0
    /\ deviceSdr \in Editions
    /\ \/ header = NoEdition /\ map = {} /\ cache = NoEdition
       \/ /\ header = deviceSdr /\ cache = deviceSdr
          /\ \E n \in 0 .. Len(Content[deviceSdr]) :
                /\ Insertable(deviceSdr, n)
                /\ map = KeysUpTo(deviceSdr, n)
    /\ readDue \in BOOLEAN
    /\ readDue \/ map = KeysOf(header)
    /\ pc = "idle" /\ caller = "changed" /\ next = 1
    /\ lookup = [t \in Threads |-> "idle"]
    /\ sdrFaults = 0

-----------------------------------------------------------------------------
(* Mistakes the properties are checked against.                            *)

TakeWithoutMutex == UNCHANGED mutex

ClearForgotten == UNCHANGED map

PollDueTooEarly ==
    pc = "idle" /\ cache # NoEdition /\ header = cache /\ ~readDue

LeaveByExceptionUnlockedTwice ==
    /\ depth' = depth - 2
    /\ owner' = Nobody
    /\ pc' = "idle"
    /\ UNCHANGED <<memory, caller, next, lookup>>

LookupFindKeepsMutex(t) ==
    /\ lookup[t] = "reading"
    /\ lookup' = [lookup EXCEPT ![t] = "idle"]
    /\ UNCHANGED <<memory, mutex, thread, outside>>

-----------------------------------------------------------------------------
(* epicsMutex is recursive: its owner may take it again.                   *)
Take(t) ==
    /\ owner \in {Nobody, t}
    /\ owner' = t
    /\ depth' = depth + 1

TakeForReading == Take(Worker)

Release ==
    /\ depth' = depth - 1
    /\ owner' = IF depth = 1 THEN Nobody ELSE owner

Fault == sdrFaults < MaxSdrFaults /\ sdrFaults' = sdrFaults + 1

-----------------------------------------------------------------------------
(* process(), by the provider thread, while the connection is up.          *)

(* compSdrHeader(): without a cache to read it throws, and the provider    *)
(* thread comes back in its next turn.                                     *)
HeaderChanged == cache # NoEdition /\ header # cache

CallReadSdr(from) ==
    /\ pc' = "lock"
    /\ caller' = from
    /\ UNCHANGED next

FoundCacheChanged ==
    /\ pc = "idle"
    /\ HeaderChanged
    /\ CallReadSdr("changed")
    /\ UNCHANGED <<memory, mutex, lookup, outside>>

(* The minute is over and the cache is the one that was read.              *)
PollDue == pc = "idle" /\ cache # NoEdition /\ ~HeaderChanged /\ readDue

PollSame ==
    /\ PollDue
    /\ deviceSdr = header
    /\ readDue' = FALSE
    /\ UNCHANGED <<header, map, mutex, thread, lookup, outside>>

(* getSdrInfo() throws before mReadTime is set.  It may disconnect.        *)
PollFails ==
    /\ PollDue
    /\ Fault
    /\ cache' \in {cache, NoEdition}
    /\ UNCHANGED <<memory, mutex, thread, lookup, deviceSdr>>

PollRebuilt ==
    /\ PollDue
    /\ deviceSdr # header
    /\ readDue' = FALSE
    /\ cache' = deviceSdr
    /\ CallReadSdr("rebuilt")
    /\ UNCHANGED <<header, map, mutex, lookup, deviceSdr, sdrFaults>>

(* rebuildSdrCache() throws when it has closed and deleted the cache.      *)
PollRebuildFails ==
    /\ PollDue
    /\ deviceSdr # header
    /\ Fault
    /\ readDue' = FALSE
    /\ cache' = NoEdition
    /\ UNCHANGED <<header, map, mutex, thread, lookup, deviceSdr>>

-----------------------------------------------------------------------------
(* readSdr(), step by step as far as other threads could tell.             *)

ReadLock ==
    /\ pc = "lock"
    /\ TakeForReading
    /\ pc' = "header"
    /\ UNCHANGED <<memory, caller, next, lookup, outside>>

TakeHeader == header' = cache

ClearMaps == map' = {}

(* The header is stored before a single record is read.  FreeIPMI keeps it *)
(* in the context of an open cache, so its four fields can all be read.    *)
ReadHeader ==
    /\ pc = "header"
    /\ TakeHeader
    /\ ClearMaps
    /\ next' = 1
    /\ pc' = "insert"
    /\ UNCHANGED <<readDue, caller, mutex, lookup, outside>>

More == next <= Len(Content[cache])

InsertRecord ==
    /\ pc = "insert"
    /\ More
    /\ Content[cache][next] \notin map
    /\ map' = map \union {Content[cache][next]}
    /\ next' = next + 1
    /\ UNCHANGED <<header, readDue, pc, caller, mutex, lookup, outside>>

ReadDone ==
    /\ pc = "insert"
    /\ ~More
    /\ readDue' = FALSE
    /\ Release
    /\ pc' = "idle"
    /\ UNCHANGED <<header, map, caller, next, lookup, outside>>

(* Only the call that follows a rebuild has a catch clause that unlocks.   *)
LeaveByException ==
    /\ IF caller = "rebuilt" THEN Release ELSE UNCHANGED mutex
    /\ pc' = "idle"
    /\ UNCHANGED <<memory, caller, next, lookup>>

(* The id and type of a record cannot be parsed.  Records that can be are  *)
(* taken as they are: an LED of a FRU that does not answer is left out.    *)
ReadFails ==
    /\ pc = "insert"
    /\ More
    /\ Fault
    /\ LeaveByException
    /\ UNCHANGED <<cache, deviceSdr>>

DuplicateKey ==
    /\ pc = "insert"
    /\ More
    /\ Content[cache][next] \in map
    /\ LeaveByException
    /\ UNCHANGED outside

-----------------------------------------------------------------------------
(* findSensorByMapKey() and getFruByDeviceSlaveAddress(), by a thread that *)
(* processes a record.                                                     *)

LookupCall(t) ==
    /\ lookup[t] = "idle"
    /\ lookup' = [lookup EXCEPT ![t] = "waiting"]
    /\ UNCHANGED <<memory, mutex, thread, outside>>

LookupLock(t) ==
    /\ lookup[t] = "waiting"
    /\ Take(t)
    /\ lookup' = [lookup EXCEPT ![t] = "reading"]
    /\ UNCHANGED <<memory, thread, outside>>

LookupFind(t) ==
    /\ lookup[t] = "reading"
    /\ Release
    /\ lookup' = [lookup EXCEPT ![t] = "idle"]
    /\ UNCHANGED <<memory, thread, outside>>

-----------------------------------------------------------------------------
(* The connection is operated by the provider thread too, so the cache     *)
(* does not change while that thread is in readSdr().                      *)

CacheLost ==
    /\ pc = "idle"
    /\ cache # NoEdition
    /\ cache' = NoEdition
    /\ Fault
    /\ UNCHANGED <<memory, mutex, thread, lookup, deviceSdr>>

(* A reconnection opens the cache, and FreeIPMI has an old one replaced.   *)
CacheOpened ==
    /\ pc = "idle"
    /\ cache = NoEdition
    /\ cache' = deviceSdr
    /\ UNCHANGED <<memory, mutex, thread, lookup, deviceSdr, sdrFaults>>

SdrUpdated ==
    /\ deviceSdr' \in Editions \ {deviceSdr}
    /\ Fault
    /\ UNCHANGED <<memory, mutex, thread, lookup, cache>>

MinuteOver ==
    /\ ~readDue
    /\ readDue' = TRUE
    /\ UNCHANGED <<header, map, mutex, thread, lookup, outside>>

-----------------------------------------------------------------------------
ReadSdr == ReadLock \/ ReadHeader \/ InsertRecord \/ ReadDone
           \/ ReadFails \/ DuplicateKey

Poll == PollSame \/ PollFails \/ PollRebuilt \/ PollRebuildFails

Lookup(t) == LookupLock(t) \/ LookupFind(t)

Next ==
    \/ FoundCacheChanged \/ Poll \/ ReadSdr
    \/ \E t \in Threads : LookupCall(t) \/ Lookup(t)
    \/ CacheLost \/ CacheOpened \/ SdrUpdated \/ MinuteOver

(* The threads run, a mutex that becomes free again and again is granted,  *)
(* and time passes.  The connection need not come back: FreeIpmiProvider   *)
(* shows that it may be left without a cache.                              *)
Fairness ==
    /\ WF_vars(FoundCacheChanged)
    /\ WF_vars(Poll)
    /\ SF_vars(ReadLock)
    /\ WF_vars(ReadSdr)
    /\ \A t \in Threads : SF_vars(LookupLock(t)) /\ WF_vars(LookupFind(t))
    /\ WF_vars(MinuteOver)

Spec == Init /\ [][Next]_vars /\ Fairness

-----------------------------------------------------------------------------
(* A lookup and readSdr() never work on the maps at the same time.         *)
LookupExclusive ==
    \A t \in Threads : lookup[t] = "reading" =>
        /\ owner = t
        /\ pc \notin {"header", "insert"}
        /\ \A u \in Threads \ {t} : lookup[u] # "reading"

(* The sensors that can be found are sensors of the SDR whose header is    *)
(* stored, even after a read that was given up half way: the sensors of an *)
(* older edition are gone.                                                 *)
MapOfHeader == map \subseteq KeysOf(header)

(* The device keeps its SDR, and there is a cache to read it from again    *)
(* and again.                                                              *)
Settles(e) == <>[](deviceSdr = e) /\ []<>(cache # NoEdition)

(* The SDR in memory becomes the one of the device.                        *)
HeaderFollowsDevice == \A e \in Editions : Settles(e) => <>[](header = e)

(* "If so, then we need to rebuild our cache file and local memory         *)
(* objects": the sensors in memory become those of the device.             *)
SensorsFollowDevice ==
    \A e \in Editions : Settles(e) => <>[](map = KeysOf(e))

(* "Let's try to get the entityAddrType again and recover": the thread     *)
(* that processes a record gets an answer from its lookup.                 *)
EveryLookupReturns ==
    \A t \in Threads : lookup[t] = "waiting" ~> lookup[t] = "idle"

(* readSdr() gets the mutex and comes back, however busy the lookups are.  *)
EveryReadReturns == pc = "lock" ~> pc = "idle"
=============================================================================
