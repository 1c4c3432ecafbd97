----------------------- MODULE FreeIpmiProviderProofs -----------------------
(***************************************************************************)
(* Theorems about FreeIpmiProvider, for any editions, keys, threads, links *)
(* and failures: it is a ConnectionManager and an SdrManager at once and   *)
(* keeps what was proved of them, a task finds the records of the SDR that *)
(* is in the cache, and a task that should have switched a site and did    *)
(* not ends in the catch clause.                                           *)
(***************************************************************************)
EXTENDS FreeIpmiProvider, TLAPS

-----------------------------------------------------------------------------
(* Every step of the provider is a step of the connection and one of the   *)
(* SDR in memory, or leaves them alone.                                    *)

LEMMA SdrKept == (UNCHANGED sdr) => UNCHANGED (S!vars)
PROOF BY DEF sdr, S!vars, S!memory, S!mutex, S!thread, S!outside

LEMMA ConnectionKept == (UNCHANGED connection) => UNCHANGED (C!vars)
PROOF BY DEF connection, C!vars, C!handles

LEMMA CacheStep ==
  ASSUME CacheFollows
  PROVE  [S!Next]_(S!vars)
PROOF BY SdrKept DEF CacheFollows, S!Next

LEMMA StepOfSdr == [Next]_vars => [S!Next]_(S!vars)
PROOF
  <1> SUFFICES ASSUME [Next]_vars PROVE [S!Next]_(S!vars)
    OBVIOUS
  <1>1. CASE Process
    BY <1>1, CacheStep DEF Process
  <1>2. CASE SdrTurn
    BY <1>2, SdrKept
       DEF SdrTurn, SdrSkip, SdrReread, SdrPollSame, SdrPollFails, SdrRebuild,
           S!Next, S!Poll
  <1>3. CASE ReadSdr
    BY <1>3 DEF ReadSdr, S!Next
  <1>4. CASE DoSensorTask
    BY <1>4, CacheStep DEF DoSensorTask
  <1>5. CASE QueueEmpty \/ TakeTask \/ DoLedTask \/ DoOemTask
    BY <1>5, SdrKept DEF QueueEmpty, TakeTask, DoLedTask, DoOemTask
  <1>6. CASE Lookups
    BY <1>6 DEF Lookups, S!Next
  <1>7. CASE Environment
    BY <1>7, SdrKept DEF Environment, S!Next
  <1>8. CASE UNCHANGED vars
    BY <1>8, SdrKept DEF vars
  <1> QED BY <1>1, <1>2, <1>3, <1>4, <1>5, <1>6, <1>7, <1>8 DEF Next, Turn, DoTask

LEMMA StepOfConnection == [Next]_vars => [C!Next]_(C!vars)
PROOF
  <1> SUFFICES ASSUME [Next]_vars PROVE [C!Next]_(C!vars)
    OBVIOUS
  <1> USE DEF C!Next, C!Thread
  <1>1. CASE Process
    BY <1>1 DEF Process
  <1>2. CASE SdrTurn
    <2>1. CASE SdrSkip \/ SdrReread
      BY <2>1 DEF SdrSkip, SdrReread
    <2>2. CASE SdrPollSame \/ SdrPollFails \/ SdrRebuild
      BY <2>2 DEF SdrPollSame, SdrPollFails, SdrRebuild
    <2> QED BY <1>2, <2>1, <2>2 DEF SdrTurn
  <1>3. CASE ReadSdr \/ TakeTask \/ Lookups
    BY <1>3, ConnectionKept DEF ReadSdr, TakeTask, Lookups
  <1>4. CASE QueueEmpty \/ DoLedTask \/ DoSensorTask
    BY <1>4 DEF QueueEmpty, DoLedTask, DoSensorTask
  <1>5. CASE DoOemTask
    <2>1. C!WriteOem \/ C!NoTask
      BY <1>5 DEF DoOemTask, EndOem
    <2> QED BY <2>1
  <1>6. CASE Environment
    BY <1>6, ConnectionKept DEF Environment
  <1>7. CASE UNCHANGED vars
    BY <1>7, ConnectionKept DEF vars
  <1> QED BY <1>1, <1>2, <1>3, <1>4, <1>5, <1>6, <1>7 DEF Next, Turn, DoTask

(* What is proved of the two parts holds of the provider: putting them     *)
(* together, with the state of one for the free choices of the other, adds *)
(* no behaviour to either.                                                 *)
THEOREM ImplementsParts ==
  Spec => /\ C!Init /\ [][C!Next]_(C!vars)
          /\ S!Init /\ [][S!Next]_(S!vars)
PROOF
  <1>1. Init => C!Init /\ S!Init
    BY DEF Init
  <1> QED BY <1>1, StepOfConnection, StepOfSdr, PTL DEF Spec

-----------------------------------------------------------------------------
(* What each part contributes.                                             *)

(* A sensor context is made in the last step of reconnect(), when the      *)
(* cache has been opened, and is destroyed with the session.               *)
ContextInv ==
    /\ C!Connected => sdrCtx = "created"
    /\ ~C!Connected => sensorCtx = "null" /\ cacheFile = "closed"
    /\ sensorCtx # "null" => mCacheFileIsOpen = TRUE

(* The records in memory are those of the header that is stored, and that  *)
(* is the header of the cache once readSdr() has read it.                  *)
MemoryInv ==
    /\ cache \in Editions \union {NoEdition} /\ deviceSdr \in Editions
    /\ pc \in {"idle", "lock", "header", "insert"} /\ next \in Nat \ {0}
    /\ pc # "idle" => cache # NoEdition
    /\ pc = "insert" => header = cache
    /\ S!MapOfHeader

LEMMA DisconnectReleases == C!Disconnect => ContextInv'
PROOF BY DEF C!Disconnect, C!Cleanup, ContextInv, C!Connected

LEMMA ReconnectContexts ==
  ASSUME ContextInv, C!Reconnect
  PROVE  /\ ContextInv'
         /\ turn' = "sdr" \/ sensorCtx' = "null"
PROOF
  <1>1. PICK n \in C!Steps :
          /\ C!OpenUpTo(n)
          /\ turn' = IF n = C!SensorContext THEN "sdr" ELSE "task"
    BY DEF C!Reconnect
  <1>2. ~C!Connected /\ sensorCtx = "null" /\ cacheFile = "closed"
    BY DEF C!Reconnect, C!ReconnectNow, ContextInv
  <1>3. n \in 0 .. 5
    BY DEF C!Steps, C!SensorContext
  <1> USE DEF C!IpmiContext, C!SdrContext, C!Session, C!Cache, C!SensorContext
  <1>4. CASE n < 3
    BY <1>1, <1>2, <1>3, <1>4 DEF C!OpenUpTo, ContextInv, C!Connected
  <1>5. CASE n \in {3, 4, 5}
    <2>1. /\ sdrCtx' = "created" /\ mConnState' = "CONNECTED"
          /\ n # 5 => sensorCtx' = "null"
          /\ n = 5 => turn' = "sdr"
      BY <1>1, <1>2, <1>5 DEF C!OpenUpTo
    <2>2. n = 5 => mCacheFileIsOpen' = TRUE
      <3>1. mCacheFileIsOpen' = (n >= 4 \/ mCacheFileIsOpen)
        BY <1>1, Zenon DEF C!OpenUpTo
      <3>2. n = 5 => n >= 4
        OBVIOUS
      <3> QED BY <3>1, <3>2, Zenon
    <2> QED BY <2>1, <2>2 DEF ContextInv, C!Connected
  <1> QED BY <1>3, <1>4, <1>5

LEMMA ContextStep == ContextInv /\ [C!Next]_(C!vars) => ContextInv'
PROOF
  <1> SUFFICES ASSUME ContextInv, [C!Next]_(C!vars) PROVE ContextInv'
    OBVIOUS
  <1>1. CASE C!Reconnect
    BY <1>1, ReconnectContexts
  <1>2. CASE C!Disconnect
    BY <1>2, DisconnectReleases
  <1>3. CASE UNCHANGED <<sdrCtx, sensorCtx, cacheFile, mCacheFileIsOpen, mConnState>>
    BY <1>3 DEF ContextInv, C!Connected
  <1>4. CASE C!RebuildSdrCache
    BY <1>4 DEF C!RebuildSdrCache, C!SdrCtxReturned, ContextInv, C!Connected
  <1>5. CASE C!Process \/ C!SdrPoll
    BY <1>1, <1>2, <1>3, <1>5
       DEF C!Process, C!KeepAlive, C!NothingDue, C!SdrPoll, C!ReadSdrInfo,
           C!SdrInfoRead, C!SdrInfoMissing, C!SdrInfoFails, C!handles
  <1>6. CASE C!SdrIdle \/ C!NoTask \/ C!SensorRead \/ C!SensorSessionTimeout
             \/ C!SensorError \/ C!WriteOem
    BY <1>2, <1>3, <1>6
       DEF C!SdrIdle, C!NoTask, C!SensorRead, C!SensorSessionTimeout, C!SensorError,
           C!WriteOem, C!handles
  <1>7. CASE C!Environment \/ UNCHANGED (C!vars)
    BY <1>3, <1>7
       DEF C!Environment, C!SessionLost, C!DeviceDown, C!DeviceUp, C!IdleTimeout,
           C!ReconnectTimeout, C!vars, C!handles
  <1> QED BY <1>4, <1>5, <1>6, <1>7 DEF C!Next, C!Thread

LEMMA ContextInit == Init => ContextInv
PROOF BY DEF Init, C!Init, ContextInv, C!Connected

LEMMA MemoryInit == Init => MemoryInv
PROOF
  <1> SUFFICES ASSUME Init PROVE MemoryInv
    OBVIOUS
  <1>1. /\ pc = "idle" /\ next = 1 /\ deviceSdr \in Editions
        /\ cache \in {NoEdition, deviceSdr}
    BY DEF Init, S!Init
  <1>2. S!MapOfHeader
    <2>1. CASE map = {}
      BY <2>1 DEF S!MapOfHeader
    <2>2. ASSUME header = deviceSdr,
                 NEW n \in 0 .. Len(Content[deviceSdr]), map = S!KeysUpTo(deviceSdr, n)
          PROVE  S!MapOfHeader
      BY <1>1, <2>2, EditionsAssumption
         DEF S!MapOfHeader, S!KeysUpTo, S!KeysOf, S!ToSet
    <2> QED BY <2>1, <2>2 DEF Init, S!Init
  <1> QED BY <1>1, <1>2 DEF MemoryInv

(* Steps that leave what readSdr() has read alone.                         *)
LEMMA MemoryKept ==
  ASSUME MemoryInv, UNCHANGED <<header, map>>, next' = next,
         cache' \in Editions \union {NoEdition}, deviceSdr' \in Editions,
         \/ pc' = "idle"
         \/ pc' = "lock" /\ cache' # NoEdition
         \/ pc' = "header" /\ pc # "idle" /\ cache' = cache
         \/ pc' = pc /\ cache' = cache
  PROVE  MemoryInv'
PROOF BY DEF MemoryInv, S!MapOfHeader, S!KeysOf, S!ToSet

LEMMA MemoryStep == MemoryInv /\ [S!Next]_(S!vars) => MemoryInv'
PROOF
  <1> SUFFICES ASSUME MemoryInv, [S!Next]_(S!vars) PROVE MemoryInv'
    OBVIOUS
  <1>0. cache \in Editions \union {NoEdition} /\ deviceSdr \in Editions
    BY DEF MemoryInv
  <1> USE DEF S!memory, S!mutex, S!thread, S!outside
  <1>1. CASE S!FoundCacheChanged
    BY <1>0, <1>1, MemoryKept DEF S!FoundCacheChanged, S!HeaderChanged, S!CallReadSdr
  <1>2. CASE S!Poll
    BY <1>0, <1>2, MemoryKept, EditionsAssumption
       DEF S!Poll, S!PollSame, S!PollFails, S!PollRebuilt, S!PollRebuildFails,
           S!PollDue, S!CallReadSdr
  <1>3. CASE S!ReadLock
    BY <1>0, <1>3, MemoryKept DEF S!ReadLock
  <1>4. CASE S!ReadHeader
    BY <1>4 DEF S!ReadHeader, S!TakeHeader, S!ClearMaps, MemoryInv, S!MapOfHeader
  <1>5. CASE S!InsertRecord
    <2>1. /\ pc = "insert" /\ next \in Nat \ {0} /\ next <= Len(Content[cache])
          /\ map' = map \union {Content[cache][next]} /\ next' = next + 1
          /\ UNCHANGED <<header, pc, cache, deviceSdr>>
      BY <1>5 DEF S!InsertRecord, S!More, MemoryInv
    <2>2. cache \in Editions /\ cache # NoEdition /\ header = cache
      BY <1>0, <2>1 DEF MemoryInv
    <2>3. Content[cache] \in Seq(Keys)
      BY <2>2, EditionsAssumption
    <2>4. Content[cache][next] \in S!KeysOf(cache)
      BY <2>1, <2>2, <2>3 DEF S!KeysOf, S!ToSet
    <2>5. S!MapOfHeader'
      BY <2>1, <2>2, <2>4 DEF S!MapOfHeader, S!KeysOf, S!ToSet, MemoryInv
    <2> QED BY <2>1, <2>5 DEF MemoryInv
  <1>6. CASE S!ReadDone \/ S!ReadFails \/ S!DuplicateKey
    BY <1>0, <1>6, MemoryKept DEF S!ReadDone, S!ReadFails, S!DuplicateKey, S!LeaveByException
  <1>7. ASSUME NEW t \in Threads, S!LookupCall(t) \/ S!Lookup(t) PROVE MemoryInv'
    BY <1>0, <1>7, MemoryKept DEF S!LookupCall, S!Lookup, S!LookupLock, S!LookupFind
  <1>8. CASE S!CacheLost \/ S!CacheOpened \/ S!SdrUpdated \/ S!MinuteOver
    BY <1>0, <1>8, MemoryKept DEF S!CacheLost, S!CacheOpened, S!SdrUpdated, S!MinuteOver
  <1>9. CASE UNCHANGED (S!vars)
    BY <1>0, <1>9, MemoryKept DEF S!vars
  <1> QED BY <1>1, <1>2, <1>3, <1>4, <1>5, <1>6, <1>7, <1>8, <1>9 DEF S!Next, S!ReadSdr

-----------------------------------------------------------------------------
(* What holds of the two parts together.                                   *)

(* Outside of the turn of the SDR manager, and when readSdr() is not about *)
(* to read them, the records in memory are those of an open cache, if the  *)
(* sensors can be read at all.                                             *)
CurrentInv ==
    C!SensorCtxUsed /\ cacheFile = "open" /\ turn # "sdr" /\ pc \in {"idle", "insert"}
        => header = cache

ProviderInv ==
    /\ ContextInv /\ MemoryInv
    /\ CacheOpen(cacheFile, cache)
    /\ pc # "idle" => turn = "task"
    /\ CurrentInv

LEMMA ProviderInit == Init => ProviderInv
PROOF
  <1> SUFFICES ASSUME Init PROVE ProviderInv
    OBVIOUS
  <1>1. pc = "idle" /\ header = cache /\ CacheOpen(cacheFile, cache)
    BY DEF Init, S!Init
  <1> QED BY <1>1, ContextInit, MemoryInit DEF ProviderInv, CurrentInv

(* The cache that the SDR manager sees is the one that the connection has. *)
LEMMA CacheFollowed ==
  ASSUME ProviderInv, CacheFollows
  PROVE  /\ CacheOpen(cacheFile', cache') /\ UNCHANGED <<pc, header>>
         /\ cacheFile' = cacheFile => cache' = cache
PROOF
  <1>0. deviceSdr # NoEdition
    BY EditionsAssumption DEF ProviderInv, MemoryInv
  <1>1. CASE cacheFile = "closed" /\ cacheFile' = "open" /\ S!CacheOpened
    <2>1. cache' = deviceSdr /\ UNCHANGED <<pc, header>>
      BY <1>1 DEF S!CacheOpened, S!memory, S!thread
    <2> QED BY <1>0, <1>1, <2>1 DEF CacheOpen
  <1>2. CASE cacheFile = "open" /\ cacheFile' = "closed" /\ S!CacheLost
    <2>1. cache' = NoEdition /\ UNCHANGED <<pc, header>>
      BY <1>2 DEF S!CacheLost, S!memory, S!thread
    <2> QED BY <1>2, <2>1 DEF CacheOpen
  <1>3. CASE cacheFile' = cacheFile /\ UNCHANGED sdr
    BY <1>3 DEF sdr, CacheOpen, ProviderInv
  <1> QED BY <1>1, <1>2, <1>3 DEF CacheFollows

(* Steps that do not change what CurrentInv relates.                       *)
LEMMA CurrentKept ==
  ASSUME ProviderInv, turn # "sdr",
         UNCHANGED <<sensorCtx, cacheFile, mConnState, header, cache, pc>>
  PROVE  CurrentInv'
PROOF BY DEF ProviderInv, CurrentInv, C!SensorCtxUsed, C!Connected

LEMMA ProcessStep ==
  ASSUME ProviderInv, Process
  PROVE  CacheOpen(cacheFile', cache') /\ pc' = "idle" /\ CurrentInv'
PROOF
  <1>1. /\ pc = "idle" /\ turn = "process" /\ CacheFollows
        /\ C!KeepAlive \/ C!Reconnect \/ C!NothingDue
    BY DEF Process, C!Process
  <1>2. /\ CacheOpen(cacheFile', cache') /\ UNCHANGED <<pc, header>>
        /\ cacheFile' = cacheFile => cache' = cache
    BY <1>1, CacheFollowed
  <1>3. CurrentInv'
    <2>1. CASE UNCHANGED <<sensorCtx, cacheFile, mConnState>>
      BY <1>1, <1>2, <2>1, CurrentKept
    <2>2. CASE C!Disconnect
      BY <2>2 DEF C!Disconnect, C!Cleanup, CurrentInv, C!SensorCtxUsed, C!Connected
    <2>3. CASE C!Reconnect
      BY <2>3, ReconnectContexts DEF ProviderInv, CurrentInv, C!SensorCtxUsed
    <2> QED BY <1>1, <2>1, <2>2, <2>3
            DEF C!KeepAlive, C!NothingDue, C!SdrInfoRead, C!SdrInfoMissing,
                C!SdrInfoFails, C!handles
  <1> QED BY <1>1, <1>2, <1>3

(* A cache that can be read is found to be the one in memory, or is read.  *)
LEMMA SdrTurnStep ==
  ASSUME ProviderInv, SdrTurn
  PROVE  /\ CacheOpen(cacheFile', cache') /\ pc' \in {"idle", "lock"} /\ turn' = "task"
         /\ CurrentInv'
PROOF
  <1>1. pc = "idle" /\ CacheOpen(cacheFile, cache) /\ ContextInv
    BY DEF SdrTurn, ProviderInv
  <1>2. CASE SdrSkip
    <2>1. /\ UNCHANGED <<sensorCtx, cacheFile, mConnState, header, cache, pc>>
          /\ turn' = "task"
          /\ ~CacheReadable \/ ~S!HeaderChanged
      BY <1>2 DEF SdrSkip, C!SdrIdle, C!handles, sdr
    <2>2. C!SensorCtxUsed /\ cacheFile = "open" => header = cache
      BY <1>1, <2>1
         DEF CacheReadable, C!SdrCtxReturned, C!SensorCtxUsed, ContextInv,
             S!HeaderChanged, CacheOpen
    <2> QED BY <1>1, <2>1, <2>2 DEF CurrentInv, C!SensorCtxUsed, C!Connected
  <1>3. CASE SdrReread
    BY <1>1, <1>3 DEF SdrReread, C!SdrIdle, C!handles, S!FoundCacheChanged, S!CallReadSdr,
                      S!outside, CurrentInv
  <1>4. CASE SdrPollSame
    BY <1>1, <1>4
       DEF SdrPollSame, C!SdrPoll, C!SdrInfoRead, C!handles, S!PollSame, S!PollDue,
           S!HeaderChanged, S!thread, S!outside, CurrentInv
  <1>5. CASE SdrPollFails
    <2>1. /\ turn' = "task" /\ UNCHANGED <<header, pc>> /\ cache' \in {cache, NoEdition}
          /\ header = cache /\ CacheOpen(cacheFile', cache')
      BY <1>5 DEF SdrPollFails, C!SdrPoll, S!PollFails, S!PollDue, S!HeaderChanged,
                  S!memory, S!thread
    <2> QED BY <1>1, <2>1 DEF CurrentInv, CacheOpen
  <1>6. CASE SdrRebuild
    <2>1. turn' = "task" /\ CacheOpen(cacheFile', cache')
      BY <1>6 DEF SdrRebuild, C!RebuildSdrCache
    <2>2. CASE S!PollRebuilt
      BY <2>1, <2>2 DEF S!PollRebuilt, S!CallReadSdr, CurrentInv
    <2>3. CASE S!PollRebuildFails
      BY <1>1, <2>1, <2>3 DEF S!PollRebuildFails, S!thread, CurrentInv, CacheOpen
    <2> QED BY <1>6, <2>1, <2>2, <2>3 DEF SdrRebuild
  <1> QED BY <1>2, <1>3, <1>4, <1>5, <1>6 DEF SdrTurn

(* readSdr() ends after it has read the header of the cache.               *)
LEMMA ReadSdrStep ==
  ASSUME ProviderInv, ReadSdr
  PROVE  CacheOpen(cacheFile', cache') /\ turn' = turn /\ turn = "task" /\ CurrentInv'
PROOF
  <1>1. /\ UNCHANGED <<sensorCtx, cacheFile, mConnState, turn, cache>>
        /\ pc # "idle"
    BY DEF ReadSdr, connection, S!ReadSdr, S!ReadLock, S!ReadHeader, S!InsertRecord,
           S!ReadDone, S!ReadFails, S!DuplicateKey, S!outside
  <1>2. turn = "task" /\ (pc = "insert" => header = cache) /\ CacheOpen(cacheFile, cache)
    BY <1>1 DEF ProviderInv, MemoryInv
  <1>3. pc' \in {"idle", "insert"} => header' = cache
    BY <1>2 DEF ReadSdr, S!ReadSdr, S!ReadLock, S!ReadHeader, S!TakeHeader, S!InsertRecord,
                S!ReadDone, S!ReadFails, S!DuplicateKey, S!LeaveByException, S!memory
  <1> QED BY <1>1, <1>2, <1>3 DEF CurrentInv, CacheOpen

LEMMA TaskStep ==
  ASSUME ProviderInv, QueueEmpty \/ DoTask
  PROVE  CacheOpen(cacheFile', cache') /\ pc' = "idle" /\ CurrentInv'
PROOF
  <1>1. turn = "task" /\ pc = "idle" /\ CacheOpen(cacheFile, cache)
    BY DEF QueueEmpty, DoTask, DoLedTask, DoSensorTask, DoOemTask, TaskTurn, ProviderInv
  <1>2. CASE QueueEmpty \/ DoLedTask \/ DoOemTask
    <2>1. C!NoTask \/ C!WriteOem
      BY <1>2 DEF QueueEmpty, DoLedTask, DoOemTask, EndOem
    <2>2. UNCHANGED <<sensorCtx, cacheFile, mConnState, header, cache, pc>>
      BY <1>2, <2>1 DEF QueueEmpty, DoLedTask, DoOemTask, C!NoTask, C!WriteOem, C!handles, sdr
    <2> QED BY <1>1, <2>2, CurrentKept
  <1>3. CASE DoSensorTask
    <2>1. /\ CacheOpen(cacheFile', cache') /\ UNCHANGED <<pc, header>>
          /\ cacheFile' = cacheFile => cache' = cache
      BY <1>3, CacheFollowed DEF DoSensorTask
    <2>2. CASE UNCHANGED <<sensorCtx, cacheFile, mConnState>>
      BY <1>1, <2>1, <2>2, CurrentKept
    <2>3. CASE C!Disconnect
      BY <1>1, <2>1, <2>3 DEF C!Disconnect, C!Cleanup, CurrentInv, C!SensorCtxUsed, C!Connected
    <2> QED BY <1>1, <1>3, <2>1, <2>2, <2>3
            DEF DoSensorTask, C!SensorRead, C!SensorSessionTimeout, C!SensorError, C!NoTask,
                C!handles
  <1> QED BY <1>2, <1>3 DEF DoTask

LEMMA OutsideStep ==
  ASSUME ProviderInv, TakeTask \/ Lookups \/ Environment \/ UNCHANGED vars
  PROVE  /\ CacheOpen(cacheFile', cache') /\ UNCHANGED <<pc, turn>>
         /\ CurrentInv'
PROOF
  <1>1. UNCHANGED <<sensorCtx, cacheFile, mConnState, turn>>
    BY DEF TakeTask, Lookups, Environment, C!Environment, C!SessionLost, C!DeviceDown,
           C!DeviceUp, C!IdleTimeout, C!ReconnectTimeout, C!handles, connection, vars
  <1>2. UNCHANGED <<header, cache, pc>>
    BY DEF TakeTask, Lookups, Environment, S!LookupCall, S!Lookup, S!LookupLock,
           S!LookupFind, S!SdrUpdated, S!MinuteOver, S!memory, S!thread, S!outside, sdr, vars
  <1> QED BY <1>1, <1>2 DEF ProviderInv, CacheOpen, CurrentInv, C!SensorCtxUsed, C!Connected

LEMMA ProviderStep == ProviderInv /\ [Next]_vars => ProviderInv'
PROOF
  <1> SUFFICES ASSUME ProviderInv, [Next]_vars PROVE ProviderInv'
    OBVIOUS
  <1>1. ContextInv' /\ MemoryInv'
    BY StepOfConnection, StepOfSdr, ContextStep, MemoryStep DEF ProviderInv
  <1>2. /\ CacheOpen(cacheFile', cache') /\ (pc' # "idle" => turn' = "task")
        /\ CurrentInv'
    <2>1. CASE QueueEmpty \/ DoTask
      BY <2>1, TaskStep
    <2>2. CASE TakeTask \/ Lookups \/ Environment \/ UNCHANGED vars
      BY <2>2, OutsideStep DEF ProviderInv
    <2> QED BY <2>1, <2>2, ProcessStep, SdrTurnStep, ReadSdrStep DEF Next, Turn
  <1> QED BY <1>1, <1>2 DEF ProviderInv, CacheOpen

(* Whatever happens to the session, the cache and the SDR of the device, a *)
(* task that may read a sensor finds the records of the cache in memory.   *)
THEOREM TaskFindsCurrentSdr == Spec => []TaskUsesCurrentSdr
PROOF
  <1>1. ProviderInv => TaskUsesCurrentSdr
    <2> SUFFICES ASSUME ProviderInv, TaskTurn, C!SensorCtxUsed, cacheFile = "open"
                 PROVE  header = cache /\ map \subseteq S!KeysOf(cache)
      BY DEF TaskUsesCurrentSdr
    <2>1. header = cache
      BY DEF ProviderInv, CurrentInv, TaskTurn
    <2> QED BY <2>1 DEF ProviderInv, MemoryInv, S!MapOfHeader
  <1> QED BY <1>1, ProviderInit, ProviderStep, PTL DEF Spec

-----------------------------------------------------------------------------
(* What was proved of the parts by themselves: their definitions are those *)
(* of C and S, so that their invariants are kept by the provider's steps.  *)
CP == INSTANCE ConnectionManagerProofs
SP == INSTANCE SdrManagerProofs

LEMMA SameConnection ==
  /\ C!Init => CP!Init
  /\ [C!Next]_(C!vars) => [CP!Next]_(CP!vars)
PROOF
  <1>1. C!Init => CP!Init
    BY DEF C!Init, CP!Init
  <1>2. (UNCHANGED (C!vars)) => UNCHANGED (CP!vars)
    BY DEF C!vars, CP!vars, C!handles, CP!handles
  <1>3. C!Next => CP!Next
    BY DEF C!handles, C!vars, C!Connected, C!Fault, C!NoFault, C!Cleanup,
           C!Disconnect, C!IpmiContext, C!SdrContext, C!Session, C!Cache,
           C!SensorContext, C!Steps, C!OpenUpTo, C!ReconnectNow, C!Reconnect,
           C!InfoFields, C!Answers, C!Decodable, C!SdrInfoRead,
           C!SdrInfoMissing, C!SdrInfoFails, C!ReadSdrInfo, C!KeepAliveDue,
           C!KeepAlive, C!NothingDue, C!Process, C!SdrCtxReturned, C!SdrIdle,
           C!SdrPoll, C!RebuildSdrCache, C!NoTask, C!SensorCtxUsed,
           C!SensorRead, C!SensorSessionTimeout, C!SensorError, C!WriteOem,
           C!SessionLost, C!DeviceDown, C!DeviceUp, C!IdleTimeout,
           C!ReconnectTimeout, C!Thread, C!Environment, C!Next, CP!handles,
           CP!vars, CP!Connected, CP!Fault, CP!NoFault, CP!Cleanup,
           CP!Disconnect, CP!IpmiContext, CP!SdrContext, CP!Session, CP!Cache,
           CP!SensorContext, CP!Steps, CP!OpenUpTo, CP!ReconnectNow,
           CP!Reconnect, CP!InfoFields, CP!Answers, CP!Decodable,
           CP!SdrInfoRead, CP!SdrInfoMissing, CP!SdrInfoFails, CP!ReadSdrInfo,
           CP!KeepAliveDue, CP!KeepAlive, CP!NothingDue, CP!Process,
           CP!SdrCtxReturned, CP!SdrIdle, CP!SdrPoll, CP!RebuildSdrCache,
           CP!NoTask, CP!SensorCtxUsed, CP!SensorRead, CP!SensorSessionTimeout,
           CP!SensorError, CP!WriteOem, CP!SessionLost, CP!DeviceDown,
           CP!DeviceUp, CP!IdleTimeout, CP!ReconnectTimeout, CP!Thread,
           CP!Environment, CP!Next
  <1> QED BY <1>1, <1>2, <1>3

LEMMA SameSdr ==
  /\ S!Init => SP!Init
  /\ [S!Next]_(S!vars) => [SP!Next]_(SP!vars)
PROOF
  <1>1. S!Init => SP!Init
    BY DEF S!Init, SP!Init, S!Insertable, SP!Insertable, S!KeysUpTo, SP!KeysUpTo,
           S!KeysOf, SP!KeysOf, S!IsInjective, SP!IsInjective, S!ToSet, SP!ToSet
  <1>2. (UNCHANGED (S!vars)) => UNCHANGED (SP!vars)
    BY DEF S!vars, SP!vars, S!memory, SP!memory, S!mutex, SP!mutex, S!thread, SP!thread,
           S!outside, SP!outside
  <1>3. S!Next => SP!Next
    BY DEF S!memory, S!mutex, S!thread, S!outside, S!vars, S!Take,
           S!TakeForReading, S!Release, S!Fault, S!HeaderChanged,
           S!CallReadSdr, S!FoundCacheChanged, S!PollDue, S!PollSame,
           S!PollFails, S!PollRebuilt, S!PollRebuildFails, S!ReadLock,
           S!TakeHeader, S!ClearMaps, S!ReadHeader, S!More, S!InsertRecord,
           S!ReadDone, S!LeaveByException, S!ReadFails, S!DuplicateKey,
           S!LookupCall, S!LookupLock, S!LookupFind, S!CacheLost,
           S!CacheOpened, S!SdrUpdated, S!MinuteOver, S!ReadSdr, S!Poll,
           S!Lookup, S!Next, SP!memory, SP!mutex, SP!thread, SP!outside,
           SP!vars, SP!Take, SP!TakeForReading, SP!Release, SP!Fault,
           SP!HeaderChanged, SP!CallReadSdr, SP!FoundCacheChanged, SP!PollDue,
           SP!PollSame, SP!PollFails, SP!PollRebuilt, SP!PollRebuildFails,
           SP!ReadLock, SP!TakeHeader, SP!ClearMaps, SP!ReadHeader, SP!More,
           SP!InsertRecord, SP!ReadDone, SP!LeaveByException, SP!ReadFails,
           SP!DuplicateKey, SP!LookupCall, SP!LookupLock, SP!LookupFind,
           SP!CacheLost, SP!CacheOpened, SP!SdrUpdated, SP!MinuteOver,
           SP!ReadSdr, SP!Poll, SP!Lookup, SP!Next
  <1> QED BY <1>1, <1>2, <1>3

(* The connection keeps its promises in the company of the SDR manager and *)
(* of the tasks: no handle leaves its type, no sensor is read through a    *)
(* context of a session that is gone, and a connection that is given up    *)
(* holds nothing.                                                          *)
THEOREM ConnectionOfProvider ==
  Spec => [](C!TypeOK /\ C!NoStaleContext /\ C!ReleasedWhenDisconnected)
PROOF
  <1> USE SdrFaultsAssumption DEF CP!MaxFaultsAssumption
  <1>1. Init => CP!HandlesInv
    BY SameConnection, CP!HandlesInit DEF Init
  <1>2. CP!HandlesInv /\ [Next]_vars => CP!HandlesInv'
    BY StepOfConnection, SameConnection, CP!HandlesStep
  <1>3. CP!HandlesInv => C!TypeOK /\ C!NoStaleContext /\ C!ReleasedWhenDisconnected
    BY DEF CP!HandlesInv, CP!TypeOK, C!TypeOK, C!NoStaleContext, C!SensorCtxUsed,
           CP!ReleasedWhenDisconnected, C!ReleasedWhenDisconnected,
           CP!ContextsOfSession, C!Connected, CP!Connected
  <1> QED BY <1>1, <1>2, <1>3, PTL DEF Spec

(* The records in memory keep theirs while the connection loses and finds  *)
(* the cache: the mutex keeps lookups and reads apart, whatever exception  *)
(* a read ends with, and only sensors of the stored header can be found.   *)
THEOREM SdrOfProvider ==
  Spec => [](S!TypeOK /\ S!LookupExclusive /\ S!MapOfHeader)
PROOF
  <1> USE SdrFaultsAssumption, EditionsAssumption, ThreadsAssumption
      DEF SP!ContentAssumption, SP!ThreadsAssumption, SP!EditionsAssumption,
          SP!FaultsAssumption
  <1>1. Init => SP!LockInv
    BY SameSdr, SP!LockInit DEF Init
  <1>2. SP!LockInv /\ [Next]_vars => SP!LockInv'
    BY StepOfSdr, SameSdr, SP!LockStep
  <1>3. SP!LockInv /\ MemoryInv => S!TypeOK /\ S!LookupExclusive /\ S!MapOfHeader
    BY DEF SP!LockInv, SP!TypeOK, S!TypeOK, SP!MutexInv, S!LookupExclusive, MemoryInv
  <1>4. MemoryInv /\ [Next]_vars => MemoryInv'
    BY StepOfSdr, MemoryStep
  <1> QED BY <1>1, <1>2, <1>3, <1>4, MemoryInit, PTL DEF Spec

-----------------------------------------------------------------------------
(* What is sent to the device for a task has four bytes.                   *)
LEMMA PowerRequestLength ==
  ASSUME NEW args, NEW val, NEW r \in PowerRequests(args, val)
  PROVE  Len(r) = 4
PROOF
  <1>1. PICK id : r = <<SET_CHASSIS_POWER_STATE, Byte(val), VADATECH_SITE_TYPES[args[1]], Byte(id)>>
    BY DEF PowerRequests
  <1> QED BY <1>1

LEMMA RequestLength ==
  ASSUME NEW oem \in OemTasks, NEW r \in RequestsOf[oem]
  PROVE  Len(r) = 4
PROOF
  <1>1. r \in RebootRequests(oem.val)
        \/ r \in PowerRequests(SplitAtBlanks(oem.link.text), oem.val)
    BY DEF RequestsOf, Requests
  <1>2. CASE r \in RebootRequests(oem.val)
    BY <1>2 DEF RebootRequests
  <1> QED BY <1>1, <1>2, PowerRequestLength

TaskInv ==
    /\ task \in Tasks \union {NoTask}
    /\ Len(executed) \in {0, 4}
    /\ caught \in BOOLEAN

LEMMA TaskInit == Init => TaskInv
PROOF BY DEF Init, TaskInv

LEMMA TaskInvStep == TaskInv /\ [Next]_vars => TaskInv'
PROOF
  <1> SUFFICES ASSUME TaskInv, [Next]_vars PROVE TaskInv'
    OBVIOUS
  <1> USE DEF TaskInv
  <1>1. CASE DoOemTask
    <2>1. task \in OemTasks
      BY <1>1 DEF DoOemTask, Tasks, NoTask
    <2>2. executed' = <<>> \/ executed' \in RequestsOf[task]
      BY <1>1 DEF DoOemTask, Exchange
    <2>3. Len(executed') \in {0, 4}
      BY <2>1, <2>2, RequestLength
    <2>4. caught' \in BOOLEAN
      BY <1>1 DEF DoOemTask, EndOem, Malformed, Accepted
    <2> QED BY <1>1, <2>3, <2>4 DEF DoOemTask, EndTask
  <1>2. CASE Process \/ TakeTask \/ DoLedTask \/ DoSensorTask
    BY <1>2 DEF Process, TakeTask, DoLedTask, DoSensorTask, EndTask
  <1>3. CASE UNCHANGED tasks
    BY <1>3 DEF tasks
  <1> QED
    BY <1>1, <1>2, <1>3
       DEF vars, Next, Turn, SdrTurn, ReadSdr, QueueEmpty, DoTask, Lookups, Environment

(* The parts and the tasks stay within their types together; the device is *)
(* sent requests of four bytes and no others.                              *)
THEOREM TypeCorrect == Spec => []TypeOK
PROOF
  <1>1. TaskInv /\ C!TypeOK /\ S!TypeOK => TypeOK
    BY DEF TaskInv, TypeOK
  <1>2. Spec => []TaskInv
    BY TaskInit, TaskInvStep, PTL DEF Spec
  <1> QED BY <1>1, <1>2, ConnectionOfProvider, SdrOfProvider, PTL

(* A task of this command that does not throw was acknowledged by a reply  *)
(* that the device gives when it has executed the request.                 *)
LEMMA PowerTaskEnds ==
  ASSUME DoOemTask, task \in OemTasks,
         task.link.command = "set-power-state", ~caught'
  PROVE  executed' \in RequestsOf[task]
PROOF
  <1>1. CASE RequestsOf[task] = {} /\ EndOem(~Malformed(task.link, RequestsOf[task]))
    BY <1>1 DEF EndOem, Malformed
  <1>2. ASSUME NEW request \in RequestsOf[task], NEW reply \in Replies,
               Exchange(request, reply), EndOem(Accepted(task.link, reply))
        PROVE  executed' \in RequestsOf[task]
    <2>1. reply = <<SET_CHASSIS_POWER_STATE, COMMAND_SUCCESS>>
      BY <1>2 DEF EndOem, Accepted
    <2>2. executed' = request
      BY <1>2, <2>1 DEF Exchange, BadReplies, SET_CHASSIS_POWER_STATE, COMMAND_SUCCESS
    <2> QED BY <1>2, <2>2
  <1> QED BY <1>1, <1>2 DEF DoOemTask

(* In no order of lost sessions, replies and tasks does a task that        *)
(* switches a site end without an exception unless the device has executed *)
(* its request: write_oem_command() throws, or the command was carried out *)
(* (what the record makes of the exception is another matter).             *)
THEOREM PowerIsSetOrCaught == Spec => PowerSetOrCaught
PROOF
  <1>1. ASSUME TaskInv, [Next]_vars, task.type = "OEM_CMD", task' = NoTask,
               task.link.command = "set-power-state", ~caught'
        PROVE  executed' \in RequestsOf[task]
    <2>1. task \in OemTasks
      BY <1>1 DEF TaskInv, Tasks, NoTask
    <2>2. task # NoTask
      BY <1>1 DEF NoTask
    <2>3. CASE DoOemTask
      BY <1>1, <2>1, <2>3, PowerTaskEnds
    <2>4. CASE task' = task \/ (TaskTurn /\ task.type # "OEM_CMD") \/ task = NoTask
      BY <1>1, <2>2, <2>4
    <2> QED
      BY <1>1, <2>3, <2>4
         DEF vars, tasks, Next, Turn, Process, SdrTurn, ReadSdr, QueueEmpty, DoTask,
             DoLedTask, DoSensorTask, TakeTask, Lookups, Environment
  <1> QED BY <1>1, TaskInit, TaskInvStep, PTL DEF Spec, PowerSetOrCaught
=============================================================================
