--------------------------- MODULE FreeIpmiProvider ---------------------------
(***************************************************************************)
(* A provider at work (freeipmiprovider.cpp): the connection manager, the  *)
(* SDR manager and the tasks of the records, in the turns of the one       *)
(* thread that operates them, while other threads look sensors up, the     *)
(* device goes and comes, and its SDR changes.                             *)
(*                                                                         *)
(* The connection is ConnectionManager, the SDR in memory is SdrManager;   *)
(* what is a free choice in each of them is the state of the other here.   *)
(* The SDR cache belongs to both: cacheFile tells whether the connection   *)
(* has it open, and cache which edition is in it.                          *)
(***************************************************************************)
EXTENDS OemCommands, FiniteSets

CONSTANTS
    Editions, Keys, Content, Threads, Worker, Nobody, NoEdition,
    MaxFaults,       \* bound on the failures of the connection
    MaxSdrFaults,    \* bound on these and on changes of the SDR
    OemLinks         \* [link, val] of the bo records

ASSUME SdrFaultsAssumption == MaxFaults \in Nat /\ MaxSdrFaults \in Nat

VARIABLES
    ipmiCtx, sdrCtx, sensorCtx, cacheFile, mCacheFileIsOpen, mConnState,
    idleDue, reconnectDue, device, session, turn, faults,
    owner, depth, header, map, readDue, pc, caller, next, lookup, cache,
    deviceSdr,
    sdrFaults,       \* failures that SdrManager counts; those of the
                     \* connection can always be counted
    task,            \* the task that was taken from the queue
    executed,        \* the OEM command that the device executed for it
    caught           \* the last OEM task has ended in the catch clause

C == INSTANCE ConnectionManager
S == INSTANCE SdrManager

ASSUME EditionsAssumption ==
    Content \in [Editions -> Seq(Keys)] /\ NoEdition \notin Editions

ASSUME ThreadsAssumption ==
    /\ Worker \notin Threads /\ Nobody \notin Threads /\ Worker # Nobody

tasks == <<task, executed, caught>>

connection == <<ipmiCtx, sdrCtx, sensorCtx, cacheFile, mCacheFileIsOpen,
                mConnState, idleDue, reconnectDue, device, session, turn,
                faults>>

sdr == <<owner, depth, header, map, readDue, pc, caller, next, lookup, cache,
         deviceSdr, sdrFaults>>

vars == <<connection, sdr, tasks>>

NoTask == [type |-> "NONE"]

OemTasks ==
    {[type |-> "OEM_CMD", link |-> o.link, val |-> o.val] : o \in OemLinks}

Tasks ==
    {[type |-> "PICMG_LED"]} \union OemTasks
    \union {[type |-> "SENSOR", key |-> k] : k \in Keys}

TypeOK ==
    /\ C!TypeOK
    /\ S!TypeOK
    /\ task \in Tasks \union {NoTask}
    /\ Len(executed) \in {0, 4}
    /\ caught \in BOOLEAN

CacheOpen(file, edition) == file = "open" <=> edition # NoEdition

(* The constructor: the connection first, and then the SDR.                *)
Init ==
    /\ C!Init
    /\ S!Init
    /\ CacheOpen(cacheFile, cache)
    /\ task = NoTask /\ executed = <<>> /\ caught = FALSE

-----------------------------------------------------------------------------
(* Mistakes the properties are checked against.                            *)

NeverMoreSdr == C!SdrIdle /\ UNCHANGED sdr

CompareOnceAMinute == C!SdrIdle /\ ~readDue /\ UNCHANGED sdr

MutexUnowned == owner = Nobody

-----------------------------------------------------------------------------
(* What a step of the connection does to the cache that the SDR manager    *)
(* sees.                                                                   *)
CacheFollows ==
    \/ cacheFile = "closed" /\ cacheFile' = "open" /\ S!CacheOpened
    \/ cacheFile = "open" /\ cacheFile' = "closed" /\ S!CacheLost
    \/ cacheFile' = cacheFile /\ UNCHANGED sdr

(* The head of a turn: mConnManager->process().                            *)
Process ==
    /\ pc = "idle"
    /\ C!Process
    /\ CacheFollows
    /\ executed' = <<>> /\ caught' = FALSE
    /\ UNCHANGED task

-----------------------------------------------------------------------------
(* mSdrManager->process(), if the connection is up.  Whatever it throws is *)
(* caught and the turn goes on with the next task.                         *)

(* getSdrCtx() hands the context out and the cache can be read.            *)
CacheReadable == C!SdrCtxReturned /\ cacheFile = "open"

SdrSkip ==
    /\ ~CacheReadable \/ (~S!HeaderChanged /\ ~readDue)
    /\ C!SdrIdle
    /\ UNCHANGED sdr

SdrReread == CacheReadable /\ C!SdrIdle /\ S!FoundCacheChanged

(* The repository info of the device was read, or not: a lost session is   *)
(* given up, and the cache with it.                                        *)
SdrPollSame == C!SdrPoll /\ C!SdrInfoRead /\ S!PollSame

SdrPollFails ==
    /\ C!SdrPoll /\ (C!SdrInfoMissing \/ C!SdrInfoFails)
    /\ S!PollFails
    /\ CacheOpen(cacheFile', cache')

SdrRebuild ==
    /\ C!RebuildSdrCache
    /\ S!PollRebuilt \/ S!PollRebuildFails
    /\ CacheOpen(cacheFile', cache')

SdrTurn ==
    /\ pc = "idle"
    /\ SdrSkip \/ SdrReread \/ SdrPollSame \/ SdrPollFails \/ SdrRebuild
    /\ UNCHANGED tasks

SdrFaultsLeft == sdrFaults < MaxSdrFaults - MaxFaults

(* ... and readSdr() until it returns or throws.                           *)
ReadSdr ==
    /\ S!ReadSdr
    /\ sdrFaults' # sdrFaults => SdrFaultsLeft
    /\ UNCHANGED <<connection, tasks>>

-----------------------------------------------------------------------------
(* The task of a turn.                                                     *)

TaskTurn == turn = "task" /\ pc = "idle"

QueueEmpty ==
    /\ TaskTurn /\ task = NoTask
    /\ C!NoTask
    /\ UNCHANGED <<sdr, tasks>>

TakeTask ==
    /\ TaskTurn /\ task = NoTask
    /\ task' \in Tasks
    /\ UNCHANGED <<connection, sdr, executed, caught>>

EndTask == task' = NoTask

(* An LED has no case in the switch: there is nothing to read.             *)
DoLedTask ==
    /\ TaskTurn /\ task.type = "PICMG_LED"
    /\ C!NoTask
    /\ EndTask
    /\ UNCHANGED <<sdr, executed, caught>>

(* findSensorByMapKey() takes the mutex, which the thread may own already. *)
MutexFree == owner \in {Nobody, Worker}

Found == task.key \in map

(* A sensor that is not found, or a sensor context that is not there, ends *)
(* the task before the device is asked.  getSensorReading() may give up    *)
(* the session.  (The OEM command that follows in the switch is empty.)    *)
DoSensorTask ==
    /\ TaskTurn /\ task.type = "SENSOR"
    /\ MutexFree
    /\ \/ Found /\ (C!SensorRead \/ C!SensorSessionTimeout \/ C!SensorError)
       \/ (~Found \/ ~C!SensorCtxUsed) /\ C!NoTask
    /\ CacheFollows
    /\ EndTask
    /\ UNCHANGED <<executed, caught>>

Delivered == ipmiCtx = "opened" /\ session = "alive" /\ device = "up"

(* The replies to a request: success; a completion code, not executed; too *)
(* short; an echo of something else.  <<>> is no reply, whether or not the *)
(* device has executed the command.                                        *)
BadReplies == {<<SET_CHASSIS_POWER_STATE, 204>>,
               <<SET_CHASSIS_POWER_STATE>>, <<0, COMMAND_SUCCESS>>}

Exchange(request, reply) ==
    \/ Delivered /\ executed' = request
       /\ reply \in {<<SET_CHASSIS_POWER_STATE, COMMAND_SUCCESS>>, <<>>}
    \/ Delivered /\ executed' = <<>> /\ reply \in BadReplies
    \/ executed' = <<>> /\ reply = <<>>

Replies == {<<>>, <<SET_CHASSIS_POWER_STATE, COMMAND_SUCCESS>>} \union BadReplies

(* The handler returns, or it throws and the idle time is not updated.     *)
EndOem(good) ==
    /\ IF good THEN C!WriteOem ELSE C!NoTask
    /\ caught' = ~good

(* The requests of the tasks, tabulated.                                   *)
RequestsOf == [t \in OemTasks |-> Requests(t.link, t.val)]

DoOemTask ==
    /\ TaskTurn /\ task.type = "OEM_CMD"
    /\ \/ /\ RequestsOf[task] = {}
          /\ executed' = <<>>
          /\ EndOem(~Malformed(task.link, RequestsOf[task]))
       \/ \E request \in RequestsOf[task], reply \in Replies :
            /\ Exchange(request, reply)
            /\ EndOem(Accepted(task.link, reply))
    /\ EndTask
    /\ UNCHANGED sdr

DoTask == DoLedTask \/ DoSensorTask \/ DoOemTask

-----------------------------------------------------------------------------
(* Other threads, the device and the clock.                                *)

Lookups ==
    /\ \E t \in Threads : S!LookupCall(t) \/ S!Lookup(t)
    /\ UNCHANGED <<connection, tasks>>

Environment ==
    \/ C!Environment /\ UNCHANGED <<sdr, tasks>>
    \/ S!SdrUpdated /\ SdrFaultsLeft /\ UNCHANGED <<connection, tasks>>
    \/ S!MinuteOver /\ UNCHANGED <<connection, tasks>>

Turn == Process \/ SdrTurn \/ ReadSdr \/ QueueEmpty \/ DoTask

Next == Turn \/ TakeTask \/ Lookups \/ Environment

(* The provider thread runs, and gets a mutex that it waits for and that   *)
(* becomes free again and again: it is the one step it can take then.  The *)
(* other threads leave their lookups, and time passes.                     *)
Fairness ==
    /\ SF_vars(Turn)
    /\ \A t \in Threads :
          WF_vars(S!LookupFind(t) /\ UNCHANGED <<connection, tasks>>)
    /\ WF_vars(S!MinuteOver /\ UNCHANGED <<connection, tasks>>)

Spec == Init /\ [][Next]_vars /\ Fairness

-----------------------------------------------------------------------------
(* A sensor is read with the records of the SDR in the cache, whatever the *)
(* order in which sessions are lost, reconnections fail half way and the   *)
(* SDR of the device changes: when a task may use the sensor context and   *)
(* the cache is open, the records in memory are those of the cache.        *)
TaskUsesCurrentSdr ==
    TaskTurn /\ C!SensorCtxUsed /\ cacheFile = "open" =>
        /\ header = cache
        /\ map \subseteq S!KeysOf(cache)

(* The words of an argument text as a reader sees them: separated by any   *)
(* white space.                                                            *)
WhiteSpace == {Blank, Tab}

WordsOf(text) ==
    LET starts == {i \in DOMAIN text : /\ text[i] \notin WhiteSpace
                                       /\ i = 1 \/ text[i - 1] \in WhiteSpace}
        end(i) == CHOOSE j \in i .. Len(text) :
                      /\ j = Len(text) \/ text[j + 1] \in WhiteSpace
                      /\ \A k \in i .. j : text[k] \notin WhiteSpace
    IN  [n \in 1 .. Cardinality(starts) |->
            LET i == CHOOSE s \in starts :
                         Cardinality({r \in starts : r <= s}) = n
            IN  SubSeq(text, i, end(i))]

(* The site that a link names: a word for its type and one that begins     *)
(* with its number, which counts modulo 256.                               *)
NamesSite(text, type, number) ==
    LET words == WordsOf(text)
        digits == SelectSeq(words[2], LAMBDA c : c \in DOMAIN Value)
        n == Value[digits[1]]
    IN  /\ VADATECH_SITE_TYPES[words[1]] = type
        /\ (IF words[2][1] = Dash THEN number + n ELSE number - n) % 256 = 0

(* What the device has executed for a task is what the link of the record  *)
(* says, however its arguments are spaced, and VAL as far as a byte holds  *)
(* it, and nothing else: VAL 256 switches a site off and reboots nothing.  *)
ExecutesAsLinked ==
    [][executed' # <<>> /\ executed' # executed =>
          LET link == task.link
              state == task.val % 256
          IN  IF link.command = "reboot"
              THEN executed' = <<158, 0, 255, 255>> /\ state # 0
              ELSE /\ executed'[1] = 158 /\ executed'[2] = state
                   /\ NamesSite(link.text, executed'[3], executed'[4])]_vars

(* A task that switches a site and ends without an exception has had its   *)
(* request executed by the device: nothing but a reply that confirms it    *)
(* counts, and one that the device may have executed without confirming it *)
(* ends in the catch clause, which marks the entity of the record INVALID. *)
(* (The second pass of a bo record does not look at that: EpicsDevice.)    *)
PowerSetOrCaught ==
    [][(/\ task.type = "OEM_CMD" /\ task' = NoTask
        /\ task.link.command = "set-power-state"
        /\ ~caught') => executed' \in RequestsOf[task]]_vars

(* The SDR in memory becomes that of the device, if the device keeps it    *)
(* and the connection has a cache open again and again.                    *)
SdrFollowsDevice ==
    \A e \in Editions :
        <>[](deviceSdr = e) /\ []<>(cacheFile = "open") => <>[](header = e)

(* A lost session is given up while the SDR can be polled, even if OEM     *)
(* commands keep the connection from ever being idle.                      *)
LossNoticed ==
    C!Connected /\ session = "lost" /\ cacheFile = "open" ~> ~C!Connected

(* Every task that is taken ends, also when readSdr() has left its mutex   *)
(* locked.                                                                 *)
EveryTaskEnds == task # NoTask ~> task = NoTask
=============================================================================
