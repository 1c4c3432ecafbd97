---------------------------- MODULE EpicsDevice ----------------------------
(***************************************************************************)
(* The device support of ai and bo records (epicsdevice.cpp) on top of the *)
(* provider of a connection.  A record is processed in two passes: the     *)
(* first one, run by a scan thread, sets PACT, schedules a task and        *)
(* returns; the second one, run by an EPICS callback thread, finds PACT    *)
(* set, clears it and takes the result over.  Both hold the record's       *)
(* dbScanLock; scan threads skip a record whose PACT is set (EPICS base).  *)
(*                                                                         *)
(* Every first pass of a record has a serial number, and a reading is      *)
(* named by the pass it was made for, so that the model tells a fresh      *)
(* value from a stale one.                                                 *)
(***************************************************************************)
EXTENDS Provider, SequencesExt

CONSTANTS
    BoRecords,       \* the records that are of type bo; the others are ai
    MaxPasses,       \* bound on the first passes of a record
    MaxPassesInAll   \* bound on the first passes of all records together

ASSUME BoAssumption == BoRecords \subseteq Records

ASSUME MaxPassesAssumption == MaxPasses \in Nat /\ MaxPassesInAll \in Nat

VARIABLES
    linked,          \* ctx->entAddrType is not null
    pact,            \* rec->pact
    rpc,             \* where the thread holding the record's lock is
    pass,            \* first passes begun so far
    posted           \* VAL and severity that processing left in the record

recordVars == <<linked, pact, rpc, pass, posted>>

vars == <<providerVars, recordVars>>

TypeOK ==
    /\ ProviderTypeOK
    /\ linked \in [Records -> BOOLEAN]
    /\ pact \in [Records -> BOOLEAN]
    /\ rpc \in [Records -> {"idle", "link", "sched", "finish"}]
    /\ pass \in [Records -> Nat]
    /\ posted \in
         [Records -> [val : Nat, sevr : {"undefined", "none", "invalid"}]]

(* initInpRecord() and initBoRecord() may fail: the device was not there,  *)
(* or the link names nothing.  The record is then left without an address. *)
(* A provider that is still being constructed is not in the map yet.       *)
Init ==
    /\ ProviderInit
    /\ linked \in [Records -> BOOLEAN]
    /\ worker = "unstarted" => \A r \in Records : ~linked[r]
    /\ pact = [r \in Records |-> FALSE]
    /\ rpc = [r \in Records |-> "idle"]
    /\ pass = [r \in Records |-> 0]
    /\ posted = [r \in Records |-> [val |-> Unset, sevr |-> "undefined"]]

-----------------------------------------------------------------------------
(* A lookup of the dispatcher comes back, with or without a result, unless *)
(* connect() holds g_mutex for ever, because the provider it is destroying *)
(* was never started, or the sensor and LED maps are behind mMutex.        *)
Answers(r) ==
    /\ ~(worker = "unstarted" /\ stop = "waiting")
    /\ stop = "running" /\ mutexLeft => r \in OemTasks

-----------------------------------------------------------------------------
(* Mistakes the properties are checked against.                            *)

HoldPactForgotten(r) == UNCHANGED pact

ScheduleFailKeepsPact(r) ==
    /\ rpc[r] = "sched"
    /\ Answers(r)
    /\ posted' = [posted EXCEPT ![r].sevr = "invalid"]
    /\ rpc' = [rpc EXCEPT ![r] = "idle"]
    /\ UNCHANGED <<providerVars, linked, pact, pass>>

-----------------------------------------------------------------------------
(* The first pass of processAiRecord() and processBoRecord().              *)

HoldPact(r) == pact' = [pact EXCEPT ![r] = TRUE]

Written(e, v) == [e EXCEPT !.val = v]

(* PACT is set and, for a bo record, VAL is put in the entity; what is     *)
(* left of the pass is the call of scheduleGet() or scheduleWrite().       *)
FirstPass(r) ==
    /\ HoldPact(r)
    /\ rpc' = [rpc EXCEPT ![r] = "sched"]
    /\ pass' = [pass EXCEPT ![r] = @ + 1]
    /\ entity' = IF r \in BoRecords
                 THEN [entity EXCEPT ![r] = Written(@, pass[r] + 1)]
                 ELSE entity
    /\ UNCHANGED <<processing, queue, worker, task, stop, pending, mutexLeft,
                   commands, posted>>

WithinBounds(r) ==
    pass[r] < MaxPasses /\ FoldFunction(+, 0, pass) < MaxPassesInAll

(* A scan, a put or a link processes the record (dbProcess of EPICS base). *)
MayProcess(r) == rpc[r] = "idle" /\ ~pact[r] /\ WithinBounds(r)

ScanLinked(r) ==
    /\ MayProcess(r)
    /\ linked[r]
    /\ FirstPass(r)
    /\ UNCHANGED linked

ScanUnlinked(r) ==
    /\ MayProcess(r)
    /\ ~linked[r]
    /\ rpc' = [rpc EXCEPT ![r] = "link"]
    /\ UNCHANGED <<providerVars, linked, pact, pass, posted>>

(* checkLink() finds the connection and the sensor, LED or command now.    *)
LinkOk(r) ==
    /\ rpc[r] = "link"
    /\ Answers(r)
    /\ stop = "running" /\ worker # "unstarted"
    /\ linked' = [linked EXCEPT ![r] = TRUE]
    /\ FirstPass(r)

LinkFail(r) ==
    /\ rpc[r] = "link"
    /\ Answers(r)
    /\ rpc' = [rpc EXCEPT ![r] = "idle"]
    /\ UNCHANGED <<providerVars, linked, pact, pass, posted>>

(* scheduleGet() and scheduleWrite() look everything up again and push the *)
(* task.  The thread owns a reference to the connection meanwhile, so the  *)
(* destructor that stops the provider cannot run in between.               *)
ScheduleOk(r) ==
    /\ rpc[r] = "sched"
    /\ Answers(r)
    /\ stop = "running"
    /\ Schedule(r)
    /\ rpc' = [rpc EXCEPT ![r] = "idle"]
    /\ UNCHANGED <<processing, worker, task, stop, entity, pending, mutexLeft,
                   commands, linked, pact, pass, posted>>

(* The lookup throws: the record is set to INVALID and PACT is cleared.    *)
ScheduleFail(r) ==
    /\ rpc[r] = "sched"
    /\ Answers(r)
    /\ posted' = [posted EXCEPT ![r].sevr = "invalid"]
    /\ pact' = [pact EXCEPT ![r] = FALSE]
    /\ rpc' = [rpc EXCEPT ![r] = "idle"]
    /\ UNCHANGED <<providerVars, linked, pass>>

-----------------------------------------------------------------------------
(* The second pass.                                                        *)

(* ProcessCallback() of EPICS base: a callback thread serves a request and *)
(* takes the lock of the record.                                           *)
BeginCallback(r) ==
    /\ r \in pending
    /\ rpc[r] = "idle"
    /\ pending' = pending \ {r}
    /\ rpc' = [rpc EXCEPT ![r] = "finish"]
    /\ UNCHANGED <<processing, queue, worker, task, stop, entity, mutexLeft,
                   commands, linked, pact, pass, posted>>

(* ai: VAL is taken over if the entity has one, and the alarm is.          *)
TakeOver(r) ==
    [val  |-> IF entity[r].val = Unset THEN posted[r].val ELSE entity[r].val,
     sevr |-> entity[r].sevr]

(* bo: nothing is looked at; EPICS base has reset the severity.            *)
SecondPass(r) ==
    /\ rpc[r] = "finish"
    /\ pact' = [pact EXCEPT ![r] = FALSE]
    /\ posted' = IF r \in BoRecords
                 THEN [posted EXCEPT ![r].sevr = "none"]
                 ELSE [posted EXCEPT ![r] = TakeOver(r)]
    /\ rpc' = [rpc EXCEPT ![r] = "idle"]
    /\ UNCHANGED <<providerVars, linked, pass>>

-----------------------------------------------------------------------------
Reading == IF task \in Records THEN pass[task] ELSE Unset

WorkerStep == Worker(Reading) /\ UNCHANGED recordVars

(* The thread that constructs and destructs the provider.                  *)
LifeStep == (Start \/ StopThread \/ StopReturns) /\ UNCHANGED recordVars

(* A thread that has begun to process a record goes on.                    *)
RecordStep(r) ==
    \/ LinkOk(r) \/ LinkFail(r) \/ ScheduleOk(r) \/ ScheduleFail(r)
    \/ BeginCallback(r) \/ SecondPass(r)

Next ==
    \/ WorkerStep
    \/ LifeStep
    \/ \E r \in Records : ScanLinked(r) \/ ScanUnlinked(r) \/ RecordStep(r)

(* The operating system schedules the provider thread and the threads that *)
(* are processing a record; one that waits for a mutex nobody gives back   *)
(* has no step to take.  Nobody is obliged to process a record, to start a *)
(* provider or to stop it.                                                 *)
Fairness ==
    /\ WF_vars(WorkerStep)
    /\ WF_vars(StopReturns /\ UNCHANGED recordVars)
    /\ \A r \in Records : WF_vars(RecordStep(r))

Spec == Init /\ [][Next]_vars /\ Fairness

-----------------------------------------------------------------------------
(* The answer to a request of the record is still to come.                 *)
InFlight(r) == r \in ToSet(queue) \/ WorkerHolds(r) \/ r \in pending

(* A record waits for an answer exactly while its task is in one place of  *)
(* the chain queue, provider thread, callback ring: no request is lost,    *)
(* none is there twice, and PACT is never left set with nobody to clear it.*)
InFlightOnce ==
    /\ IsInjective(queue)
    /\ \A r \in Records :
         /\ InFlight(r) <=> pact[r] /\ rpc[r] = "idle"
         /\ r \in ToSet(queue) => ~WorkerHolds(r) /\ r \notin pending
         /\ WorkerHolds(r) => r \notin pending

(* The entity that a task refers to is shared without a lock: while the    *)
(* provider thread may write it, no thread that processes the record does. *)
EntityExclusive ==
    \A r \in Records :
        worker = "run" /\ task = r => rpc[r] \notin {"sched", "finish"}

(* An ai record of a sensor that is at rest shows the reading its last     *)
(* pass asked for, or an INVALID alarm: a stale value is never unalarmed   *)
(* and a fresh one never keeps the alarm of an earlier failure.            *)
PostedMatchesRead ==
    \A r \in SensorTasks \ BoRecords :
        rpc[r] = "idle" /\ ~pact[r] /\ pass[r] > 0 =>
            (posted[r].sevr = "none" <=> posted[r].val = pass[r])

(* An output is sent at most once for every time the record was processed, *)
(* in the order of the writes and with the value of its own write: a       *)
(* chassis is not rebooted twice for one request.                          *)
CommandsInOrder ==
    \A r \in Records :
        \A i \in DOMAIN commands[r] :
            /\ commands[r][i] <= pass[r]
            /\ \A j \in 1 .. (i - 1) : commands[r][j] < commands[r][i]

(* stopThread() called without a timeout returns, if the thread it waits   *)
(* for was ever started.                                                   *)
StopCompletes ==
    stop = "waiting" /\ worker # "unstarted" ~> stop = "stopped"

(* The record's thread waits for mMutex, which will not be given back.     *)
Blocked(r) == rpc[r] = "sched" /\ ~Answers(r)

(* A pass that has begun ends, unless the connection is being stopped or   *)
(* the lookup made with PACT set waits for the mutex that readSdr() left   *)
(* locked.  The callback ring has room for every record.                   *)
EveryPassCompletes ==
    \A r \in Records : pact[r] ~> (~pact[r] \/ ~processing \/ Blocked(r))

(* The chain of queue, provider thread and callback ring keeps the promise *)
(* of AsyncIO: first come, first served, each request answered once.       *)
Contract == INSTANCE AsyncIO WITH
    order    <- (IF worker \in {"run", "callback"} THEN <<task>> ELSE <<>>)
                    \o queue,
    answered <- pending \union {r \in Records : rpc[r] = "finish"},
    open     <- processing

KeepsContract == Contract!Spec
=============================================================================
