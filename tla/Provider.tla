------------------------------ MODULE Provider ------------------------------
(***************************************************************************)
(* The task queue of a connection and the thread that works it off         *)
(* (provider.cpp).  Record threads push tasks, one provider thread per     *)
(* connection pops them, performs the transfer and asks the EPICS callback *)
(* facility to process the record again.  A task names the record it was   *)
(* made for: it holds a REFERENCE to the entity in the private context of  *)
(* that record, so the record and the provider thread share the entity.    *)
(*                                                                         *)
(* A provider whose constructor throws is destructed although its thread   *)
(* was never started, and its destructor waits for that thread.            *)
(*                                                                         *)
(* What a transfer does on the wire is FreeIpmiProvider's business; here   *)
(* it either delivers a reading, throws, or sends a command.  The callback *)
(* facility is EPICS base: a bounded ring of pending requests.             *)
(***************************************************************************)
EXTENDS Naturals, Sequences, FiniteSets

CONSTANTS
    SensorTasks,     \* records whose link is of EntityAddrType::Type::SENSOR
    OemTasks,        \* ... of Type::OEM_CMD
    LedTasks,        \* ... of Type::PICMG_LED
    NoTask,          \* the worker holds no task
    CallbackRing     \* how many callback requests the IOC can hold

Records == SensorTasks \union OemTasks \union LedTasks

ASSUME LinkTypesAssumption ==
    /\ SensorTasks \intersect OemTasks = {}
    /\ SensorTasks \intersect LedTasks = {}
    /\ OemTasks \intersect LedTasks = {}
    /\ NoTask \notin Records

ASSUME FiniteAssumption == IsFiniteSet(Records) /\ CallbackRing \in Nat

VARIABLES
    processing,      \* m_tasks.processing
    queue,           \* m_tasks.queue
    worker,          \* where tasksThread() is
    task,            \* its local variable task
    stop,            \* where the thread that runs stopThread() is
    entity,          \* IpmiRecord.entity of every record: VAL and SEVR
    pending,         \* requests in the callback ring
    mutexLeft,       \* the thread has left mMutex of the SDR manager locked
    commands         \* history: the values sent for every record, in order

providerVars ==
    <<processing, queue, worker, task, stop, entity, pending, mutexLeft,
      commands>>

(* A reading or an output value is named by a number; 0: no VAL field.     *)
Unset == 0

WorkerStates ==
    {"unstarted", "loop", "process", "dequeue", "run", "callback", "exited"}

(* The worker is inside the switch or has not called back yet.             *)
WorkerHolds(r) == worker \in {"run", "callback"} /\ task = r

ProviderTypeOK ==
    /\ processing \in BOOLEAN
    /\ queue \in Seq(Records)
    /\ worker \in WorkerStates
    /\ task \in (IF worker \in {"run", "callback"} THEN Records ELSE {NoTask})
    /\ stop \in {"running", "waiting", "stopped"}
    /\ entity \in [Records -> [val : Nat, sevr : {"none", "invalid"}]]
    /\ pending \in SUBSET Records
    /\ mutexLeft \in BOOLEAN
    /\ commands \in [Records -> Seq(Nat)]

(* The base class is constructed: nothing runs yet.  Or start() has been   *)
(* called, and the thread begins in tasksThread() with an empty queue.     *)
ProviderInit ==
    /\ processing = TRUE
    /\ queue = <<>>
    /\ worker \in {"unstarted", "loop"}
    /\ task = NoTask
    /\ stop = "running"
    /\ entity = [r \in Records |-> [val |-> Unset, sevr |-> "none"]]
    /\ pending = {}
    /\ mutexLeft = FALSE
    /\ commands = [r \in Records |-> <<>>]

-----------------------------------------------------------------------------
(* Mistakes the properties are checked against, each in place of the       *)
(* definition whose name it begins with.                                   *)

SchedulePushesFront(r) == queue' = <<r>> \o queue

EnterLoopUntested ==
    /\ worker = "loop"
    /\ worker' = "process"
    /\ UNCHANGED <<processing, queue, task, stop, entity, pending, mutexLeft,
                   commands>>

PopFrontForgotten == UNCHANGED queue

DeliveredKeepsAlarm(e, v) == [e EXCEPT !.val = v]

RunSensorWithoutCallback(v) ==
    /\ worker = "run"
    /\ task \in SensorTasks
    /\ \/ /\ entity' = [entity EXCEPT ![task].val = v, ![task].sevr = "none"]
          /\ worker' = "callback"
          /\ UNCHANGED task
       \/ /\ entity' = [entity EXCEPT ![task].sevr = "invalid"]
          /\ worker' = "loop"
          /\ task' = NoTask
    /\ UNCHANGED <<processing, queue, stop, pending, mutexLeft, commands>>

InvokeCallbackKeepsTask ==
    /\ worker = "callback"
    /\ pending' = pending \union {task}
    /\ worker' = "loop"
    /\ UNCHANGED <<processing, queue, task, stop, entity, mutexLeft, commands>>

-----------------------------------------------------------------------------
(* Provider::schedule(), in the thread that processes the record.          *)
Schedule(r) == queue' = Append(queue, r)

-----------------------------------------------------------------------------
(* start(), the last statement of the constructor of FreeIpmiProvider.     *)
Start ==
    /\ worker = "unstarted"
    /\ stop = "running"
    /\ worker' = "loop"
    /\ UNCHANGED <<processing, queue, task, stop, entity, pending, mutexLeft,
                   commands>>

-----------------------------------------------------------------------------
(* The provider thread.                                                    *)

EnterLoop ==
    /\ worker = "loop"
    /\ processing
    /\ worker' = "process"
    /\ UNCHANGED <<processing, queue, task, stop, entity, pending, mutexLeft,
                   commands>>

(* process(): session and SDR upkeep.  It may take long, and returns; but  *)
(* the readSdr() that finds the file of the cache changed may throw with   *)
(* mMutex locked, which this thread then never gives back (SdrManager).    *)
Upkeep ==
    /\ worker = "process"
    /\ worker' = "dequeue"
    /\ mutexLeft' \in {mutexLeft, TRUE}
    /\ UNCHANGED <<processing, queue, task, stop, entity, pending, commands>>

SleepWhenEmpty ==
    /\ worker = "dequeue"
    /\ queue = <<>>
    /\ worker' = "loop"
    /\ UNCHANGED <<processing, queue, task, stop, entity, pending, mutexLeft,
                   commands>>

PopFront == queue' = Tail(queue)

TakeTask ==
    /\ worker = "dequeue"
    /\ queue # <<>>
    /\ task' = Head(queue)
    /\ PopFront
    /\ worker' = "run"
    /\ UNCHANGED <<processing, stop, entity, pending, mutexLeft, commands>>

(* The fields a sensor task leaves in the entity, without an exception ... *)
Delivered(e, v) == [e EXCEPT !.val = v, !.sevr = "none"]

(* ... and those any task leaves in it in the catch clauses.               *)
Failed(e) == [e EXCEPT !.sevr = "invalid"]

(* case SENSOR: the reading v.  It falls through to case OEM_CMD, whose    *)
(* vendor id is empty for such a link: write_oem_command() finds nothing.  *)
RunSensor(v) ==
    /\ worker = "run"
    /\ task \in SensorTasks
    /\ \/ entity' = [entity EXCEPT ![task] = Delivered(@, v)]
       \/ entity' = [entity EXCEPT ![task] = Failed(@)]
    /\ worker' = "callback"
    /\ UNCHANGED <<processing, queue, task, stop, pending, mutexLeft, commands>>

(* The handlers throw before they send when the entity has no VAL.  They   *)
(* may succeed and send nothing (reboot with VAL 0, or no session: the     *)
(* result of the raw command is ignored), and they may send and then throw *)
(* (set-power-state does not like the reply).  SEVR is not reset.          *)
RunOem ==
    /\ worker = "run"
    /\ task \in OemTasks
    /\ \/ entity[task].val # Unset /\ UNCHANGED entity
       \/ entity' = [entity EXCEPT ![task] = Failed(@)]
    /\ \/ /\ entity[task].val # Unset
          /\ commands' =
                [commands EXCEPT ![task] = Append(@, entity[task].val)]
       \/ UNCHANGED commands
    /\ worker' = "callback"
    /\ UNCHANGED <<processing, queue, task, stop, pending, mutexLeft>>

(* The switch has no case for PICMG_LED.                                   *)
RunLed ==
    /\ worker = "run"
    /\ task \in LedTasks
    /\ worker' = "callback"
    /\ UNCHANGED <<processing, queue, task, stop, entity, pending, mutexLeft,
                   commands>>

(* task.callback(): callbackRequestProcessCallback().  A full ring refuses *)
(* the request and nobody looks at the status.                             *)
InvokeCallback ==
    /\ worker = "callback"
    /\ pending' = IF Cardinality(pending) < CallbackRing
                  THEN pending \union {task} ELSE pending
    /\ task' = NoTask
    /\ worker' = "loop"
    /\ UNCHANGED <<processing, queue, stop, entity, mutexLeft, commands>>

(* The end of tasksThread(): m_tasks.stopped.signal().                     *)
LeaveLoop ==
    /\ worker = "loop"
    /\ ~processing
    /\ worker' = "exited"
    /\ UNCHANGED <<processing, queue, task, stop, entity, pending, mutexLeft,
                   commands>>

-----------------------------------------------------------------------------
(* stopThread(), from the destructor: no timeout is given.  ~Provider also *)
(* calls it when the constructor of FreeIpmiProvider throws: m_tasks.      *)
(* processing is true from the start, and nobody will signal stopped.      *)

StopThread ==
    /\ stop = "running"
    /\ processing
    /\ processing' = FALSE
    /\ stop' = "waiting"
    /\ UNCHANGED <<queue, worker, task, entity, pending, mutexLeft, commands>>

StopReturns ==
    /\ stop = "waiting"
    /\ worker = "exited"
    /\ stop' = "stopped"
    /\ UNCHANGED <<processing, queue, worker, task, entity, pending, mutexLeft,
                   commands>>

(* The steps of the provider thread, for a reading named v.                *)
Worker(v) ==
    \/ EnterLoop \/ Upkeep \/ SleepWhenEmpty \/ TakeTask
    \/ RunSensor(v) \/ RunOem \/ RunLed \/ InvokeCallback \/ LeaveLoop
=============================================================================
