------------------------- MODULE EpicsDeviceProofs -------------------------
(***************************************************************************)
(* Theorems about EpicsDevice, for any number of records and passes, and   *)
(* that it implements AsyncIO.                                             *)
(***************************************************************************)
EXTENDS EpicsDevice, FiniteSetTheorems, SequenceTheorems, TLAPS

(* The callback ring has room for one request of every record.             *)
RingHolds == CallbackRing >= Cardinality(Records)

-----------------------------------------------------------------------------
(* The elements of a queue after a push at the back and a pop at the front.*)

LEMMA PushBack ==
  ASSUME NEW S, NEW q \in Seq(S), NEW x \in S
  PROVE  /\ Append(q, x) \in Seq(S)
         /\ ToSet(Append(q, x)) = ToSet(q) \union {x}
         /\ IsInjective(q) /\ x \notin ToSet(q) => IsInjective(Append(q, x))
PROOF
  <1>1. /\ Append(q, x) \in Seq(S)
        /\ Len(Append(q, x)) = Len(q) + 1
        /\ \A i \in 1 .. Len(q) : Append(q, x)[i] = q[i]
        /\ Append(q, x)[Len(q) + 1] = x
    OBVIOUS
  <1>2. /\ DOMAIN q = 1 .. Len(q)
        /\ DOMAIN Append(q, x) = 1 .. (Len(q) + 1)
        /\ Len(q) \in Nat
    BY <1>1, LenProperties
  <1>3. ToSet(Append(q, x)) = ToSet(q) \union {x}
    <2>1. ToSet(q) = {q[i] : i \in 1 .. Len(q)}
      BY <1>2 DEF ToSet
    <2>2. ToSet(Append(q, x)) = {Append(q, x)[i] : i \in 1 .. (Len(q) + 1)}
      BY <1>2 DEF ToSet
    <2>3. 1 .. (Len(q) + 1) = (1 .. Len(q)) \union {Len(q) + 1}
      BY <1>2
    <2> QED BY <2>1, <2>2, <2>3, <1>1
  <1>4. ASSUME IsInjective(q), x \notin ToSet(q)
        PROVE  IsInjective(Append(q, x))
    <2>1. \A i \in 1 .. Len(q) : q[i] # x
      BY <1>2, <1>4 DEF ToSet
    <2>2. \A i, j \in 1 .. Len(q) : q[i] = q[j] => i = j
      BY <1>2, <1>4 DEF IsInjective
    <2>3. SUFFICES ASSUME NEW i \in 1 .. (Len(q) + 1),
                          NEW j \in 1 .. (Len(q) + 1),
                          Append(q, x)[i] = Append(q, x)[j]
                   PROVE  i = j
      BY <1>2 DEF IsInjective
    <2> QED BY <2>1, <2>2, <2>3, <1>1, <1>2
  <1> QED BY <1>1, <1>3, <1>4

LEMMA PopsFront ==
  ASSUME NEW S, NEW q \in Seq(S), q # <<>>, IsInjective(q)
  PROVE  /\ Head(q) \in S
         /\ Tail(q) \in Seq(S)
         /\ Head(q) \in ToSet(q)
         /\ ToSet(Tail(q)) = ToSet(q) \ {Head(q)}
         /\ IsInjective(Tail(q))
PROOF
  <1>1. /\ Len(q) \in Nat \ {0}
        /\ DOMAIN q = 1 .. Len(q)
    BY EmptySeq, LenProperties
  <1>2. /\ Head(q) = q[1]
        /\ Head(q) \in S
        /\ Tail(q) \in Seq(S)
        /\ Len(Tail(q)) = Len(q) - 1
        /\ \A i \in 1 .. (Len(q) - 1) : Tail(q)[i] = q[i + 1]
    BY HeadTailProperties, <1>1
  <1>3. DOMAIN Tail(q) = 1 .. (Len(q) - 1)
    BY <1>2, LenProperties
  <1>4. \A i, j \in 1 .. Len(q) : q[i] = q[j] => i = j
    BY <1>1 DEF IsInjective
  <1>5. IsInjective(Tail(q))
    BY <1>1, <1>2, <1>3, <1>4 DEF IsInjective
  <1>6. Head(q) \in ToSet(q)
    BY <1>1, <1>2 DEF ToSet
  <1>7. ToSet(Tail(q)) \subseteq ToSet(q) \ {Head(q)}
    BY <1>1, <1>2, <1>3, <1>4 DEF ToSet
  <1>8. ASSUME NEW y \in ToSet(q), y # Head(q)
        PROVE  y \in ToSet(Tail(q))
    <2>1. PICK i \in 1 .. Len(q) : y = q[i]
      BY <1>1 DEF ToSet
    <2>2. /\ i - 1 \in 1 .. (Len(q) - 1)
          /\ Tail(q)[i - 1] = y
      BY <2>1, <1>1, <1>2, <1>8
    <2> QED BY <2>2, <1>3 DEF ToSet
  <1> QED BY <1>2, <1>5, <1>6, <1>7, <1>8

(* Room for one more in the ring.                                          *)
LEMMA RingHasRoom ==
  ASSUME RingHolds, pending \in SUBSET Records,
         NEW r \in Records, r \notin pending
  PROVE  Cardinality(pending) < CallbackRing
PROOF
  <1>1. /\ IsFiniteSet(pending)
        /\ Cardinality(pending) <= Cardinality(Records)
        /\ Cardinality(Records) = Cardinality(pending) => Records = pending
    BY FiniteAssumption, FS_Subset
  <1>2. Cardinality(pending) # Cardinality(Records)
    BY <1>1
  <1>3. Cardinality(pending) \in Nat /\ Cardinality(Records) \in Nat
    BY <1>1, FiniteAssumption, FS_CardinalityType
  <1> QED BY <1>1, <1>2, <1>3, FiniteAssumption DEF RingHolds

-----------------------------------------------------------------------------
(* Type correctness.                                                       *)

Entities == [val : Nat, sevr : {"none", "invalid"}]

LEMMA EntityUpdates ==
  ASSUME NEW e \in Entities, NEW v \in Nat
  PROVE  /\ Delivered(e, v) \in Entities
         /\ Delivered(e, v).val = v
         /\ Delivered(e, v).sevr = "none"
         /\ Failed(e) \in Entities
         /\ Failed(e).val = e.val
         /\ Failed(e).sevr = "invalid"
         /\ Written(e, v) \in Entities
         /\ Written(e, v).val = v
         /\ Written(e, v).sevr = e.sevr
PROOF BY DEF Entities, Delivered, Failed, Written

LEMMA TypeInit == Init => TypeOK
PROOF
  <1> SUFFICES ASSUME Init PROVE TypeOK
    OBVIOUS
  <1>1. worker \in WorkerStates /\ worker \notin {"run", "callback"}
    BY DEF Init, ProviderInit, WorkerStates
  <1>2. task = NoTask /\ queue \in Seq(Records)
    BY DEF Init, ProviderInit
  <1>3. /\ processing \in BOOLEAN /\ mutexLeft \in BOOLEAN
        /\ stop \in {"running", "waiting", "stopped"}
        /\ pending \in SUBSET Records
    BY DEF Init, ProviderInit
  <1>4. entity \in [Records -> [val : Nat, sevr : {"none", "invalid"}]]
    BY DEF Init, ProviderInit, Unset
  <1>5. commands \in [Records -> Seq(Nat)]
    BY DEF Init, ProviderInit
  <1>6. ProviderTypeOK
    BY <1>1, <1>2, <1>3, <1>4, <1>5 DEF ProviderTypeOK
  <1> QED BY <1>6 DEF Init, TypeOK, Unset

LEMMA TypeStep == TypeOK /\ [Next]_vars => TypeOK'
PROOF
  <1> SUFFICES ASSUME TypeOK, [Next]_vars PROVE TypeOK'
    OBVIOUS
  <1>0. entity \in [Records -> Entities]
    BY DEF TypeOK, ProviderTypeOK, Entities
  <1> USE DEF TypeOK, ProviderTypeOK, WorkerStates
  <1>1. CASE WorkerStep
    <2>0. /\ UNCHANGED recordVars
          /\ Worker(Reading)
      BY <1>1 DEF WorkerStep
    <2>1. Reading \in Nat
      BY DEF Reading, Unset
    <2>2. CASE EnterLoop
      BY <2>0, <2>2 DEF EnterLoop, recordVars
    <2>3. CASE Upkeep
      BY <2>0, <2>3 DEF Upkeep, recordVars
    <2>4. CASE SleepWhenEmpty
      BY <2>0, <2>4 DEF SleepWhenEmpty, recordVars
    <2>5. CASE TakeTask
      <3>1. Head(queue) \in Records /\ Tail(queue) \in Seq(Records)
        BY <2>5, HeadTailProperties DEF TakeTask
      <3> QED BY <2>0, <2>5, <3>1 DEF TakeTask, PopFront, recordVars
    <2>6. CASE RunSensor(Reading)
      <3>1. /\ task \in Records
            /\ \/ entity' = [entity EXCEPT ![task] = Delivered(@, Reading)]
               \/ entity' = [entity EXCEPT ![task] = Failed(@)]
        BY <2>6 DEF RunSensor, Records
      <3>2. entity' \in [Records -> Entities]
        <4>1. /\ Delivered(entity[task], Reading) \in Entities
              /\ Failed(entity[task]) \in Entities
          BY <3>1, <2>1, <1>0, EntityUpdates
        <4> QED BY <3>1, <4>1, <1>0
      <3> QED BY <2>0, <2>6, <3>2 DEF RunSensor, recordVars, Entities
    <2>7. CASE RunOem
      <3>1. /\ task \in Records
            /\ UNCHANGED entity \/ entity' = [entity EXCEPT ![task] = Failed(@)]
        BY <2>7 DEF RunOem, Records
      <3>2. entity' \in [Records -> Entities]
        <4>1. Failed(entity[task]) \in Entities
          BY <3>1, <1>0, EntityUpdates, 0 \in Nat
        <4> QED BY <3>1, <4>1, <1>0
      <3>3. Append(commands[task], entity[task].val) \in Seq(Nat)
        BY <3>1
      <3>4. commands' \in [Records -> Seq(Nat)]
        BY <2>7, <3>1, <3>3 DEF RunOem
      <3> QED BY <2>0, <2>7, <3>2, <3>4 DEF RunOem, recordVars, Entities
    <2>8. CASE RunLed
      BY <2>0, <2>8 DEF RunLed, recordVars
    <2>9. CASE InvokeCallback
      BY <2>0, <2>9 DEF InvokeCallback, recordVars
    <2>10. CASE LeaveLoop
      BY <2>0, <2>10 DEF LeaveLoop, recordVars
    <2> QED
      BY <2>0, <2>2, <2>3, <2>4, <2>5, <2>6, <2>7, <2>8, <2>9, <2>10
      DEF Worker
  <1>2. CASE LifeStep
    BY <1>2 DEF LifeStep, Start, StopThread, StopReturns, recordVars
  <1>3. ASSUME NEW r \in Records, ScanLinked(r) \/ LinkOk(r)
        PROVE  TypeOK'
    <2>1. FirstPass(r) /\ linked' \in [Records -> BOOLEAN]
      BY <1>3 DEF ScanLinked, LinkOk
    <2>2. entity' \in [Records -> Entities]
      <3>0. entity[r] \in Entities /\ pass[r] + 1 \in Nat
        BY <1>0
      <3>1. Written(entity[r], pass[r] + 1) \in Entities
        BY <3>0, EntityUpdates
      <3> QED BY <2>1, <3>1, <1>0 DEF FirstPass
    <2> QED BY <2>1, <2>2 DEF FirstPass, HoldPact, Entities
  <1>4. ASSUME NEW r \in Records, ScanUnlinked(r) \/ LinkFail(r)
        PROVE  TypeOK'
    BY <1>4 DEF ScanUnlinked, LinkFail, providerVars
  <1>5. ASSUME NEW r \in Records, ScheduleOk(r)
        PROVE  TypeOK'
    BY <1>5, PushBack DEF ScheduleOk, Schedule
  <1>6. ASSUME NEW r \in Records, ScheduleFail(r)
        PROVE  TypeOK'
    BY <1>6 DEF ScheduleFail, providerVars
  <1>7. ASSUME NEW r \in Records, BeginCallback(r)
        PROVE  TypeOK'
    BY <1>7 DEF BeginCallback
  <1>8. ASSUME NEW r \in Records, SecondPass(r)
        PROVE  TypeOK'
    BY <1>8 DEF SecondPass, TakeOver, providerVars
  <1>9. CASE UNCHANGED vars
    BY <1>9 DEF vars, providerVars, recordVars
  <1> QED
    BY <1>1, <1>2, <1>3, <1>4, <1>5, <1>6, <1>7, <1>8, <1>9
    DEF Next, RecordStep

(* Every variable stays within its type: m_tasks, the entities, PACT and   *)
(* the posted values of any number of records, for any ring size.          *)
THEOREM TypeCorrect == Spec => []TypeOK
PROOF BY TypeInit, TypeStep, PTL DEF Spec

-----------------------------------------------------------------------------
(* No request is lost or duplicated.                                       *)

(* What PACT is while the lock of the record is held.                      *)
PactPhases ==
    \A r \in Records :
        /\ rpc[r] = "link" => ~pact[r]
        /\ rpc[r] \in {"sched", "finish"} => pact[r]

ChainInv == TypeOK /\ PactPhases /\ InFlightOnce

LEMMA ChainInit == Init => ChainInv
PROOF
  <1> SUFFICES ASSUME Init PROVE ChainInv
    OBVIOUS
  <1>1. TypeOK
    BY TypeInit
  <1>2. /\ queue = <<>> /\ pending = {} /\ worker \in {"unstarted", "loop"}
        /\ \A r \in Records : ~pact[r] /\ rpc[r] = "idle"
    BY DEF Init, ProviderInit
  <1>3. ToSet(<<>>) = {} /\ IsInjective(<<>>)
    BY DEF ToSet, IsInjective
  <1> QED
    BY <1>1, <1>2, <1>3
    DEF ChainInv, PactPhases, InFlightOnce, InFlight, WorkerHolds

(* Steps that move nothing along the chain.                                *)
LEMMA QuietStep ==
  ASSUME PactPhases, InFlightOnce,
         UNCHANGED <<queue, pending, pact, rpc>>,
         \A r \in Records : WorkerHolds(r)' <=> WorkerHolds(r)
  PROVE  PactPhases' /\ InFlightOnce'
PROOF BY DEF PactPhases, InFlightOnce, InFlight

LEMMA ChainStep ==
  ASSUME RingHolds, ChainInv, [Next]_vars
  PROVE  ChainInv'
PROOF
  <1>0. TypeOK /\ PactPhases /\ InFlightOnce /\ TypeOK'
    BY TypeStep DEF ChainInv
  <1> SUFFICES PactPhases' /\ InFlightOnce'
    BY <1>0 DEF ChainInv
  <1> USE <1>0
  <1>1. CASE WorkerStep
    <2>0. UNCHANGED <<pact, rpc>>
      BY <1>1 DEF WorkerStep, recordVars
    <2>1. CASE EnterLoop \/ Upkeep \/ SleepWhenEmpty \/ LeaveLoop
      <3>1. /\ UNCHANGED <<queue, pending>>
            /\ worker \notin {"run", "callback"}
            /\ worker' \notin {"run", "callback"}
        BY <2>1 DEF EnterLoop, Upkeep, SleepWhenEmpty, LeaveLoop
      <3> QED BY <2>0, <3>1, QuietStep DEF WorkerHolds
    <2>2. CASE TakeTask
      <3>1. /\ worker = "dequeue" /\ worker' = "run"
            /\ task' = Head(queue)
            /\ queue # <<>> /\ queue' = Tail(queue)
            /\ pending' = pending
        BY <2>2 DEF TakeTask, PopFront
      <3>2. /\ Head(queue) \in ToSet(queue)
            /\ ToSet(queue') = ToSet(queue) \ {Head(queue)}
            /\ IsInjective(queue')
        BY <3>1, PopsFront DEF TypeOK, ProviderTypeOK, InFlightOnce
      <3> QED
        BY <2>0, <3>1, <3>2
        DEF PactPhases, InFlightOnce, InFlight, WorkerHolds
    <2>3. CASE RunSensor(Reading) \/ RunOem \/ RunLed
      <3>1. /\ UNCHANGED <<queue, pending, task>>
            /\ worker = "run" /\ worker' = "callback"
        BY <2>3 DEF RunSensor, RunOem, RunLed
      <3> QED BY <2>0, <3>1, QuietStep DEF WorkerHolds
    <2>4. CASE InvokeCallback
      <3>1. /\ worker = "callback" /\ worker' = "loop"
            /\ queue' = queue
            /\ pending' = IF Cardinality(pending) < CallbackRing
                          THEN pending \union {task} ELSE pending
        BY <2>4 DEF InvokeCallback
      <3>2. pending \in SUBSET Records /\ task \in Records
        BY <3>1 DEF TypeOK, ProviderTypeOK
      <3>3. task \notin pending
        BY <3>1, <3>2 DEF InFlightOnce, WorkerHolds
      <3>4. Cardinality(pending) < CallbackRing
        BY <3>2, <3>3, RingHasRoom
      <3>5. pending' = pending \union {task}
        BY <3>1, <3>4
      <3>6. \A r \in Records : WorkerHolds(r) <=> r = task
        BY <3>1 DEF WorkerHolds
      <3>7. \A r \in Records : ~WorkerHolds(r)'
        BY <3>1 DEF WorkerHolds
      <3> QED
        BY <2>0, <3>1, <3>2, <3>5, <3>6, <3>7
        DEF PactPhases, InFlightOnce, InFlight
    <2> QED BY <1>1, <2>1, <2>2, <2>3, <2>4 DEF WorkerStep, Worker
  <1>2. CASE LifeStep
    <2>1. /\ UNCHANGED <<queue, pending, task, pact, rpc>>
          /\ \/ UNCHANGED worker
             \/ worker = "unstarted" /\ worker' = "loop"
      BY <1>2 DEF LifeStep, Start, StopThread, StopReturns, recordVars
    <2> QED BY <2>1, QuietStep DEF WorkerHolds
  <1>3. ASSUME NEW r \in Records, ScanLinked(r) \/ LinkOk(r)
        PROVE  PactPhases' /\ InFlightOnce'
    <2>1. /\ UNCHANGED <<queue, pending, worker, task>>
          /\ pact' = [pact EXCEPT ![r] = TRUE]
          /\ rpc' = [rpc EXCEPT ![r] = "sched"]
      BY <1>3 DEF ScanLinked, LinkOk, FirstPass, HoldPact
    <2>2. ~pact[r]
      BY <1>3 DEF ScanLinked, MayProcess, LinkOk, PactPhases
    <2> QED
      BY <2>1, <2>2
      DEF PactPhases, InFlightOnce, InFlight, WorkerHolds, TypeOK
  <1>4. ASSUME NEW r \in Records, ScanUnlinked(r) \/ LinkFail(r)
        PROVE  PactPhases' /\ InFlightOnce'
    <2>1. /\ UNCHANGED <<queue, pending, worker, task, pact>>
          /\ \/ rpc' = [rpc EXCEPT ![r] = "link"]
             \/ rpc' = [rpc EXCEPT ![r] = "idle"]
      BY <1>4 DEF ScanUnlinked, LinkFail, providerVars
    <2>2. ~pact[r]
      BY <1>4 DEF ScanUnlinked, MayProcess, LinkFail, PactPhases
    <2> QED
      BY <2>1, <2>2
      DEF PactPhases, InFlightOnce, InFlight, WorkerHolds, TypeOK
  <1>5. ASSUME NEW r \in Records, ScheduleOk(r)
        PROVE  PactPhases' /\ InFlightOnce'
    <2>1. /\ rpc[r] = "sched"
          /\ queue' = Append(queue, r)
          /\ rpc' = [rpc EXCEPT ![r] = "idle"]
          /\ UNCHANGED <<pending, worker, task, pact>>
      BY <1>5 DEF ScheduleOk, Schedule
    <2>2. pact[r] /\ ~InFlight(r)
      BY <2>1 DEF PactPhases, InFlightOnce
    <2>3. /\ ToSet(queue') = ToSet(queue) \union {r}
          /\ IsInjective(queue')
      BY <2>1, <2>2, PushBack
      DEF InFlight, InFlightOnce, TypeOK, ProviderTypeOK
    <2> QED
      BY <2>1, <2>2, <2>3
      DEF PactPhases, InFlightOnce, InFlight, WorkerHolds, TypeOK
  <1>6. ASSUME NEW r \in Records, ScheduleFail(r) \/ SecondPass(r)
        PROVE  PactPhases' /\ InFlightOnce'
    <2>1. /\ rpc[r] \in {"sched", "finish"}
          /\ pact' = [pact EXCEPT ![r] = FALSE]
          /\ rpc' = [rpc EXCEPT ![r] = "idle"]
          /\ UNCHANGED <<queue, pending, worker, task>>
      BY <1>6 DEF ScheduleFail, SecondPass, providerVars
    <2>2. ~InFlight(r)
      BY <2>1 DEF InFlightOnce
    <2> QED
      BY <2>1, <2>2
      DEF PactPhases, InFlightOnce, InFlight, WorkerHolds, TypeOK
  <1>7. ASSUME NEW r \in Records, BeginCallback(r)
        PROVE  PactPhases' /\ InFlightOnce'
    <2>1. /\ r \in pending
          /\ pending' = pending \ {r}
          /\ rpc' = [rpc EXCEPT ![r] = "finish"]
          /\ UNCHANGED <<queue, worker, task, pact>>
      BY <1>7 DEF BeginCallback
    <2>2. /\ pact[r]
          /\ r \notin ToSet(queue)
          /\ ~WorkerHolds(r)
      BY <2>1 DEF InFlightOnce, InFlight
    <2> QED
      BY <2>1, <2>2
      DEF PactPhases, InFlightOnce, InFlight, WorkerHolds, TypeOK
  <1>8. CASE UNCHANGED vars
    <2>1. UNCHANGED <<queue, pending, worker, task, pact, rpc>>
      BY <1>8 DEF vars, providerVars, recordVars
    <2> QED BY <2>1, QuietStep DEF WorkerHolds
  <1> QED
    BY <1>1, <1>2, <1>3, <1>4, <1>5, <1>6, <1>7, <1>8
    DEF Next, RecordStep

(* A record waits exactly while its task is in one place of the chain      *)
(* queue, provider thread, callback ring, if the ring has room for a       *)
(* request of every record: PACT is never left set with nobody to clear it *)
(* and no task runs twice.                                                 *)
THEOREM RequestsInFlightOnce == RingHolds => (Spec => []InFlightOnce)
PROOF
  <1> SUFFICES ASSUME RingHolds PROVE Spec => []InFlightOnce
    OBVIOUS
  <1>1. ChainInv /\ [Next]_vars => ChainInv'
    BY ChainStep
  <1>2. ChainInv => InFlightOnce
    BY DEF ChainInv
  <1> QED BY ChainInit, <1>1, <1>2, PTL DEF Spec

(* While the provider thread may write the entity of a record, no thread   *)
(* that processes the record reads or writes it.                           *)
THEOREM EntityNeverShared == RingHolds => (Spec => []EntityExclusive)
PROOF
  <1> SUFFICES ASSUME RingHolds PROVE Spec => []EntityExclusive
    OBVIOUS
  <1>1. ChainInv /\ [Next]_vars => ChainInv'
    BY ChainStep
  <1>2. ChainInv => EntityExclusive
    BY DEF ChainInv, InFlightOnce, InFlight, WorkerHolds, EntityExclusive
  <1> QED BY ChainInit, <1>1, <1>2, PTL DEF Spec

-----------------------------------------------------------------------------
(* What the provider thread does with a task: commands and readings.       *)

(* The transfer of the pass in progress has not been made yet.             *)
Unserved(r) ==
    \/ rpc[r] = "sched"
    \/ r \in ToSet(queue)
    \/ worker = "run" /\ task = r

(* The transfer has been made and the record has not taken it over.        *)
Served(r) ==
    \/ worker = "callback" /\ task = r
    \/ r \in pending
    \/ rpc[r] = "finish"

(* Everything sent so far belongs to earlier passes while the pass in      *)
(* progress is unserved, and the entity of an output holds its last VAL.   *)
CommandInv ==
    /\ CommandsInOrder
    /\ \A r \in Records : Unserved(r) =>
          \A i \in DOMAIN commands[r] : commands[r][i] < pass[r]
    /\ \A r \in OemTasks :
          entity[r].val = IF r \in BoRecords THEN pass[r] ELSE Unset

(* The entity of a sensor holds the reading of the pass in progress when   *)
(* it has been served without an alarm, and of an earlier one before.      *)
ReadOk(r) ==
    /\ entity[r].val <= pass[r]
    /\ posted[r].val <= pass[r]
    /\ Unserved(r) => entity[r].val < pass[r] /\ posted[r].val < pass[r]
    /\ Served(r) =>
          /\ posted[r].val < pass[r]
          /\ entity[r].sevr = "none" <=> entity[r].val = pass[r]
    /\ rpc[r] \in {"idle", "link"} /\ ~pact[r] /\ pass[r] > 0 =>
          (posted[r].sevr = "none" <=> posted[r].val = pass[r])

ReadInv == \A r \in SensorTasks \ BoRecords : ReadOk(r)

(* How the chain moves a record from unserved to served and to rest.       *)
LEMMA ServedOrNot ==
  ASSUME ChainInv, NEW r \in Records
  PROVE  /\ Unserved(r) => pact[r] /\ ~Served(r)
         /\ Served(r) => pact[r]
         /\ pact[r] => Unserved(r) \/ Served(r)
PROOF
  <1>1. PactPhases /\ InFlightOnce /\ rpc[r] \in {"idle", "link", "sched", "finish"}
    BY DEF ChainInv, TypeOK
  <1>2. /\ InFlight(r) <=> pact[r] /\ rpc[r] = "idle"
        /\ rpc[r] = "link" => ~pact[r]
        /\ rpc[r] \in {"sched", "finish"} => pact[r]
        /\ r \in ToSet(queue) => ~WorkerHolds(r) /\ r \notin pending
        /\ WorkerHolds(r) => r \notin pending
    BY <1>1 DEF InFlightOnce, PactPhases
  <1> QED BY <1>1, <1>2 DEF Unserved, Served, InFlight, WorkerHolds

LEMMA ServeInit == Init => CommandInv /\ ReadInv
PROOF
  <1> SUFFICES ASSUME Init PROVE CommandInv /\ ReadInv
    OBVIOUS
  <1>1. /\ OemTasks \subseteq Records /\ SensorTasks \subseteq Records
        /\ ToSet(<<>>) = {}
    BY DEF Records, ToSet
  <1>2. \A r \in Records :
          /\ commands[r] = <<>> /\ pass[r] = 0 /\ rpc[r] = "idle" /\ ~pact[r]
          /\ entity[r].val = 0 /\ posted[r].val = 0
          /\ ~Unserved(r) /\ ~Served(r)
    BY <1>1 DEF Init, ProviderInit, Unset, Unserved, Served
  <1> QED
    BY <1>1, <1>2 DEF CommandInv, CommandsInOrder, ReadInv, ReadOk, Unset

(* Steps that send nothing, begin no pass and leave the outputs alone.     *)
LEMMA QuietCommands ==
  ASSUME CommandInv, UNCHANGED <<commands, pass>>,
         \A r \in Records : Unserved(r)' => Unserved(r),
         \A r \in OemTasks : entity'[r].val = entity[r].val
  PROVE  CommandInv'
PROOF BY DEF CommandInv, CommandsInOrder

LEMMA CommandStep ==
  ASSUME ChainInv, CommandInv, [Next]_vars
  PROVE  CommandInv'
PROOF
  <1>0. /\ TypeOK /\ InFlightOnce
        /\ OemTasks \subseteq Records
    BY DEF ChainInv, Records
  <1> USE <1>0
  <1>1. CASE WorkerStep
    <2>0. UNCHANGED <<pact, rpc, pass>>
      BY <1>1 DEF WorkerStep, recordVars
    <2>1. CASE EnterLoop \/ Upkeep \/ SleepWhenEmpty \/ LeaveLoop
               \/ InvokeCallback \/ RunLed
      <3>1. /\ UNCHANGED <<queue, commands, entity>>
            /\ worker' # "run"
        BY <2>1 DEF EnterLoop, Upkeep, SleepWhenEmpty, LeaveLoop,
                    InvokeCallback, RunLed
      <3> QED BY <2>0, <3>1, QuietCommands DEF Unserved
    <2>2. CASE TakeTask
      <3>1. /\ UNCHANGED <<commands, entity>>
            /\ task' = Head(queue)
            /\ queue # <<>> /\ queue' = Tail(queue)
        BY <2>2 DEF TakeTask, PopFront
      <3>2. /\ Head(queue) \in ToSet(queue)
            /\ ToSet(queue') = ToSet(queue) \ {Head(queue)}
        BY <3>1, PopsFront DEF TypeOK, ProviderTypeOK, InFlightOnce
      <3>3. \A r \in Records : Unserved(r)' => Unserved(r)
        BY <2>0, <3>1, <3>2 DEF Unserved
      <3> QED BY <2>0, <3>1, <3>3, QuietCommands
    <2>3. CASE RunSensor(Reading)
      <3>1. /\ UNCHANGED <<queue, commands>>
            /\ worker' = "callback"
            /\ task \in SensorTasks
            /\ \/ entity' = [entity EXCEPT ![task] = Delivered(@, Reading)]
               \/ entity' = [entity EXCEPT ![task] = Failed(@)]
        BY <2>3 DEF RunSensor
      <3>2. \A r \in OemTasks : r # task
        BY <3>1, LinkTypesAssumption
      <3>3. \A r \in OemTasks : entity'[r] = entity[r]
        BY <3>1, <3>2 DEF TypeOK, ProviderTypeOK
      <3>4. \A r \in Records : Unserved(r)' => Unserved(r)
        BY <2>0, <3>1 DEF Unserved
      <3> QED BY <2>0, <3>1, <3>3, <3>4, QuietCommands
    <2>4. CASE RunOem
      <3>1. /\ worker = "run" /\ worker' = "callback"
            /\ task \in OemTasks
            /\ UNCHANGED <<queue, task>>
            /\ UNCHANGED entity \/ entity' = [entity EXCEPT ![task] = Failed(@)]
            /\ \/ /\ entity[task].val # Unset
                  /\ commands' =
                       [commands EXCEPT ![task] = Append(@, entity[task].val)]
               \/ UNCHANGED commands
        BY <2>4 DEF RunOem
      <3>2. task \in Records /\ task \notin ToSet(queue) /\ rpc[task] # "sched"
        BY <3>1 DEF InFlightOnce, InFlight, WorkerHolds
      <3>3. \A r \in Records : Unserved(r)' => Unserved(r) /\ r # task
        BY <2>0, <3>1, <3>2 DEF Unserved
      <3>4. \A r \in OemTasks : entity'[r].val = entity[r].val
        <4>1. \A e \in Entities : Failed(e).val = e.val
          BY EntityUpdates, 0 \in Nat
        <4>2. entity \in [Records -> Entities]
          BY DEF TypeOK, ProviderTypeOK, Entities
        <4> QED BY <3>1, <4>1, <4>2
      <3>5. CASE UNCHANGED commands
        BY <2>0, <3>3, <3>4, <3>5, QuietCommands
      <3>6. CASE /\ entity[task].val # Unset
                 /\ commands' =
                      [commands EXCEPT ![task] = Append(@, entity[task].val)]
        <4>1. entity[task].val = pass[task]
          BY <3>1, <3>6 DEF CommandInv
        <4>2. \A i \in DOMAIN commands[task] : commands[task][i] < pass[task]
          BY <3>1, <3>2 DEF CommandInv, Unserved
        <4>3. /\ commands'[task] = Append(commands[task], pass[task])
              /\ \A r \in Records \ {task} : commands'[r] = commands[r]
          BY <3>2, <3>6, <4>1 DEF TypeOK, ProviderTypeOK
        <4>4. /\ commands[task] \in Seq(Nat)
              /\ pass[task] \in Nat
          BY <3>2 DEF TypeOK, ProviderTypeOK
        <4>5. \A i \in DOMAIN commands'[task] :
                 /\ commands'[task][i] <= pass[task]
                 /\ \A j \in 1 .. (i - 1) :
                       commands'[task][j] < commands'[task][i]
          BY <3>2, <4>2, <4>3, <4>4 DEF CommandInv, CommandsInOrder
        <4>6. CommandsInOrder'
          BY <2>0, <4>3, <4>5 DEF CommandInv, CommandsInOrder
        <4>7. \A r \in Records : Unserved(r)' =>
                 \A i \in DOMAIN commands'[r] : commands'[r][i] < pass'[r]
          BY <2>0, <3>3, <4>3 DEF CommandInv
        <4> QED BY <2>0, <3>4, <4>6, <4>7 DEF CommandInv
      <3> QED BY <3>1, <3>5, <3>6
    <2> QED BY <1>1, <2>1, <2>2, <2>3, <2>4 DEF WorkerStep, Worker
  <1>2. CASE LifeStep \/ UNCHANGED vars
    <2>1. /\ UNCHANGED <<queue, task, rpc, commands, entity, pass>>
          /\ \/ UNCHANGED worker
             \/ worker = "unstarted" /\ worker' = "loop"
      BY <1>2 DEF LifeStep, Start, StopThread, StopReturns, recordVars, vars,
                  providerVars
    <2> QED BY <2>1, QuietCommands DEF Unserved
  <1>3. ASSUME NEW r \in Records, ScanLinked(r) \/ LinkOk(r)
        PROVE  CommandInv'
    <2>1. /\ UNCHANGED <<queue, worker, task, commands>>
          /\ rpc' = [rpc EXCEPT ![r] = "sched"]
          /\ pass' = [pass EXCEPT ![r] = @ + 1]
          /\ entity' = IF r \in BoRecords
                       THEN [entity EXCEPT ![r] = Written(@, pass[r] + 1)]
                       ELSE entity
      BY <1>3 DEF ScanLinked, LinkOk, FirstPass
    <2>2. /\ pass'[r] = pass[r] + 1 /\ pass[r] \in Nat
          /\ \A q \in Records \ {r} : pass'[q] = pass[q]
          /\ \A q \in Records \ {r} : Unserved(q)' => Unserved(q)
      BY <2>1 DEF TypeOK, Unserved
    <2>3. \A q \in Records : \A i \in DOMAIN commands[q] :
             commands[q][i] \in Nat
      BY DEF TypeOK, ProviderTypeOK
    <2>4. /\ CommandsInOrder'
          /\ \A q \in Records : Unserved(q)' =>
               \A i \in DOMAIN commands'[q] : commands'[q][i] < pass'[q]
      <3>1. ASSUME NEW q \in Records, NEW i \in DOMAIN commands[q]
            PROVE  /\ commands[q][i] <= pass'[q]
                   /\ Unserved(q)' => commands[q][i] < pass'[q]
                   /\ \A j \in 1 .. (i - 1) : commands[q][j] < commands[q][i]
        BY <2>2, <2>3 DEF CommandInv, CommandsInOrder
      <3> QED BY <2>1, <3>1 DEF CommandsInOrder
    <2>5. /\ entity \in [Records -> Entities]
          /\ Written(entity[r], pass[r] + 1).val = pass[r] + 1
      <3>1. entity \in [Records -> Entities] /\ pass[r] + 1 \in Nat
        BY <2>2 DEF TypeOK, ProviderTypeOK, Entities
      <3>2. entity[r] \in Entities
        BY <3>1
      <3> QED BY <3>1, <3>2, EntityUpdates
    <2>6. \A q \in OemTasks :
             entity'[q].val = IF q \in BoRecords THEN pass'[q] ELSE Unset
      BY <2>1, <2>2, <2>5 DEF CommandInv
    <2> QED BY <2>4, <2>6 DEF CommandInv
  <1>4. ASSUME NEW r \in Records, ScheduleOk(r)
        PROVE  CommandInv'
    <2>1. /\ rpc[r] = "sched" /\ rpc' = [rpc EXCEPT ![r] = "idle"]
          /\ queue' = Append(queue, r)
          /\ UNCHANGED <<worker, task, commands, entity, pass>>
      BY <1>4 DEF ScheduleOk, Schedule
    <2>2. ToSet(queue') = ToSet(queue) \union {r}
      BY <2>1, PushBack DEF TypeOK, ProviderTypeOK
    <2>3. \A q \in Records : Unserved(q)' => Unserved(q)
      BY <2>1, <2>2 DEF Unserved, TypeOK
    <2> QED BY <2>1, <2>3, QuietCommands
  <1>5. ASSUME NEW r \in Records,
               \/ ScheduleFail(r) \/ SecondPass(r) \/ BeginCallback(r)
               \/ ScanUnlinked(r) \/ LinkFail(r)
        PROVE  CommandInv'
    <2>1. /\ rpc'[r] # "sched"
          /\ \A q \in Records \ {r} : rpc'[q] = rpc[q]
          /\ UNCHANGED <<queue, worker, task, commands, entity, pass>>
      BY <1>5 DEF ScheduleFail, SecondPass, BeginCallback, ScanUnlinked,
                  LinkFail, providerVars, TypeOK
    <2>2. \A q \in Records : Unserved(q)' => Unserved(q)
      BY <2>1 DEF Unserved
    <2> QED BY <2>1, <2>2, QuietCommands
  <1> QED
    BY <1>1, <1>2, <1>3, <1>4, <1>5 DEF Next, RecordStep

(* Whatever fails on the way, an output is sent at most once for every     *)
(* time its record was processed, in order and with its own value.         *)
THEOREM CommandsSentInOrder == RingHolds => (Spec => []CommandsInOrder)
PROOF
  <1> SUFFICES ASSUME RingHolds PROVE Spec => []CommandsInOrder
    OBVIOUS
  <1>1. ChainInv /\ CommandInv /\ [Next]_vars => ChainInv' /\ CommandInv'
    BY ChainStep, CommandStep
  <1>2. Init => ChainInv /\ CommandInv
    BY ChainInit, ServeInit
  <1>3. CommandInv => CommandsInOrder
    BY DEF CommandInv
  <1> QED BY <1>1, <1>2, <1>3, PTL DEF Spec

(* A record that is neither served, nor begins nor ends a pass.            *)
LEMMA RecordKept ==
  ASSUME NEW r \in Records, ReadOk(r),
         entity'[r] = entity[r], pass'[r] = pass[r], posted'[r] = posted[r],
         Unserved(r)' => Unserved(r),
         Served(r)' => Served(r),
         rpc'[r] \in {"idle", "link"} /\ ~pact'[r]
           => rpc[r] \in {"idle", "link"} /\ ~pact[r]
  PROVE  ReadOk(r)'
PROOF BY DEF ReadOk

(* Steps that do this to every record.                                     *)
LEMMA QuietReads ==
  ASSUME ReadInv, UNCHANGED <<pass, posted>>,
         \A r \in SensorTasks \ BoRecords :
            /\ entity'[r] = entity[r]
            /\ Unserved(r)' => Unserved(r)
            /\ Served(r)' => Served(r)
            /\ rpc'[r] \in {"idle", "link"} /\ ~pact'[r]
                 => rpc[r] \in {"idle", "link"} /\ ~pact[r]
  PROVE  ReadInv'
PROOF BY DEF ReadInv, ReadOk

LEMMA ReadStep ==
  ASSUME ChainInv, ReadInv, [Next]_vars
  PROVE  ReadInv'
PROOF
  <1> DEFINE S == SensorTasks \ BoRecords
  <1>0. /\ TypeOK /\ InFlightOnce /\ PactPhases
        /\ S \subseteq Records
        /\ \A r \in S : r \notin OemTasks /\ r \notin LedTasks
        /\ entity \in [Records -> Entities]
    BY LinkTypesAssumption DEF ChainInv, Records, TypeOK, ProviderTypeOK, Entities
  <1>t. \A r \in Records :
          /\ entity[r].val \in Nat /\ entity[r].sevr \in {"none", "invalid"}
          /\ posted[r].val \in Nat /\ pass[r] \in Nat
    BY <1>0 DEF TypeOK, ProviderTypeOK
  <1> USE <1>0
  <1>1. CASE WorkerStep
    <2>0. UNCHANGED <<pact, rpc, pass, posted>>
      BY <1>1 DEF WorkerStep, recordVars
    <2>1. CASE EnterLoop \/ Upkeep \/ SleepWhenEmpty \/ LeaveLoop
               \/ InvokeCallback
      <3>1. /\ UNCHANGED <<queue, entity>>
            /\ worker' = "process" \/ worker' = "dequeue"
                 \/ worker' = "loop" \/ worker' = "exited"
            /\ \/ pending' = pending
               \/ worker = "callback" /\ pending' = pending \union {task}
        <4>1. CASE InvokeCallback
          BY <4>1 DEF InvokeCallback
        <4>2. CASE ~InvokeCallback
          BY <2>1, <4>2 DEF EnterLoop, Upkeep, SleepWhenEmpty, LeaveLoop
        <4> QED BY <4>1, <4>2
      <3> QED BY <2>0, <3>1, QuietReads DEF Unserved, Served
    <2>2. CASE TakeTask
      <3>1. /\ UNCHANGED <<pending, entity>>
            /\ worker' = "run" /\ task' = Head(queue)
            /\ queue # <<>> /\ queue' = Tail(queue)
        BY <2>2 DEF TakeTask, PopFront
      <3>2. /\ Head(queue) \in ToSet(queue)
            /\ ToSet(queue') = ToSet(queue) \ {Head(queue)}
        BY <3>1, PopsFront DEF TypeOK, ProviderTypeOK, InFlightOnce
      <3>3. \A r \in S : /\ Unserved(r)' => Unserved(r)
                         /\ Served(r)' => Served(r)
        BY <2>0, <3>1, <3>2 DEF Unserved, Served
      <3> QED BY <2>0, <3>1, <3>3, QuietReads
    <2>3. CASE RunOem \/ RunLed
      <3>1. /\ UNCHANGED <<queue, pending, task>>
            /\ worker' = "callback"
            /\ task \in OemTasks \union LedTasks
            /\ UNCHANGED entity \/ entity' = [entity EXCEPT ![task] = Failed(@)]
        BY <2>3 DEF RunOem, RunLed
      <3>2. \A r \in S : r # task /\ entity'[r] = entity[r]
        BY <3>1
      <3>3. \A r \in S : /\ Unserved(r)' => Unserved(r)
                         /\ Served(r)' => Served(r)
        BY <2>0, <3>1, <3>2 DEF Unserved, Served
      <3> QED BY <2>0, <3>2, <3>3, QuietReads
    <2>4. CASE RunSensor(Reading)
      <3>1. /\ worker = "run" /\ worker' = "callback"
            /\ task \in SensorTasks
            /\ UNCHANGED <<queue, pending, task>>
            /\ \/ entity' = [entity EXCEPT ![task] = Delivered(@, Reading)]
               \/ entity' = [entity EXCEPT ![task] = Failed(@)]
        BY <2>4 DEF RunSensor
      <3>2. /\ task \in Records /\ Reading = pass[task]
            /\ pact[task] /\ rpc[task] = "idle" /\ task \notin ToSet(queue)
        BY <3>1 DEF Records, Reading, InFlightOnce, InFlight, WorkerHolds
      <3>3. \/ entity'[task].val = pass[task] /\ entity'[task].sevr = "none"
            \/ /\ entity'[task].val = entity[task].val
               /\ entity'[task].sevr = "invalid"
        <4>1. entity[task] \in Entities /\ pass[task] \in Nat
          BY <3>2, <1>t
        <4>2. /\ Delivered(entity[task], pass[task]).val = pass[task]
              /\ Delivered(entity[task], pass[task]).sevr = "none"
              /\ Failed(entity[task]).val = entity[task].val
              /\ Failed(entity[task]).sevr = "invalid"
          BY <4>1, EntityUpdates
        <4> QED BY <3>1, <3>2, <4>2
      <3>4. \A r \in S \ {task} :
               /\ entity'[r] = entity[r]
               /\ Unserved(r)' => Unserved(r)
               /\ Served(r)' => Served(r)
        BY <2>0, <3>1, <3>2 DEF Unserved, Served
      <3>5. ~Unserved(task)' /\ Unserved(task)
        BY <2>0, <3>1, <3>2 DEF Unserved
      <3>6. task \in S => /\ entity[task].val < pass[task]
                          /\ posted[task].val < pass[task]
        BY <3>5 DEF ReadInv, ReadOk
      <3>7. ASSUME NEW r \in S PROVE ReadOk(r)'
        <4>1. CASE r # task
          BY <2>0, <3>4, <4>1, RecordKept DEF ReadInv
        <4>2. CASE r = task
          <5>1. ~Unserved(r)' /\ pact'[r] /\ pass'[r] = pass[r]
            BY <2>0, <3>1, <3>2, <3>5, <4>2
          <5>2. posted'[r] = posted[r]
            BY <2>0
          <5> QED
            BY <3>3, <3>6, <4>2, <5>1, <5>2, <1>t DEF ReadOk
        <4> QED BY <4>1, <4>2
      <3> QED BY <3>7 DEF ReadInv
    <2> QED BY <1>1, <2>1, <2>2, <2>3, <2>4 DEF WorkerStep, Worker
  <1>2. CASE LifeStep \/ UNCHANGED vars
    <2>1. /\ UNCHANGED <<queue, task, pending, rpc, pact, entity, pass, posted>>
          /\ \/ UNCHANGED worker
             \/ worker = "unstarted" /\ worker' = "loop"
      BY <1>2 DEF LifeStep, Start, StopThread, StopReturns, recordVars, vars,
                  providerVars
    <2> QED BY <2>1, QuietReads DEF Unserved, Served
  <1>3. ASSUME NEW r \in Records, ScanLinked(r) \/ LinkOk(r)
        PROVE  ReadInv'
    <2>1. /\ UNCHANGED <<queue, worker, task, pending, posted>>
          /\ rpc' = [rpc EXCEPT ![r] = "sched"]
          /\ pact' = [pact EXCEPT ![r] = TRUE]
          /\ pass' = [pass EXCEPT ![r] = @ + 1]
          /\ r \in S => UNCHANGED entity
          /\ \A q \in S \ {r} : entity'[q] = entity[q]
      BY <1>3 DEF ScanLinked, LinkOk, FirstPass, HoldPact
    <2>2. ~Served(r)
      BY <1>3, ServedOrNot DEF ScanLinked, LinkOk, MayProcess, PactPhases
    <2>3. ~Served(r)'
      BY <2>1, <2>2 DEF Unserved, Served, TypeOK
    <2>4. /\ pass'[r] = pass[r] + 1 /\ pact'[r]
          /\ \A q \in S \ {r} : /\ pass'[q] = pass[q] /\ pact'[q] = pact[q]
                               /\ rpc'[q] = rpc[q]
      BY <2>1 DEF TypeOK
    <2>5. ASSUME NEW q \in S, q # r PROVE ReadOk(q)'
      <3>1. /\ entity'[q] = entity[q] /\ pass'[q] = pass[q]
            /\ posted'[q] = posted[q] /\ rpc'[q] = rpc[q] /\ pact'[q] = pact[q]
        BY <2>1, <2>4, <2>5
      <3>2. /\ Unserved(q)' => Unserved(q)
            /\ Served(q)' => Served(q)
        BY <2>1, <3>1 DEF Unserved, Served
      <3> QED BY <3>1, <3>2, RecordKept DEF ReadInv
    <2>6. r \in S => ReadOk(r)'
      BY <2>1, <2>3, <2>4, <1>t DEF ReadInv, ReadOk
    <2> QED BY <2>5, <2>6 DEF ReadInv
  <1>4. ASSUME NEW r \in Records, ScheduleOk(r)
        PROVE  ReadInv'
    <2>1. /\ rpc[r] = "sched" /\ rpc' = [rpc EXCEPT ![r] = "idle"]
          /\ queue' = Append(queue, r)
          /\ UNCHANGED <<worker, task, pending, pact, entity, pass, posted>>
      BY <1>4 DEF ScheduleOk, Schedule
    <2>2. ToSet(queue') = ToSet(queue) \union {r}
      BY <2>1, PushBack DEF TypeOK, ProviderTypeOK
    <2>3. pact[r]
      BY <2>1 DEF PactPhases
    <2>4. \A q \in S :
             /\ Unserved(q)' => Unserved(q)
             /\ Served(q)' => Served(q)
             /\ rpc'[q] \in {"idle", "link"} /\ ~pact'[q]
                  => rpc[q] \in {"idle", "link"} /\ ~pact[q]
      BY <2>1, <2>2, <2>3 DEF Unserved, Served, TypeOK
    <2> QED BY <2>1, <2>4, QuietReads
  <1>5. ASSUME NEW r \in Records,
               ScanUnlinked(r) \/ LinkFail(r) \/ BeginCallback(r)
        PROVE  ReadInv'
    <2>1. /\ UNCHANGED <<queue, worker, task, pact, entity, pass, posted>>
          /\ \A q \in Records \ {r} : rpc'[q] = rpc[q]
          /\ \/ /\ pending' = pending
                /\ rpc[r] \in {"idle", "link"} /\ rpc'[r] \in {"idle", "link"}
             \/ /\ r \in pending /\ pending' = pending \ {r}
                /\ rpc'[r] = "finish"
      BY <1>5 DEF ScanUnlinked, MayProcess, LinkFail, BeginCallback,
                  providerVars, TypeOK
    <2>2. \A q \in S :
             /\ Unserved(q)' => Unserved(q)
             /\ Served(q)' => Served(q)
             /\ rpc'[q] \in {"idle", "link"} /\ ~pact'[q]
                  => rpc[q] \in {"idle", "link"} /\ ~pact[q]
      BY <2>1 DEF Unserved, Served
    <2> QED BY <2>1, <2>2, QuietReads
  <1>6. ASSUME NEW r \in Records, ScheduleFail(r) \/ SecondPass(r)
        PROVE  ReadInv'
    <2>1. /\ rpc[r] \in {"sched", "finish"}
          /\ rpc' = [rpc EXCEPT ![r] = "idle"]
          /\ pact' = [pact EXCEPT ![r] = FALSE]
          /\ UNCHANGED <<queue, worker, task, pending, entity, pass>>
          /\ \A q \in Records \ {r} : posted'[q] = posted[q]
      BY <1>6 DEF ScheduleFail, SecondPass, providerVars, TypeOK
    <2>2. ~InFlight(r)
      BY <2>1 DEF InFlightOnce
    <2>3. /\ ~Unserved(r)' /\ ~Served(r)'
          /\ \A q \in S \ {r} : rpc'[q] = rpc[q] /\ pact'[q] = pact[q]
      BY <2>1, <2>2 DEF Unserved, Served, InFlight, WorkerHolds, TypeOK
    <2>5. ASSUME NEW q \in S, q # r PROVE ReadOk(q)'
      <3>1. /\ entity'[q] = entity[q] /\ pass'[q] = pass[q]
            /\ posted'[q] = posted[q] /\ rpc'[q] = rpc[q] /\ pact'[q] = pact[q]
        BY <2>1, <2>3, <2>5
      <3>2. /\ Unserved(q)' => Unserved(q)
            /\ Served(q)' => Served(q)
        BY <2>1, <3>1 DEF Unserved, Served
      <3> QED BY <3>1, <3>2, RecordKept DEF ReadInv
    <2>6. ASSUME r \in S PROVE ReadOk(r)'
      <3>1. /\ entity'[r] = entity[r] /\ pass'[r] = pass[r]
            /\ entity[r].val <= pass[r]
        BY <2>1, <2>6 DEF ReadInv, ReadOk
      <3>2. /\ posted'[r].val <= pass[r]
            /\ posted'[r].sevr = "none" <=> posted'[r].val = pass[r]
        <4>1. CASE ScheduleFail(r)
          <5>1. /\ posted'[r].val = posted[r].val
                /\ posted'[r].sevr = "invalid"
                /\ Unserved(r)
            BY <4>1 DEF ScheduleFail, Unserved, TypeOK
          <5> QED BY <5>1, <2>6, <1>t DEF ReadInv, ReadOk
        <4>2. CASE SecondPass(r)
          <5>1. Served(r)
            BY <4>2 DEF SecondPass, Served
          <5>2. /\ posted'[r].sevr = entity[r].sevr
                /\ posted'[r].val = IF entity[r].val = 0
                                    THEN posted[r].val ELSE entity[r].val
            BY <4>2, <2>6 DEF SecondPass, TakeOver, Unset, TypeOK
          <5> QED BY <5>1, <5>2, <2>6, <1>t DEF ReadInv, ReadOk
        <4> QED BY <1>6, <4>1, <4>2
      <3>3. /\ ~Unserved(r)'
            /\ ~Served(r)'
        BY <2>3
      <3> QED BY <3>1, <3>2, <3>3 DEF ReadOk
    <2> QED BY <2>5, <2>6 DEF ReadInv
  <1> QED
    BY <1>1, <1>2, <1>3, <1>4, <1>5, <1>6 DEF Next, RecordStep

(* An ai record at rest shows the reading of its last pass or an INVALID   *)
(* alarm, whichever transfers fail and however the records interleave.     *)
THEOREM PostedIsFreshOrAlarmed == RingHolds => (Spec => []PostedMatchesRead)
PROOF
  <1> SUFFICES ASSUME RingHolds PROVE Spec => []PostedMatchesRead
    OBVIOUS
  <1>1. ChainInv /\ ReadInv /\ [Next]_vars => ChainInv' /\ ReadInv'
    BY ChainStep, ReadStep
  <1>2. Init => ChainInv /\ ReadInv
    BY ChainInit, ServeInit
  <1>3. ReadInv => PostedMatchesRead
    BY DEF ReadInv, ReadOk, PostedMatchesRead
  <1> QED BY <1>1, <1>2, <1>3, PTL DEF Spec

-----------------------------------------------------------------------------
(* EpicsDevice implements AsyncIO, as far as safety goes: the initial      *)
(* states map to initial states and every step of the records, of the      *)
(* provider thread and of stopThread() maps to a step of AsyncIO or to a   *)
(* stutter.                                                                *)

(* What the variables of AsyncIO stand for, as in Contract: the request in *)
(* service is still the oldest one.                                        *)
InService == IF worker \in {"run", "callback"} THEN <<task>> ELSE <<>>

Order == InService \o queue

Answered == pending \union {r \in Records : rpc[r] = "finish"}

(* Tasks are accepted until stopThread() begins.                           *)
OpenInv == stop = "running" <=> processing

-----------------------------------------------------------------------------
(* The order of the requests when one is added, begun or answered.         *)

LEMMA HeadInFront ==
  ASSUME NEW S, NEW q \in Seq(S), q # <<>>
  PROVE  <<Head(q)>> \o Tail(q) = q
PROOF
  <1>1. /\ Head(q) \in S /\ Tail(q) \in Seq(S) /\ Head(q) = q[1]
        /\ Len(q) \in Nat \ {0} /\ Len(Tail(q)) = Len(q) - 1
        /\ \A i \in 1 .. (Len(q) - 1) : Tail(q)[i] = q[i + 1]
    BY HeadTailProperties, EmptySeq, LenProperties
  <1>2. <<Head(q)>> \in Seq(S) /\ Len(<<Head(q)>>) = 1 /\ <<Head(q)>>[1] = q[1]
    BY <1>1
  <1>3. /\ <<Head(q)>> \o Tail(q) \in Seq(S)
        /\ Len(<<Head(q)>> \o Tail(q)) = Len(q)
        /\ \A i \in 1 .. Len(q) : (<<Head(q)>> \o Tail(q))[i] = q[i]
    BY <1>1, <1>2, ConcatProperties
  <1> QED BY <1>3, SeqEqual

LEMMA OneInFront ==
  ASSUME NEW S, NEW q \in Seq(S), NEW x \in S
  PROVE  /\ <<x>> \o q # <<>>
         /\ Head(<<x>> \o q) = x
         /\ Tail(<<x>> \o q) = q
         /\ ToSet(<<x>> \o q) = {x} \union ToSet(q)
PROOF
  <1>1. <<x>> \in Seq(S) /\ Len(<<x>>) = 1 /\ <<x>>[1] = x
    OBVIOUS
  <1>2. Len(q) \in Nat /\ DOMAIN q = 1 .. Len(q)
    BY LenProperties
  <1>3. /\ <<x>> \o q \in Seq(S)
        /\ Len(<<x>> \o q) = Len(q) + 1
        /\ (<<x>> \o q)[1] = x
        /\ \A i \in 1 .. Len(q) : (<<x>> \o q)[i + 1] = q[i]
    BY <1>1, <1>2, ConcatProperties
  <1>4. <<x>> \o q # <<>>
    BY <1>2, <1>3, EmptySeq
  <1>5. Head(<<x>> \o q) = x
    BY <1>3, <1>4, HeadTailProperties
  <1>6. Tail(<<x>> \o q) = q
    <2>1. /\ Tail(<<x>> \o q) \in Seq(S)
          /\ Len(Tail(<<x>> \o q)) = Len(q)
          /\ \A i \in 1 .. Len(q) : Tail(<<x>> \o q)[i] = q[i]
      BY <1>2, <1>3, <1>4, HeadTailProperties
    <2> QED BY <2>1, SeqEqual
  <1>7. ToSet(<<x>> \o q) = {x} \union ToSet(q)
    <2>1. DOMAIN (<<x>> \o q) = 1 .. (Len(q) + 1)
      BY <1>3, LenProperties
    <2>2. ASSUME NEW i \in 1 .. (Len(q) + 1)
          PROVE  (<<x>> \o q)[i] \in {x} \union ToSet(q)
      <3>1. CASE i = 1
        BY <1>3, <3>1
      <3>2. CASE i # 1
        <4>1. i - 1 \in 1 .. Len(q) /\ (i - 1) + 1 = i
          BY <1>2, <3>2
        <4> QED BY <1>2, <1>3, <4>1 DEF ToSet
      <3> QED BY <3>1, <3>2
    <2>3. ASSUME NEW i \in 1 .. Len(q)
          PROVE  q[i] \in ToSet(<<x>> \o q)
      <3>1. i + 1 \in 1 .. (Len(q) + 1) /\ (<<x>> \o q)[i + 1] = q[i]
        BY <1>2, <1>3
      <3> QED BY <2>1, <3>1 DEF ToSet
    <2>4. x \in ToSet(<<x>> \o q)
      <3>1. 1 \in 1 .. (Len(q) + 1)
        BY <1>2
      <3> QED BY <1>3, <2>1, <3>1 DEF ToSet
    <2> QED BY <1>2, <2>1, <2>2, <2>3, <2>4 DEF ToSet
  <1> QED BY <1>4, <1>5, <1>6, <1>7

LEMMA OneInFrontOfAppend ==
  ASSUME NEW S, NEW q \in Seq(S), NEW x \in S, NEW y \in S
  PROVE  <<x>> \o Append(q, y) = Append(<<x>> \o q, y)
PROOF
  <1>1. <<x>> \in Seq(S) /\ <<y>> \in Seq(S) /\ <<x>> \o q \in Seq(S)
    BY ConcatProperties
  <1>2. Append(q, y) = q \o <<y>> /\ Append(<<x>> \o q, y) = (<<x>> \o q) \o <<y>>
    BY <1>1, AppendIsConcat
  <1> QED BY <1>1, <1>2, ConcatAssociative

-----------------------------------------------------------------------------
(* The steps.                                                              *)

LEMMA ContractVars ==
  /\ Contract!Init <=> Order = <<>> /\ Answered = {} /\ processing = TRUE
  /\ Contract!vars = <<Order, Answered, processing>>
PROOF BY DEF Contract!Init, Contract!vars, Order, InService, Answered

LEMMA ContractInit == Init => Contract!Init /\ OpenInv
PROOF
  <1> SUFFICES ASSUME Init PROVE Contract!Init /\ OpenInv
    OBVIOUS
  <1>1. /\ processing = TRUE /\ stop = "running"
        /\ queue = <<>> /\ worker \in {"unstarted", "loop"} /\ pending = {}
        /\ \A r \in Records : rpc[r] = "idle"
    BY DEF Init, ProviderInit
  <1>2. Order = <<>> /\ Answered = {}
    BY <1>1, ConcatEmptySeq, EmptySeq DEF Order, InService, Answered
  <1> QED BY <1>1, <1>2, ContractVars DEF OpenInv

LEMMA OpenStep == OpenInv /\ [Next]_vars => OpenInv'
PROOF
  <1> SUFFICES ASSUME OpenInv, [Next]_vars PROVE OpenInv'
    OBVIOUS
  <1>1. CASE WorkerStep
    <2>1. UNCHANGED <<stop, processing>>
      BY <1>1 DEF WorkerStep, Worker, EnterLoop, Upkeep, SleepWhenEmpty, TakeTask,
                  RunSensor, RunOem, RunLed, InvokeCallback, LeaveLoop
    <2> QED BY <2>1 DEF OpenInv
  <1>2. CASE LifeStep
    BY <1>2 DEF OpenInv, LifeStep, Start, StopThread, StopReturns
  <1>3. ASSUME NEW r \in Records, ScanLinked(r) \/ ScanUnlinked(r) \/ RecordStep(r)
        PROVE  OpenInv'
    <2>1. UNCHANGED <<stop, processing>>
      BY <1>3 DEF ScanLinked, ScanUnlinked, RecordStep, LinkOk, LinkFail, ScheduleOk,
                  ScheduleFail, BeginCallback, SecondPass, FirstPass, providerVars
    <2> QED BY <2>1 DEF OpenInv
  <1>4. CASE UNCHANGED vars
    BY <1>4 DEF OpenInv, vars, providerVars
  <1> QED BY <1>1, <1>2, <1>3, <1>4 DEF Next

(* The steps that AsyncIO does not see.                                    *)
LEMMA Unseen ==
  ASSUME UNCHANGED <<queue, pending, processing>>, InService' = InService,
         \A r \in Records : rpc'[r] = "finish" <=> rpc[r] = "finish"
  PROVE  UNCHANGED Contract!vars
PROOF BY ContractVars DEF Contract!vars, Order, InService, Answered

LEMMA WorkerImplements ==
  ASSUME RingHolds, ChainInv, WorkerStep
  PROVE  [Contract!Next]_(Contract!vars)
PROOF
  <1>1. /\ TypeOK /\ InFlightOnce /\ queue \in Seq(Records)
        /\ pending \in SUBSET Records
        /\ UNCHANGED rpc
    BY DEF ChainInv, TypeOK, ProviderTypeOK, WorkerStep, recordVars
  <1>2. CASE EnterLoop \/ Upkeep \/ SleepWhenEmpty \/ LeaveLoop
    <2>1. UNCHANGED <<queue, pending, processing>> /\ InService' = InService
      BY <1>2 DEF EnterLoop, Upkeep, SleepWhenEmpty, LeaveLoop, InService
    <2> QED BY <1>1, <2>1, Unseen
  <1>3. CASE RunSensor(Reading) \/ RunOem \/ RunLed
    <2>1. UNCHANGED <<queue, pending, processing>> /\ InService' = InService
      BY <1>3 DEF RunSensor, RunOem, RunLed, InService
    <2> QED BY <1>1, <2>1, Unseen
  <1>4. CASE TakeTask
    <2>1. /\ InService = <<>> /\ InService' = <<Head(queue)>>
          /\ queue # <<>> /\ queue' = Tail(queue)
          /\ UNCHANGED <<pending, processing>>
      BY <1>4 DEF TakeTask, PopFront, InService
    <2>2. Order' = Order
      BY <1>1, <2>1, HeadInFront, ConcatEmptySeq DEF Order
    <2>3. Answered' = Answered
      BY <1>1, <2>1 DEF Answered
    <2> QED BY <2>1, <2>2, <2>3, ContractVars
            DEF Contract!vars, Order, InService, Answered
  <1>5. CASE InvokeCallback
    <2>1. /\ worker = "callback" /\ task \in Records
          /\ InService = <<task>> /\ InService' = <<>>
          /\ UNCHANGED <<queue, processing>>
      BY <1>1, <1>5 DEF InvokeCallback, InService, TypeOK, ProviderTypeOK
    <2>2. task \notin pending
      BY <1>1, <2>1 DEF InFlightOnce, WorkerHolds
    <2>3. pending' = pending \union {task}
      BY <1>1, <1>5, <2>1, <2>2, RingHasRoom DEF InvokeCallback
    <2>4. Order # <<>> /\ Head(Order) = task /\ Order' = Tail(Order)
      BY <1>1, <2>1, OneInFront, ConcatEmptySeq DEF Order
    <2>5. Answered' = Answered \union {task}
      BY <1>1, <2>3 DEF Answered
    <2>6. Contract!Answer
      BY <2>1, <2>4, <2>5 DEF Contract!Answer, Order, InService, Answered
    <2> QED BY <2>6 DEF Contract!Next
  <1> QED BY <1>2, <1>3, <1>4, <1>5 DEF WorkerStep, Worker

LEMMA RecordImplements ==
  ASSUME ChainInv, OpenInv, NEW r \in Records,
         ScanLinked(r) \/ ScanUnlinked(r) \/ RecordStep(r)
  PROVE  [Contract!Next]_(Contract!vars)
PROOF
  <1>1. /\ TypeOK /\ InFlightOnce /\ queue \in Seq(Records)
        /\ rpc \in [Records -> {"idle", "link", "sched", "finish"}]
        /\ worker \in {"run", "callback"} => task \in Records
    BY DEF ChainInv, TypeOK, ProviderTypeOK
  <1>2. CASE ScanLinked(r) \/ LinkOk(r) \/ ScanUnlinked(r) \/ LinkFail(r)
             \/ ScheduleFail(r)
    <2>1. /\ UNCHANGED <<queue, worker, task, pending, processing>>
          /\ rpc[r] # "finish" /\ rpc'[r] # "finish"
          /\ \A q \in Records \ {r} : rpc'[q] = rpc[q]
      BY <1>1, <1>2 DEF ScanLinked, LinkOk, ScanUnlinked, LinkFail, ScheduleFail,
                        MayProcess, FirstPass, providerVars
    <2> QED BY <2>1, Unseen DEF InService
  <1>3. CASE ScheduleOk(r)
    <2>1. /\ rpc[r] = "sched" /\ stop = "running"
          /\ rpc'[r] = "idle" /\ \A q \in Records \ {r} : rpc'[q] = rpc[q]
          /\ queue' = Append(queue, r)
          /\ UNCHANGED <<worker, task, pending, processing>>
      BY <1>1, <1>3 DEF ScheduleOk, Schedule
    <2>2. ~InFlight(r)
      BY <1>1, <2>1 DEF InFlightOnce
    <2>3. Order' = Append(Order, r) /\ r \notin ToSet(Order)
      <3>1. CASE worker \in {"run", "callback"}
        BY <1>1, <2>1, <2>2, <3>1, OneInFront, OneInFrontOfAppend
           DEF Order, InService, InFlight, WorkerHolds
      <3>2. CASE worker \notin {"run", "callback"}
        BY <1>1, <2>1, <2>2, <3>2, PushBack, ConcatEmptySeq
           DEF Order, InService, InFlight
      <3> QED BY <3>1, <3>2
    <2>4. Answered' = Answered /\ r \notin Answered
      BY <2>1, <2>2 DEF Answered, InFlight
    <2>5. processing /\ processing' = processing
      BY <2>1 DEF OpenInv
    <2>6. r \notin Contract!ToSet(Order)
      BY <2>3 DEF ToSet, Contract!ToSet
    <2>7. Contract!Request(r)
      BY <2>3, <2>4, <2>5, <2>6 DEF Contract!Request, Order, InService, Answered
    <2> QED BY <2>7 DEF Contract!Next
  <1>4. CASE BeginCallback(r)
    <2>1. /\ r \in pending /\ pending' = pending \ {r} /\ rpc'[r] = "finish"
          /\ \A q \in Records \ {r} : rpc'[q] = rpc[q]
          /\ UNCHANGED <<queue, worker, task, processing>>
      BY <1>1, <1>4 DEF BeginCallback
    <2>2. Answered' = Answered
      BY <2>1 DEF Answered
    <2> QED BY <2>1, <2>2 DEF Contract!vars, Order, InService, Answered
  <1>5. CASE SecondPass(r)
    <2>1. /\ rpc[r] = "finish" /\ rpc'[r] = "idle"
          /\ \A q \in Records \ {r} : rpc'[q] = rpc[q]
          /\ UNCHANGED <<queue, worker, task, pending, processing>>
      BY <1>1, <1>5 DEF SecondPass, providerVars
    <2>2. r \notin pending
      BY <1>1, <2>1 DEF InFlightOnce, InFlight
    <2>3. r \in Answered /\ Answered' = Answered \ {r}
      BY <2>1, <2>2 DEF Answered
    <2>4. Contract!Consume(r)
      BY <2>1, <2>3 DEF Contract!Consume, Order, InService, Answered
    <2> QED BY <2>4 DEF Contract!Next
  <1> QED BY <1>2, <1>3, <1>4, <1>5 DEF RecordStep

LEMMA StepImplements ==
  ASSUME RingHolds, ChainInv, OpenInv, [Next]_vars
  PROVE  [Contract!Next]_(Contract!vars)
PROOF
  <1>1. CASE StopThread /\ UNCHANGED recordVars
    <2>1. Contract!Close
      BY <1>1 DEF StopThread, recordVars, Contract!Close
    <2> QED BY <2>1 DEF Contract!Next
  <1>2. CASE (Start \/ StopReturns) /\ UNCHANGED recordVars
    BY <1>2, Unseen DEF Start, StopReturns, recordVars, InService
  <1>3. CASE UNCHANGED vars
    BY <1>3, Unseen DEF vars, providerVars, recordVars, InService
  <1> QED
    BY <1>1, <1>2, <1>3, WorkerImplements, RecordImplements DEF Next, LifeStep

(* Every behaviour of records, provider thread and callback ring is a      *)
(* behaviour of AsyncIO but for its fairness: requests are accepted only   *)
(* while the connection is open, answered first come first served, each    *)
(* exactly once, and each answer is consumed once.                         *)
THEOREM ImplementsAsyncIO ==
  RingHolds => (Spec => Contract!Init /\ [][Contract!Next]_(Contract!vars))
PROOF
  <1> SUFFICES ASSUME RingHolds
               PROVE  Spec => Contract!Init /\ [][Contract!Next]_(Contract!vars)
    OBVIOUS
  <1>1. Init => ChainInv /\ OpenInv /\ Contract!Init
    BY ChainInit, ContractInit
  <1>2. ChainInv /\ OpenInv /\ [Next]_vars => ChainInv' /\ OpenInv'
    BY ChainStep, OpenStep
  <1>3. ChainInv /\ OpenInv /\ [Next]_vars => [Contract!Next]_(Contract!vars)
    BY StepImplements
  <1> QED BY <1>1, <1>2, <1>3, PTL DEF Spec
=============================================================================
