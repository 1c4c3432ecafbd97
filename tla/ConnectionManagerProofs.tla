---------------------- MODULE ConnectionManagerProofs ----------------------
(***************************************************************************)
(* Theorems about ConnectionManager, for any number of failures.           *)
(***************************************************************************)
EXTENDS ConnectionManager, TLAPS

(* The session is opened after both contexts were made, and they live as   *)
(* long as the connection is in the connected state.                       *)
ContextsOfSession ==
    Connected => ipmiCtx = "opened" /\ sdrCtx = "created"

HandlesInv ==
    /\ TypeOK
    /\ ReleasedWhenDisconnected
    /\ ContextsOfSession
    /\ sensorCtx # "stale"

LEMMA HandlesInit == Init => HandlesInv
PROOF
  <1> SUFFICES ASSUME Init PROVE HandlesInv
    OBVIOUS
  <1> USE DEF Init, Connected
  <1>1. faults \in 0 .. MaxFaults
    BY MaxFaultsAssumption
  <1>2. TypeOK
    BY <1>1 DEF TypeOK
  <1>3. ReleasedWhenDisconnected /\ ContextsOfSession /\ sensorCtx # "stale"
    BY DEF ReleasedWhenDisconnected, ContextsOfSession
  <1> QED BY <1>2, <1>3 DEF HandlesInv

LEMMA FaultCounted ==
  ASSUME faults \in 0 .. MaxFaults, Fault \/ NoFault
  PROVE  faults' \in 0 .. MaxFaults
PROOF BY MaxFaultsAssumption DEF Fault, NoFault

(* After disconnect() there is nothing left to go wrong.                   *)
LEMMA DisconnectStep ==
  ASSUME HandlesInv, Disconnect, device' = device,
         turn' \in {"process", "sdr", "task"}, faults' \in 0 .. MaxFaults
  PROVE  HandlesInv'
PROOF BY DEF HandlesInv, TypeOK, ReleasedWhenDisconnected, ContextsOfSession,
             Connected, Disconnect, Cleanup

(* Steps that touch neither the handles nor the end of the session.        *)
LEMMA HandlesKept ==
  ASSUME HandlesInv, UNCHANGED handles,
         session' = session \/ (session = "alive" /\ session' = "lost"),
         idleDue' \in BOOLEAN, reconnectDue' \in BOOLEAN,
         device' \in {"up", "down"}, turn' \in {"process", "sdr", "task"},
         faults' \in 0 .. MaxFaults
  PROVE  HandlesInv'
PROOF BY DEF HandlesInv, TypeOK, ReleasedWhenDisconnected, ContextsOfSession,
             Connected, handles

LEMMA ReconnectStep ==
  ASSUME HandlesInv, Reconnect, turn' \in {"process", "sdr", "task"}
  PROVE  HandlesInv'
PROOF
  <1>1. PICK n \in Steps :
          /\ OpenUpTo(n)
          /\ n >= Session => device = "up"
          /\ IF n = SensorContext \/ (n = SdrContext /\ device = "down")
             THEN NoFault ELSE Fault
    BY DEF Reconnect
  <1>2. /\ ~Connected /\ sensorCtx = "null" /\ session = "none"
        /\ cacheFile = "closed" /\ ~mCacheFileIsOpen
        /\ UNCHANGED <<reconnectDue, device>>
        /\ TypeOK
    BY DEF Reconnect, ReconnectNow, HandlesInv, ReleasedWhenDisconnected
  <1>3. faults' \in 0 .. MaxFaults
    BY <1>1, <1>2, FaultCounted DEF TypeOK
  <1>4. n \in 0 .. 5
    BY DEF Steps, SensorContext
  <1> USE DEF OpenUpTo, IpmiContext, SdrContext, Session, Cache, SensorContext
  <1>5. TypeOK'
    BY <1>1, <1>2, <1>3, <1>4 DEF TypeOK
  <1>6. ReleasedWhenDisconnected' /\ ContextsOfSession' /\ sensorCtx' # "stale"
    BY <1>1, <1>2, <1>4
    DEF ReleasedWhenDisconnected, ContextsOfSession, Connected, TypeOK
  <1> QED BY <1>5, <1>6 DEF HandlesInv

LEMMA ReadSdrInfoStep ==
  ASSUME HandlesInv, ReadSdrInfo, turn' \in {"process", "sdr", "task"}
  PROVE  HandlesInv'
PROOF
  <1>0. TypeOK
    BY DEF HandlesInv
  <1>1. CASE SdrInfoRead
    BY <1>0, <1>1, HandlesKept DEF SdrInfoRead, TypeOK
  <1>2. CASE SdrInfoMissing
    BY <1>0, <1>2, HandlesKept, FaultCounted DEF SdrInfoMissing, TypeOK
  <1>3. CASE SdrInfoFails
    <2>1. faults' \in 0 .. MaxFaults
      BY <1>0, <1>3, FaultCounted DEF SdrInfoFails, TypeOK
    <2> QED BY <1>3, <2>1, DisconnectStep DEF SdrInfoFails
  <1> QED BY <1>1, <1>2, <1>3 DEF ReadSdrInfo

LEMMA HandlesStep == HandlesInv /\ [Next]_vars => HandlesInv'
PROOF
  <1> SUFFICES ASSUME HandlesInv, [Next]_vars PROVE HandlesInv'
    OBVIOUS
  <1>0. TypeOK
    BY DEF HandlesInv
  <1>1. CASE Process
    <2>1. CASE KeepAlive
      BY <2>1, ReadSdrInfoStep DEF KeepAlive, ReadSdrInfo
    <2>2. CASE Reconnect
      <3>1. turn' \in {"sdr", "task"}
        BY <2>2 DEF Reconnect
      <3> QED BY <2>2, <3>1, ReconnectStep
    <2>3. CASE NothingDue
      BY <1>0, <2>3, HandlesKept DEF NothingDue, TypeOK
    <2> QED BY <1>1, <2>1, <2>2, <2>3 DEF Process
  <1>2. CASE SdrPoll
    BY <1>2, ReadSdrInfoStep DEF SdrPoll
  <1>3. CASE RebuildSdrCache
    <2>1. faults' \in 0 .. MaxFaults
      BY <1>0, <1>3, FaultCounted DEF RebuildSdrCache, TypeOK
    <2> QED
      BY <1>0, <1>3, <2>1
      DEF RebuildSdrCache, SdrCtxReturned, HandlesInv, TypeOK,
          ReleasedWhenDisconnected, ContextsOfSession, Connected
  <1>4. CASE SensorSessionTimeout
    <2>1. faults' \in 0 .. MaxFaults
      BY <1>0, <1>4, FaultCounted DEF SensorSessionTimeout, TypeOK
    <2> QED BY <1>4, <2>1, DisconnectStep DEF SensorSessionTimeout
  <1>5. CASE SdrIdle \/ NoTask \/ SensorRead \/ SensorError \/ WriteOem
    BY <1>0, <1>5, HandlesKept
    DEF SdrIdle, NoTask, SensorRead, SensorError, WriteOem, TypeOK
  <1>6. CASE SessionLost \/ DeviceDown
    <2>1. faults' \in 0 .. MaxFaults
      BY <1>0, <1>6, FaultCounted DEF SessionLost, DeviceDown, TypeOK
    <2> QED
      BY <1>0, <1>6, <2>1, HandlesKept DEF SessionLost, DeviceDown, TypeOK
  <1>7. CASE DeviceUp \/ IdleTimeout \/ ReconnectTimeout
    BY <1>0, <1>7, HandlesKept
    DEF DeviceUp, IdleTimeout, ReconnectTimeout, TypeOK
  <1>8. CASE UNCHANGED vars
    BY <1>0, <1>8, HandlesKept DEF vars, TypeOK
  <1> QED
    BY <1>1, <1>2, <1>3, <1>4, <1>5, <1>6, <1>7, <1>8
    DEF Next, Thread, Environment

(* Every handle, clock and turn stays within its type.                     *)
THEOREM TypeCorrect == Spec => []TypeOK
PROOF
  <1>1. HandlesInv => TypeOK
    BY DEF HandlesInv
  <1> QED BY HandlesInit, HandlesStep, <1>1, PTL DEF Spec

(* No sequence of failing reconnections leaves a sensor context that       *)
(* refers to a destroyed IPMI context, or one that is used without a       *)
(* session.                                                                *)
THEOREM NeverReadsStaleContext == Spec => []NoStaleContext
PROOF
  <1>1. HandlesInv => NoStaleContext
    BY DEF HandlesInv, NoStaleContext, ContextsOfSession, SensorCtxUsed
  <1> QED BY HandlesInit, HandlesStep, <1>1, PTL DEF Spec

(* A connection in the disconnected state holds nothing of its session.    *)
THEOREM DisconnectedHoldsNothing == Spec => []ReleasedWhenDisconnected
PROOF
  <1>1. HandlesInv => ReleasedWhenDisconnected
    BY DEF HandlesInv
  <1> QED BY HandlesInit, HandlesStep, <1>1, PTL DEF Spec
=============================================================================
