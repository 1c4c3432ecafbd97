-------------------------- MODULE ConnectionManager --------------------------
(***************************************************************************)
(* The session of a connection with its device (IpmiConnectionManager.cpp):*)
(* the FreeIPMI contexts it owns, the state machine that reconnects, and   *)
(* the operations of the provider thread that can find the session gone.   *)
(*                                                                         *)
(* Only the provider thread calls these operations, one after the other:   *)
(* process(), then what IpmiSdrManager asks for while it looks for a       *)
(* change of the SDR, then one task.  What happens at any moment is the    *)
(* other side: the device goes down and comes back, and sessions get lost. *)
(***************************************************************************)
EXTENDS Naturals

CONSTANT MaxFaults   \* bound on the failures of the device and of calls

ASSUME MaxFaultsAssumption == MaxFaults \in Nat

VARIABLES
    ipmiCtx,         \* mIpmiCtx: null, created, or opened for a session
    sdrCtx,          \* mSdrCtx
    sensorCtx,       \* mSensorCtx; stale: it refers to a destroyed mIpmiCtx
    cacheFile,       \* whether FreeIPMI has the SDR cache open in mSdrCtx
    mCacheFileIsOpen,
    mConnState,
    idleDue,         \* mIdleTime is more than half a session timeout ago
    reconnectDue,    \* mDisconnectTime is more than a minute ago
    device,          \* the device answers
    session,         \* the session, as the device sees it
    turn,            \* what the provider thread does next
    faults           \* failures so far

handles == <<ipmiCtx, sdrCtx, sensorCtx, cacheFile, mCacheFileIsOpen,
             mConnState>>

vars == <<handles, idleDue, reconnectDue, device, session, turn, faults>>

TypeOK ==
    /\ ipmiCtx \in {"null", "created", "opened"}
    /\ sdrCtx \in {"null", "created"}
    /\ sensorCtx \in {"null", "bound", "stale"}
    /\ cacheFile \in {"closed", "open"}
    /\ mCacheFileIsOpen \in BOOLEAN
    /\ mConnState \in {"DISCONNECTED", "CONNECTED"}
    /\ idleDue \in BOOLEAN
    /\ reconnectDue \in BOOLEAN
    /\ device \in {"up", "down"}
    /\ session \in {"none", "alive", "lost"}
    /\ turn \in {"process", "sdr", "task"}
    /\ faults \in 0 .. MaxFaults

Connected == mConnState = "CONNECTED"

(* The constructor either gets everything or ends in cleanup().  The       *)
(* disconnect time is still that of a default epicsTime: long ago.         *)
Init ==
    /\ \/ /\ ipmiCtx = "opened" /\ sdrCtx = "created" /\ sensorCtx = "bound"
          /\ cacheFile = "open" /\ mCacheFileIsOpen = TRUE
          /\ mConnState = "CONNECTED"
          /\ session = "alive" /\ device = "up"
       \/ /\ ipmiCtx = "null" /\ sdrCtx = "null" /\ sensorCtx = "null"
          /\ cacheFile = "closed" /\ mCacheFileIsOpen = FALSE
          /\ mConnState = "DISCONNECTED"
          /\ session = "none" /\ device \in {"up", "down"}
    /\ idleDue = FALSE
    /\ reconnectDue = TRUE
    /\ turn = "process"
    /\ faults = 0

-----------------------------------------------------------------------------
(* Mistakes the properties are checked against.                            *)

CleanupKeepsSensorCtx ==
    /\ ipmiCtx' = "null" /\ sdrCtx' = "null" /\ UNCHANGED sensorCtx
    /\ cacheFile' = "closed" /\ mCacheFileIsOpen' = FALSE
    /\ mConnState' = "DISCONNECTED"
    /\ session' = "none"

CleanupKeepsFlag ==
    /\ ipmiCtx' = "null" /\ sdrCtx' = "null" /\ sensorCtx' = "null"
    /\ cacheFile' = "closed" /\ UNCHANGED mCacheFileIsOpen
    /\ mConnState' = "DISCONNECTED"
    /\ session' = "none"

CleanupUnknownState ==
    /\ ipmiCtx' = "null" /\ sdrCtx' = "null" /\ sensorCtx' = "null"
    /\ cacheFile' = "closed" /\ mCacheFileIsOpen' = FALSE
    /\ mConnState' = "DISCONNECTING"
    /\ session' = "none"

KeepAliveNeverDue == FALSE

PollKeepsSession ==
    /\ IF session = "alive" THEN faults < MaxFaults /\ faults' = faults + 1
       ELSE UNCHANGED faults
    /\ UNCHANGED <<handles, idleDue, reconnectDue, device, session>>

ReconnectOnlyOnce == ~Connected /\ reconnectDue /\ ipmiCtx = "null"

-----------------------------------------------------------------------------
Fault == faults < MaxFaults /\ faults' = faults + 1

NoFault == UNCHANGED faults

(* cleanup(): whatever there is, is closed and destroyed.                  *)
Cleanup ==
    /\ ipmiCtx' = "null" /\ sdrCtx' = "null" /\ sensorCtx' = "null"
    /\ cacheFile' = "closed" /\ mCacheFileIsOpen' = FALSE
    /\ mConnState' = "DISCONNECTED"
    /\ session' = "none"

Disconnect ==
    /\ Cleanup
    /\ reconnectDue' = FALSE
    /\ UNCHANGED idleDue

(* The steps of reconnect(), in their order; each of them may throw.       *)
IpmiContext == 1
SdrContext == 2
Session == 3
Cache == 4
SensorContext == 5

Steps == 0 .. SensorContext

(* The contexts when the first n steps have been made and the next one has *)
(* thrown.  mConnState is CONNECTED from the third step on, whatever the   *)
(* later ones do.  A context that is not re-created keeps its value, and   *)
(* a sensor context does not survive the IPMI context it was made with.    *)
OpenUpTo(n) ==
    /\ ipmiCtx' = IF n < IpmiContext THEN "null"
                  ELSE IF n < Session THEN "created" ELSE "opened"
    /\ sdrCtx' = IF n < IpmiContext THEN sdrCtx
                 ELSE IF n < SdrContext THEN "null" ELSE "created"
    /\ cacheFile' = IF n < IpmiContext THEN cacheFile
                    ELSE IF n < Cache THEN "closed" ELSE "open"
    /\ mCacheFileIsOpen' = (n >= Cache \/ mCacheFileIsOpen)
    /\ sensorCtx' = IF n = SensorContext THEN "bound"
                    ELSE IF n = Cache \/ sensorCtx = "null" THEN "null"
                    ELSE "stale"
    /\ mConnState' = IF n < Session THEN mConnState ELSE "CONNECTED"
    /\ session' = IF n < Session THEN "none" ELSE "alive"
    /\ idleDue' = (n < Session /\ idleDue)

ReconnectNow == ~Connected /\ reconnectDue

Reconnect ==
    /\ ReconnectNow
    /\ \E n \in Steps :
         /\ OpenUpTo(n)
         /\ n >= Session => device = "up"
         /\ IF n = SensorContext \/ (n = SdrContext /\ device = "down")
            THEN NoFault ELSE Fault
         /\ turn' = IF n = SensorContext THEN "sdr" ELSE "task"
    /\ UNCHANGED <<reconnectDue, device>>

(* The fields that decode() of IpmiSdrInfo wants.  The first five are all  *)
(* that is compared; without any of the others it throws as well.          *)
InfoFields ==
    {"version_major", "version_minor", "record_count",
     "addition_timestamp", "erase_timestamp",
     "free_space", "allocation_supported", "reserve_supported",
     "partial_add_supported", "delete_supported", "modal_supported",
     "overflow_flag"}

Answers == {InfoFields} \union {InfoFields \ {f} : f \in InfoFields}

Decodable(answer) == InfoFields \subseteq answer

(* The three ways out of readSdrInfo(): an answer, an answer without the   *)
(* data, and a command that fails because nobody answers.                  *)
SdrInfoRead ==
    /\ session = "alive"
    /\ \E answer \in Answers : Decodable(answer)
    /\ idleDue' = FALSE
    /\ UNCHANGED <<handles, reconnectDue, device, session, faults>>

SdrInfoMissing ==
    /\ session = "alive"
    /\ \E answer \in Answers : ~Decodable(answer)
    /\ Fault
    /\ UNCHANGED <<handles, idleDue, reconnectDue, device, session>>

SdrInfoFails ==
    /\ IF session = "alive" THEN Fault ELSE NoFault
    /\ Disconnect
    /\ UNCHANGED device

ReadSdrInfo == SdrInfoRead \/ SdrInfoMissing \/ SdrInfoFails

KeepAliveDue == Connected /\ idleDue

KeepAlive ==
    /\ KeepAliveDue
    /\ \/ SdrInfoRead /\ turn' = "sdr"
       \/ (SdrInfoMissing \/ SdrInfoFails) /\ turn' = "task"

NothingDue ==
    /\ ~KeepAliveDue
    /\ ~ReconnectNow
    /\ turn' = "sdr"
    /\ UNCHANGED <<handles, idleDue, reconnectDue, device, session, faults>>

(* process(), at the head of every turn of the provider thread.  When it   *)
(* throws, FreeIpmiProvider skips the SDR manager in this turn.            *)
Process == turn = "process" /\ (KeepAlive \/ Reconnect \/ NothingDue)

-----------------------------------------------------------------------------
(* What IpmiSdrManager::process() asks of the connection.                  *)

(* getSdrCtx() returns the context instead of throwing.                    *)
SdrCtxReturned == Connected /\ sdrCtx # "null" /\ mCacheFileIsOpen

SdrIdle ==
    /\ turn = "sdr"
    /\ turn' = "task"
    /\ UNCHANGED <<handles, idleDue, reconnectDue, device, session, faults>>

(* The minute of the SDR manager is over and its cached header was read:   *)
(* it asks the device for the repository info.                             *)
SdrPoll ==
    /\ turn = "sdr"
    /\ SdrCtxReturned /\ cacheFile = "open"
    /\ ReadSdrInfo
    /\ turn' = "task"

(* ... and the repository of the device is another one: rebuildSdrCache(). *)
(* The cache is closed and deleted, and opening it again may throw; the    *)
(* flag is assigned at the end of openSdrCache() only.                     *)
RebuildSdrCache ==
    /\ turn = "sdr"
    /\ SdrCtxReturned /\ cacheFile = "open" /\ session = "alive"
    /\ \/ cacheFile' = "open" /\ mCacheFileIsOpen' = TRUE /\ NoFault
       \/ cacheFile' = "closed" /\ UNCHANGED mCacheFileIsOpen /\ Fault
    /\ idleDue' = FALSE
    /\ turn' = "task"
    /\ UNCHANGED <<ipmiCtx, sdrCtx, sensorCtx, mConnState, reconnectDue,
                   device, session>>

-----------------------------------------------------------------------------
(* The task of the turn, if there is one.                                  *)

NoTask ==
    /\ turn = "task"
    /\ turn' = "process"
    /\ UNCHANGED <<handles, idleDue, reconnectDue, device, session, faults>>

(* getSensorReading(): it throws before it does anything without a session *)
(* or a sensor context.  A reading counts as traffic.  Error 16 is taken   *)
(* for a lost session; any other error is only reported, even if the       *)
(* session is lost (its threshold and hysteresis commands have error       *)
(* numbers of their own).                                                  *)
SensorCtxUsed == Connected /\ sensorCtx # "null"

SensorRead ==
    /\ turn = "task"
    /\ SensorCtxUsed
    /\ session = "alive"
    /\ idleDue' = FALSE
    /\ turn' = "process"
    /\ UNCHANGED <<handles, reconnectDue, device, session, faults>>

SensorSessionTimeout ==
    /\ turn = "task"
    /\ SensorCtxUsed
    /\ IF session = "alive" THEN Fault ELSE NoFault
    /\ Disconnect
    /\ turn' = "process"
    /\ UNCHANGED device

SensorError ==
    /\ turn = "task"
    /\ SensorCtxUsed
    /\ turn' = "process"
    /\ UNCHANGED <<handles, idleDue, reconnectDue, device, session, faults>>

(* write_oem_command(): the state of the connection is not looked at, and  *)
(* a reboot counts as traffic whether it could be sent or not.             *)
WriteOem ==
    /\ turn = "task"
    /\ idleDue' = FALSE
    /\ turn' = "process"
    /\ UNCHANGED <<handles, reconnectDue, device, session, faults>>

-----------------------------------------------------------------------------
(* The device and the clock.                                               *)

SessionLost ==
    /\ session = "alive"
    /\ session' = "lost"
    /\ Fault
    /\ UNCHANGED <<handles, idleDue, reconnectDue, device, turn>>

DeviceDown ==
    /\ device = "up"
    /\ device' = "down"
    /\ session' = IF session = "alive" THEN "lost" ELSE session
    /\ Fault
    /\ UNCHANGED <<handles, idleDue, reconnectDue, turn>>

DeviceUp ==
    /\ device = "down"
    /\ device' = "up"
    /\ UNCHANGED <<handles, idleDue, reconnectDue, session, turn, faults>>

IdleTimeout ==
    /\ ~idleDue
    /\ idleDue' = TRUE
    /\ UNCHANGED <<handles, reconnectDue, device, session, turn, faults>>

ReconnectTimeout ==
    /\ ~reconnectDue
    /\ reconnectDue' = TRUE
    /\ UNCHANGED <<handles, idleDue, device, session, turn, faults>>

-----------------------------------------------------------------------------
Thread ==
    \/ Process
    \/ SdrIdle \/ SdrPoll \/ RebuildSdrCache
    \/ NoTask \/ SensorRead \/ SensorSessionTimeout \/ SensorError \/ WriteOem

Environment ==
    SessionLost \/ DeviceDown \/ DeviceUp \/ IdleTimeout \/ ReconnectTimeout

Next == Thread \/ Environment

(* The provider thread runs and time passes; the device owes nothing.      *)
Fairness ==
    /\ WF_vars(Thread)
    /\ WF_vars(IdleTimeout)
    /\ WF_vars(ReconnectTimeout)

Spec == Init /\ [][Next]_vars /\ Fairness

-----------------------------------------------------------------------------
(* A sensor is never read through a context whose IPMI context has been    *)
(* destroyed, in whatever order reconnections fail and succeed.            *)
NoStaleContext ==
    /\ sensorCtx # "stale"
    /\ SensorCtxUsed => ipmiCtx = "opened"

(* A connection that has given up a session holds nothing of it: the next  *)
(* reconnection starts from scratch and getSdrCtx() hands nothing out.     *)
ReleasedWhenDisconnected ==
    ~Connected =>
        /\ sensorCtx = "null"
        /\ cacheFile = "closed" /\ ~mCacheFileIsOpen
        /\ session = "none"

(* A lost session is noticed, even if nobody reads a sensor: the session   *)
(* is polled when it has been idle.  OEM commands must not go on for ever, *)
(* because each of them restarts the idle time.                            *)
LossDetected ==
    <>[][~WriteOem]_vars =>
        (Connected /\ session = "lost" ~> ~Connected)

(* If the device stays up, the connection is in the connected state again  *)
(* and again.                                                              *)
Reconnects == <>[](device = "up") => []<>Connected

(* getSensorReading() "handle[s] reconnections": when the device stays up, *)
(* the sensors can be read again and again.                                *)
HandlesReconnection ==
    <>[](device = "up") /\ <>[][~WriteOem]_vars =>
        []<>(Connected /\ sensorCtx = "bound")
=============================================================================
