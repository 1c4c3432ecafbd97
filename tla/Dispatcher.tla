----------------------------- MODULE Dispatcher -----------------------------
(***************************************************************************)
(* The map of connections (dispatcher.cpp): iocsh threads open connections *)
(* with ipmiConnect, record threads look them up.  One mutex protects the  *)
(* map and is held while a provider is constructed, which takes as long as *)
(* the device takes to answer, and while one that could not be constructed *)
(* is destroyed, which takes for ever once the base class has been made.   *)
(***************************************************************************)
EXTENDS Naturals, FiniteSets

CONSTANTS
    Ids,             \* connection ids
    Shells,          \* threads that run iocsh commands
    Threads,         \* threads that process records
    Nobody,          \* the mutex is free
    NoProvider,      \* there is no connection of this id
    MaxProviders     \* bound on the constructions

ASSUME DispatcherAssumption ==
    /\ Shells \intersect Threads = {}
    /\ Nobody \notin Shells \union Threads
    /\ MaxProviders \in Nat
    /\ NoProvider \notin Nat

VARIABLES
    owner,           \* who holds g_mutex
    g_connections,   \* the provider of every id
    made,            \* providers constructed so far; each is a number
    shell,           \* what every iocsh thread does
    lookup           \* what every record thread does

vars == <<owner, g_connections, made, shell, lookup>>

IdleShell == [pc |-> "idle", id |-> NoProvider, conn |-> NoProvider]

TypeOK ==
    /\ owner \in Shells \union Threads \union {Nobody}
    /\ g_connections \in [Ids -> 1 .. made \union {NoProvider}]
    /\ made \in 0 .. MaxProviders
    /\ shell \in [Shells -> [pc : {"idle", "waiting", "locked", "built", "stopping",
                                   "true", "false"},
                             id : Ids \union {NoProvider},
                             conn : 1 .. made \union {NoProvider}]]
    /\ lookup \in [Threads -> [pc : {"idle", "waiting", "locked", "found", "missing"},
                               id : Ids \union {NoProvider},
                               conn : 1 .. made \union {NoProvider}]]

Init ==
    /\ owner = Nobody
    /\ g_connections = [id \in Ids |-> NoProvider]
    /\ made = 0
    /\ shell = [s \in Shells |-> IdleShell]
    /\ lookup = [t \in Threads |-> IdleShell]

-----------------------------------------------------------------------------
(* Mistakes the properties are checked against.                            *)

LockWithoutMutex(a) == owner' = a

KnownNever(id) == FALSE

ConnectRefusedLocked(s) ==
    /\ shell[s].pc = "locked"
    /\ g_connections[shell[s].id] # NoProvider
    /\ shell' = [shell EXCEPT ![s].pc = "false"]
    /\ UNCHANGED <<owner, g_connections, made, lookup>>

EntryLeftBehind(s) ==
    /\ shell[s].pc = "locked"
    /\ g_connections[shell[s].id] = NoProvider
    /\ g_connections' = [g_connections EXCEPT ![shell[s].id] = made + 1]
    /\ owner' = Nobody
    /\ shell' = [shell EXCEPT ![s].pc = "false"]
    /\ UNCHANGED <<made, lookup>>

-----------------------------------------------------------------------------
Lock(a) == owner = Nobody /\ owner' = a

(* ScopedLock releases the mutex on every way out.                         *)
Unlock == owner' = Nobody

Known(id) == g_connections[id] # NoProvider

(* ipmiConnect with valid arguments.                                       *)
ConnectCall(s, id) ==
    /\ shell[s].pc \in {"idle", "true", "false"}
    /\ shell' = [shell EXCEPT ![s] =
                    [pc |-> "waiting", id |-> id, conn |-> NoProvider]]
    /\ UNCHANGED <<owner, g_connections, made, lookup>>

ConnectLock(s) ==
    /\ shell[s].pc = "waiting"
    /\ Lock(s)
    /\ shell' = [shell EXCEPT ![s].pc = "locked"]
    /\ UNCHANGED <<g_connections, made, lookup>>

ConnectRefused(s) ==
    /\ shell[s].pc = "locked"
    /\ Known(shell[s].id)
    /\ Unlock
    /\ shell' = [shell EXCEPT ![s].pc = "false"]
    /\ UNCHANGED <<g_connections, made, lookup>>

(* The provider is constructed and its thread started, connected or not:   *)
(* the connection manager keeps the errors of opening a session to itself. *)
Construct(s) ==
    /\ shell[s].pc = "locked"
    /\ ~Known(shell[s].id)
    /\ made < MaxProviders
    /\ made' = made + 1
    /\ shell' = [shell EXCEPT ![s].pc = "built", ![s].conn = made']
    /\ UNCHANGED <<owner, g_connections, lookup>>

(* The exception comes before the base class Provider is constructed (no   *)
(* memory for the object or for the name of the connection): caught.       *)
ConstructFails(s) ==
    /\ shell[s].pc = "locked"
    /\ ~Known(shell[s].id)
    /\ Unlock
    /\ shell' = [shell EXCEPT ![s].pc = "false"]
    /\ UNCHANGED <<g_connections, made, lookup>>

(* It comes after, from what stands before start() in the constructor of   *)
(* FreeIpmiProvider.  ~Provider runs stopThread(), which finds processing  *)
(* true and waits for a thread that was never created: no step of this     *)
(* shell follows, and it holds the mutex.                                  *)
ConstructThrows(s) ==
    /\ shell[s].pc = "locked"
    /\ ~Known(shell[s].id)
    /\ shell' = [shell EXCEPT ![s].pc = "stopping"]
    /\ UNCHANGED <<owner, g_connections, made, lookup>>

Store(s) ==
    /\ shell[s].pc = "built"
    /\ g_connections' = [g_connections EXCEPT ![shell[s].id] = shell[s].conn]
    /\ Unlock
    /\ shell' = [shell EXCEPT ![s].pc = "true"]
    /\ UNCHANGED <<made, lookup>>

-----------------------------------------------------------------------------
(* _getConnection(), for a link of a record.                               *)

LookupCall(t, id) ==
    /\ lookup[t].pc \in {"idle", "found", "missing"}
    /\ lookup' = [lookup EXCEPT ![t] =
                    [pc |-> "waiting", id |-> id, conn |-> NoProvider]]
    /\ UNCHANGED <<owner, g_connections, made, shell>>

LookupLock(t) ==
    /\ lookup[t].pc = "waiting"
    /\ Lock(t)
    /\ lookup' = [lookup EXCEPT ![t].pc = "locked"]
    /\ UNCHANGED <<g_connections, made, shell>>

LookupFind(t) ==
    /\ lookup[t].pc = "locked"
    /\ LET conn == g_connections[lookup[t].id]
       IN  lookup' = [lookup EXCEPT
                        ![t].pc = IF conn = NoProvider THEN "missing" ELSE "found",
                        ![t].conn = conn]
    /\ Unlock
    /\ UNCHANGED <<g_connections, made, shell>>

-----------------------------------------------------------------------------
Connect(s) ==
    \/ ConnectRefused(s) \/ Construct(s) \/ ConstructFails(s)
    \/ ConstructThrows(s) \/ Store(s)

Next ==
    \/ \E s \in Shells :
          (\E id \in Ids : ConnectCall(s, id)) \/ ConnectLock(s) \/ Connect(s)
    \/ \E t \in Threads :
          (\E id \in Ids : LookupCall(t, id)) \/ LookupLock(t) \/ LookupFind(t)

(* A construction ends in one of the four ways, because FreeIPMI gives up  *)
(* after a timeout, and a mutex that becomes free again and again is       *)
(* granted.  One that is never released again is granted to nobody.        *)
Fairness ==
    /\ \A s \in Shells : SF_vars(ConnectLock(s)) /\ WF_vars(Connect(s))
    /\ \A t \in Threads : SF_vars(LookupLock(t)) /\ WF_vars(LookupFind(t))

Spec == Init /\ [][Next]_vars /\ Fairness

-----------------------------------------------------------------------------
(* Every provider that was constructed, and whose thread runs, is found    *)
(* under one id or is in the hands of the one shell that is about to store *)
(* it: no device is polled by two threads for one id, however many shells  *)
(* connect at once, and no provider is replaced and destructed.            *)
OneHome ==
    \A p \in 1 .. made :
        LET ids == {id \in Ids : g_connections[id] = p}
            hands == {s \in Shells : shell[s].pc = "built" /\ shell[s].conn = p}
        IN  Cardinality(ids) + Cardinality(hands) = 1

(* The provider that a record has found is the one that every other record *)
(* finds, whatever ipmiConnect commands follow: the tasks of an id are all *)
(* in one queue.                                                           *)
FoundIsCurrent ==
    \A t \in Threads :
        lookup[t].pc = "found" => g_connections[lookup[t].id] = lookup[t].conn

(* A shell is destroying a provider whose thread was never started.        *)
Stopping == \E s \in Shells : shell[s].pc = "stopping"

(* Every lookup is answered, however long devices take to answer, and      *)
(* however often connect() is refused or fails: the mutex is released on   *)
(* every way out but the one on which a half-made provider is destroyed.   *)
EveryLookupAnswered ==
    \A t \in Threads :
        lookup[t].pc = "waiting" ~> lookup[t].pc \in {"found", "missing"} \/ Stopping

(* What the comment on connect() promises: it returns true or false.       *)
ConnectReturns ==
    \A s \in Shells :
        shell[s].pc = "waiting" ~> shell[s].pc \in {"true", "false"}
=============================================================================
