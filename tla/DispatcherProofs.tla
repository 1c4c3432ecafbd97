-------------------------- MODULE DispatcherProofs --------------------------
(***************************************************************************)
(* Theorems about Dispatcher, for any number of ids, shells, record        *)
(* threads and constructions.                                              *)
(***************************************************************************)
EXTENDS Dispatcher, FiniteSetTheorems, TLAPS

(* Who is at the map, or destroys what it has made there, has the mutex.   *)
MutexInv ==
    /\ \A s \in Shells : shell[s].pc \in {"locked", "built", "stopping"} => owner = s
    /\ \A t \in Threads : lookup[t].pc = "locked" => owner = t

(* A thread that is not idle has an id.                                    *)
IdInv ==
    /\ \A s \in Shells : shell[s].pc # "idle" => shell[s].id \in Ids
    /\ \A t \in Threads : lookup[t].pc # "idle" => lookup[t].id \in Ids

InHand(s, p) == shell[s].pc = "built" /\ shell[s].conn = p

(* A provider in the hands of a shell is new, and its id is free.          *)
HandInv ==
    \A s \in Shells : shell[s].pc = "built" =>
        /\ shell[s].conn \in 1 .. made
        /\ g_connections[shell[s].id] = NoProvider
        /\ \A id \in Ids : g_connections[id] # shell[s].conn

(* Nobody is stored twice, and nobody is lost.                             *)
StoredOnce ==
    \A i, j \in Ids :
        g_connections[i] # NoProvider /\ g_connections[i] = g_connections[j] => i = j

NotLost ==
    \A p \in 1 .. made :
        \/ \E id \in Ids : g_connections[id] = p
        \/ \E s \in Shells : InHand(s, p)

FoundInv ==
    \A t \in Threads :
        lookup[t].pc = "found" =>
            /\ lookup[t].conn # NoProvider
            /\ g_connections[lookup[t].id] = lookup[t].conn

MapInv ==
    /\ TypeOK /\ MutexInv /\ IdInv
    /\ HandInv /\ StoredOnce /\ NotLost /\ FoundInv

-----------------------------------------------------------------------------
LEMMA MapInit == Init => MapInv
PROOF
  <1> SUFFICES ASSUME Init PROVE MapInv
    OBVIOUS
  <1> USE DEF Init, IdleShell
  <1>1. TypeOK
    BY DispatcherAssumption DEF TypeOK
  <1>2. MutexInv /\ IdInv /\ HandInv /\ FoundInv
    BY DEF MutexInv, IdInv, HandInv, FoundInv
  <1>3. StoredOnce /\ NotLost
    BY DEF StoredOnce, NotLost
  <1> QED BY <1>1, <1>2, <1>3 DEF MapInv

(* A step that leaves the map alone and changes at most one shell, to       *)
(* something that has nothing in its hands.                                *)
LEMMA ShellStep ==
  ASSUME MapInv, TypeOK', UNCHANGED <<g_connections, made, lookup>>,
         NEW s \in Shells, NEW pc \in {"waiting", "locked", "stopping", "true", "false"},
         shell[s].pc # "built",
         shell'[s].pc = pc, shell'[s].id \in Ids,
         \A r \in Shells \ {s} : shell'[r] = shell[r],
         \/ owner' = owner /\ pc \notin {"locked", "stopping"} /\ shell[s].pc # "locked"
         \/ owner = Nobody /\ owner' = s
         \/ owner = s /\ owner' = Nobody /\ pc \notin {"locked", "stopping"}
         \/ owner = s /\ owner' = s /\ pc = "stopping"
  PROVE  MapInv'
PROOF
  <1> USE DEF MapInv
  <1>1. MutexInv'
    BY DispatcherAssumption DEF MutexInv
  <1>2. IdInv'
    BY DEF IdInv
  <1>3. HandInv'
    BY DEF HandInv
  <1>4. StoredOnce' /\ FoundInv'
    BY DEF StoredOnce, FoundInv
  <1>5. NotLost'
    BY DEF NotLost, InHand
  <1> QED BY <1>1, <1>2, <1>3, <1>4, <1>5

LEMMA ConnectCallStep ==
  ASSUME MapInv, NEW s \in Shells, NEW id \in Ids, ConnectCall(s, id)
  PROVE  MapInv'
PROOF
  <1>1. TypeOK'
    BY DEF MapInv, TypeOK, ConnectCall
  <1>2. /\ shell'[s].pc = "waiting" /\ shell'[s].id \in Ids
        /\ \A r \in Shells \ {s} : shell'[r] = shell[r]
    BY DEF MapInv, TypeOK, ConnectCall
  <1> QED BY <1>1, <1>2, ShellStep DEF ConnectCall

(* What a shell becomes when it moves on.                                  *)
LEMMA ShellMoves ==
  ASSUME TypeOK, NEW s \in Shells,
         NEW pc \in {"idle", "waiting", "locked", "built", "stopping", "true", "false"},
         shell' = [shell EXCEPT ![s].pc = pc]
  PROVE  /\ shell'[s].pc = pc /\ shell'[s].id = shell[s].id
         /\ shell'[s].conn = shell[s].conn
         /\ \A r \in Shells \ {s} : shell'[r] = shell[r]
         /\ shell' \in [Shells ->
                          [pc : {"idle", "waiting", "locked", "built", "stopping", "true", "false"},
                           id : Ids \union {NoProvider},
                           conn : 1 .. made \union {NoProvider}]]
PROOF BY DEF TypeOK

LEMMA ConnectLockStep ==
  ASSUME MapInv, NEW s \in Shells, ConnectLock(s)
  PROVE  MapInv'
PROOF
  <1>1. shell[s].id \in Ids
    BY DEF MapInv, IdInv, ConnectLock
  <1>2. /\ shell'[s].pc = "locked" /\ shell'[s].id = shell[s].id
        /\ \A r \in Shells \ {s} : shell'[r] = shell[r]
    BY ShellMoves DEF MapInv, ConnectLock
  <1>3. TypeOK'
    BY ShellMoves DEF MapInv, TypeOK, ConnectLock, Lock
  <1> QED BY <1>1, <1>2, <1>3, ShellStep DEF ConnectLock, Lock

LEMMA ConnectFailsStep ==
  ASSUME MapInv, NEW s \in Shells, ConnectRefused(s) \/ ConstructFails(s)
  PROVE  MapInv'
PROOF
  <1>1. shell[s].pc = "locked" /\ owner = s /\ shell[s].id \in Ids
    BY DEF MapInv, MutexInv, IdInv, ConnectRefused, ConstructFails
  <1>2. /\ owner' = Nobody /\ UNCHANGED <<g_connections, made, lookup>>
        /\ shell' = [shell EXCEPT ![s].pc = "false"]
    BY DEF ConnectRefused, ConstructFails, Unlock
  <1>3. /\ shell'[s].pc = "false" /\ shell'[s].id = shell[s].id
        /\ \A r \in Shells \ {s} : shell'[r] = shell[r]
    BY <1>2, ShellMoves DEF MapInv
  <1>4. TypeOK'
    BY <1>2, ShellMoves DEF MapInv, TypeOK
  <1> QED BY <1>1, <1>2, <1>3, <1>4, ShellStep

(* The mutex is kept by the shell that destroys what it has made.          *)
LEMMA ConstructThrowsStep ==
  ASSUME MapInv, NEW s \in Shells, ConstructThrows(s)
  PROVE  MapInv'
PROOF
  <1>1. shell[s].pc = "locked" /\ owner = s /\ shell[s].id \in Ids
    BY DEF MapInv, MutexInv, IdInv, ConstructThrows
  <1>2. /\ shell'[s].pc = "stopping" /\ shell'[s].id = shell[s].id
        /\ \A r \in Shells \ {s} : shell'[r] = shell[r]
    BY ShellMoves DEF MapInv, ConstructThrows
  <1>3. TypeOK'
    BY ShellMoves DEF MapInv, TypeOK, ConstructThrows
  <1> QED BY <1>1, <1>2, <1>3, ShellStep DEF ConstructThrows

(* The new provider has a number that no id has.                           *)
LEMMA ConstructStep ==
  ASSUME MapInv, NEW s \in Shells, Construct(s)
  PROVE  MapInv'
PROOF
  <1> USE DEF MapInv
  <1>1. /\ shell'[s] = [pc |-> "built", id |-> shell[s].id, conn |-> made + 1]
        /\ \A r \in Shells \ {s} : shell'[r] = shell[r]
        /\ made \in Nat /\ made' = made + 1 /\ made' \in 0 .. MaxProviders
        /\ shell[s].pc = "locked" /\ owner = s
        /\ UNCHANGED <<owner, g_connections, lookup>>
        /\ shell[s].id \in Ids /\ g_connections[shell[s].id] = NoProvider
    BY DispatcherAssumption DEF TypeOK, Construct, MutexInv, IdInv, Known
  <1>2. 1 .. made \subseteq 1 .. made' /\ made' \in 1 .. made'
    BY <1>1
  <1>3. TypeOK'
    <2>1. shell \in [Shells -> [pc : {"idle", "waiting", "locked", "built", "stopping", "true", "false"},
                                id : Ids \union {NoProvider},
                                conn : 1 .. made' \union {NoProvider}]]
      BY <1>2 DEF TypeOK
    <2>2. shell' = [shell EXCEPT ![s].pc = "built", ![s].conn = made']
      BY DEF Construct
    <2>3. shell' \in [Shells -> [pc : {"idle", "waiting", "locked", "built", "stopping", "true", "false"},
                                 id : Ids \union {NoProvider},
                                 conn : 1 .. made' \union {NoProvider}]]
      BY <1>2, <2>1, <2>2
    <2> QED BY <1>1, <1>2, <2>3 DEF TypeOK
  <1>4. MutexInv' /\ IdInv'
    BY <1>1 DEF MutexInv, IdInv
  <1>5. \A r \in Shells \ {s} : shell[r].pc \notin {"locked", "built", "stopping"}
    BY <1>1 DEF MutexInv
  <1>6. \A id \in Ids : g_connections[id] # made + 1
    <2> SUFFICES ASSUME NEW id \in Ids PROVE g_connections[id] # made + 1
      OBVIOUS
    <2>1. g_connections[id] \in 1 .. made \/ g_connections[id] = NoProvider
      BY DEF TypeOK
    <2> QED BY <1>1, <2>1, DispatcherAssumption
  <1>7. HandInv'
    BY <1>1, <1>2, <1>5, <1>6 DEF HandInv
  <1>8. StoredOnce' /\ FoundInv'
    BY <1>1 DEF StoredOnce, FoundInv
  <1>9. NotLost'
    <2> SUFFICES ASSUME NEW p \in 1 .. made'
                 PROVE  \/ \E id \in Ids : g_connections'[id] = p
                        \/ \E r \in Shells : InHand(r, p)'
      BY DEF NotLost
    <2>1. CASE p = made'
      BY <1>1, <2>1 DEF InHand
    <2>2. CASE p # made'
      <3>1. p \in 1 .. made
        BY <1>1, <2>2
      <3>2. PICK id \in Ids : g_connections[id] = p
        BY <3>1, <1>5, <1>1 DEF NotLost, InHand
      <3> QED BY <3>2, <1>1
    <2> QED BY <2>1, <2>2
  <1> QED BY <1>3, <1>4, <1>7, <1>8, <1>9

(* The id was free, so that no provider is replaced.                       *)
LEMMA StoreStep ==
  ASSUME MapInv, NEW s \in Shells, Store(s)
  PROVE  MapInv'
PROOF
  <1> USE DEF MapInv
  <1> DEFINE id == shell[s].id
             p == shell[s].conn
  <1>1. /\ shell'[s].pc = "true" /\ shell'[s].id = id /\ shell'[s].conn = p
        /\ \A r \in Shells \ {s} : shell'[r] = shell[r]
        /\ shell[s].pc = "built" /\ owner = s /\ id \in Ids
        /\ owner' = Nobody /\ UNCHANGED <<made, lookup>>
    BY DEF TypeOK, Store, MutexInv, IdInv, Unlock
  <1>2. /\ p \in 1 .. made /\ g_connections[id] = NoProvider
        /\ \A j \in Ids : g_connections[j] # p
    BY <1>1 DEF HandInv
  <1>3. g_connections'[id] = p /\ \A j \in Ids \ {id} : g_connections'[j] = g_connections[j]
    BY <1>1 DEF Store, TypeOK
  <1>4. TypeOK'
    <2>1. g_connections' = [g_connections EXCEPT ![id] = p]
      BY DEF Store
    <2> HIDE DEF id, p
    <2> QED BY <1>1, <1>2, <2>1, ShellMoves DEF TypeOK, Store
  <1>5. \A r \in Shells \ {s} : shell[r].pc \notin {"locked", "built", "stopping"}
    BY <1>1 DEF MutexInv
  <1>6. \A t \in Threads : lookup[t].pc # "locked"
    BY <1>1, DispatcherAssumption DEF MutexInv
  <1>7. MutexInv' /\ IdInv' /\ HandInv'
    BY <1>1, <1>5, <1>6 DEF MutexInv, IdInv, HandInv
  <1>8. StoredOnce'
    BY <1>1, <1>2, <1>3 DEF StoredOnce
  <1>9. FoundInv'
    BY <1>1, <1>2, <1>3 DEF FoundInv, IdInv
  <1>10. NotLost'
    <2> SUFFICES ASSUME NEW q \in 1 .. made
                 PROVE  \E j \in Ids : g_connections'[j] = q
      BY <1>1 DEF NotLost
    <2>1. CASE \E j \in Ids : g_connections[j] = q
      <3>1. PICK j \in Ids : g_connections[j] = q
        BY <2>1
      <3>2. j # id
        BY <1>2, <3>1, DispatcherAssumption
      <3> QED BY <1>3, <3>1, <3>2
    <2>2. CASE \E r \in Shells : InHand(r, q)
      <3>1. q = p
        BY <1>5, <2>2 DEF InHand
      <3> QED BY <1>1, <1>3, <3>1
    <2> QED BY <2>1, <2>2 DEF NotLost
  <1> QED BY <1>4, <1>7, <1>8, <1>9, <1>10

(* A lookup changes nothing but the thread that makes it.                  *)
LEMMA LookupStep ==
  ASSUME MapInv, TypeOK', UNCHANGED <<g_connections, made, shell>>,
         NEW t \in Threads, NEW pc \in {"waiting", "locked", "found", "missing"},
         lookup'[t].pc = pc, lookup'[t].id \in Ids,
         \A u \in Threads \ {t} : lookup'[u] = lookup[u],
         pc = "found" => /\ lookup'[t].conn # NoProvider
                         /\ lookup'[t].conn = g_connections[lookup'[t].id],
         \/ owner' = owner /\ pc # "locked" /\ lookup[t].pc # "locked"
         \/ owner = Nobody /\ owner' = t
         \/ owner = t /\ owner' = Nobody /\ pc # "locked"
  PROVE  MapInv'
PROOF
  <1> USE DEF MapInv
  <1>1. MutexInv'
    BY DispatcherAssumption DEF MutexInv
  <1>2. IdInv' /\ FoundInv'
    BY DEF IdInv, FoundInv
  <1>3. HandInv' /\ StoredOnce' /\ NotLost'
    BY DEF HandInv, StoredOnce, NotLost, InHand
  <1> QED BY <1>1, <1>2, <1>3

LEMMA LookupsStep ==
  ASSUME MapInv, NEW t \in Threads,
         (\E id \in Ids : LookupCall(t, id)) \/ LookupLock(t) \/ LookupFind(t)
  PROVE  MapInv'
PROOF
  <1>1. lookup \in [Threads -> [pc : {"idle", "waiting", "locked", "found", "missing"},
                                id : Ids \union {NoProvider},
                                conn : 1 .. made \union {NoProvider}]]
        /\ g_connections \in [Ids -> 1 .. made \union {NoProvider}]
    BY DEF MapInv, TypeOK
  <1>2. ASSUME NEW id \in Ids, LookupCall(t, id) PROVE MapInv'
    <2>1. TypeOK'
      BY <1>2 DEF MapInv, TypeOK, LookupCall
    <2>2. /\ lookup'[t].pc = "waiting" /\ lookup'[t].id \in Ids
          /\ \A u \in Threads \ {t} : lookup'[u] = lookup[u]
      BY <1>1, <1>2 DEF LookupCall
    <2> QED BY <1>2, <2>1, <2>2, LookupStep DEF LookupCall
  <1>3. CASE LookupLock(t)
    <2>1. lookup[t].id \in Ids
      BY <1>3 DEF MapInv, IdInv, LookupLock
    <2>2. /\ lookup'[t].pc = "locked" /\ lookup'[t].id = lookup[t].id
          /\ \A u \in Threads \ {t} : lookup'[u] = lookup[u]
      BY <1>1, <1>3 DEF LookupLock
    <2>3. TypeOK'
      BY <1>3 DEF MapInv, TypeOK, LookupLock, Lock
    <2> QED BY <1>3, <2>1, <2>2, <2>3, LookupStep DEF LookupLock, Lock
  <1>4. CASE LookupFind(t)
    <2> DEFINE conn == g_connections[lookup[t].id]
               pc == IF conn = NoProvider THEN "missing" ELSE "found"
    <2>1. lookup[t].id \in Ids /\ owner = t /\ owner' = Nobody
      BY <1>4 DEF MapInv, IdInv, MutexInv, LookupFind, Unlock
    <2>2. conn \in 1 .. made \union {NoProvider}
      BY <1>1, <2>1
    <2>3. lookup' = [lookup EXCEPT ![t].pc = pc, ![t].conn = conn]
          /\ UNCHANGED <<g_connections, made, shell>>
      BY <1>4 DEF LookupFind
    <2>4. pc \in {"found", "missing"} /\ (pc = "found" => conn # NoProvider)
      OBVIOUS
    <2> HIDE DEF conn, pc
    <2>5. /\ lookup'[t].pc = pc /\ lookup'[t].id = lookup[t].id
          /\ lookup'[t].conn = conn
          /\ \A u \in Threads \ {t} : lookup'[u] = lookup[u]
      BY <1>1, <2>3
    <2>6. lookup' \in [Threads -> [pc : {"idle", "waiting", "locked", "found", "missing"},
                                   id : Ids \union {NoProvider},
                                   conn : 1 .. made \union {NoProvider}]]
      BY <1>1, <2>2, <2>3, <2>4
    <2>7. TypeOK'
      BY <2>1, <2>3, <2>6 DEF MapInv, TypeOK
    <2> QED BY <2>1, <2>3, <2>4, <2>5, <2>7, LookupStep DEF conn
  <1> QED BY <1>2, <1>3, <1>4

LEMMA MapStep == MapInv /\ [Next]_vars => MapInv'
PROOF
  <1> SUFFICES ASSUME MapInv, [Next]_vars PROVE MapInv'
    OBVIOUS
  <1>1. ASSUME NEW s \in Shells,
               (\E id \in Ids : ConnectCall(s, id)) \/ ConnectLock(s) \/ Connect(s)
        PROVE  MapInv'
    BY <1>1, ConnectCallStep, ConnectLockStep, ConnectFailsStep, ConstructStep,
       ConstructThrowsStep, StoreStep DEF Connect
  <1>2. ASSUME NEW t \in Threads,
               (\E id \in Ids : LookupCall(t, id)) \/ LookupLock(t) \/ LookupFind(t)
        PROVE  MapInv'
    BY <1>2, LookupsStep
  <1>3. CASE UNCHANGED vars
    BY <1>3 DEF vars, MapInv, TypeOK, MutexInv, IdInv, HandInv, StoredOnce,
                NotLost, InHand, FoundInv
  <1> QED BY <1>1, <1>2, <1>3 DEF Next

LEMMA MapAlways == Spec => []MapInv
PROOF BY MapInit, MapStep, PTL DEF Spec

-----------------------------------------------------------------------------
(* Every variable stays within its type, for any number of threads.        *)
THEOREM TypeCorrect == Spec => []TypeOK
PROOF BY MapAlways, PTL DEF MapInv

(* The provider that is stored under one id, or held by one shell: one of  *)
(* the two sets has one element, and the other none.                       *)
LEMMA OneOfTwo ==
  ASSUME MapInv, NEW p \in 1 .. made
  PROVE  LET ids == {id \in Ids : g_connections[id] = p}
             hands == {s \in Shells : shell[s].pc = "built" /\ shell[s].conn = p}
         IN  \/ hands = {} /\ \E id \in Ids : ids = {id}
             \/ ids = {} /\ \E s \in Shells : hands = {s}
PROOF
  <1> USE DEF MapInv
  <1> DEFINE ids == {id \in Ids : g_connections[id] = p}
             hands == {s \in Shells : shell[s].pc = "built" /\ shell[s].conn = p}
  <1>1. p # NoProvider
    BY DispatcherAssumption
  <1>2. CASE \E id \in Ids : g_connections[id] = p
    <2>1. PICK id \in Ids : g_connections[id] = p
      BY <1>2
    <2>2. ids = {id}
      BY <1>1, <2>1 DEF StoredOnce
    <2>3. hands = {}
      BY <2>1 DEF HandInv
    <2> QED BY <2>2, <2>3
  <1>3. CASE ~ \E id \in Ids : g_connections[id] = p
    <2>1. PICK s \in Shells : InHand(s, p)
      BY <1>3 DEF NotLost
    <2>2. hands = {s}
      BY <2>1 DEF InHand, MutexInv
    <2>3. ids = {}
      BY <1>3
    <2> QED BY <2>2, <2>3
  <1> QED BY <1>2, <1>3

(* Every provider ever constructed is found under one id or is in the      *)
(* hands of one shell: ipmiConnect never polls a device twice for an id,   *)
(* and never destructs a provider that records use.                        *)
THEOREM EveryProviderHasOneHome == Spec => []OneHome
PROOF
  <1>1. MapInv => OneHome
    <2> SUFFICES ASSUME MapInv, NEW p \in 1 .. made
                 PROVE  Cardinality({id \in Ids : g_connections[id] = p})
                        + Cardinality({s \in Shells : shell[s].pc = "built"
                                                       /\ shell[s].conn = p}) = 1
      BY DEF OneHome
    <2> DEFINE ids == {id \in Ids : g_connections[id] = p}
               hands == {s \in Shells : shell[s].pc = "built" /\ shell[s].conn = p}
    <2>1. \/ hands = {} /\ \E id \in Ids : ids = {id}
          \/ ids = {} /\ \E s \in Shells : hands = {s}
      BY OneOfTwo
    <2> HIDE DEF ids, hands
    <2>2. Cardinality({}) = 0 /\ \A x : Cardinality({x}) = 1
      BY FS_EmptySet, FS_Singleton
    <2>3. \/ Cardinality(hands) = 0 /\ Cardinality(ids) = 1
          \/ Cardinality(ids) = 0 /\ Cardinality(hands) = 1
      BY <2>1, <2>2, Zenon
    <2>4. Cardinality(ids) + Cardinality(hands) = 1
      BY <2>3
    <2> QED BY <2>4 DEF ids, hands
  <1> QED BY <1>1, MapAlways, PTL

(* What a record has found stays what everybody finds.                     *)
THEOREM FoundStaysCurrent == Spec => []FoundIsCurrent
PROOF
  <1>1. MapInv => FoundIsCurrent
    BY DEF MapInv, FoundInv, FoundIsCurrent
  <1> QED BY <1>1, MapAlways, PTL
=============================================================================
