--------------------------- MODULE ReportSdrProofs ---------------------------
(***************************************************************************)
(* Theorems about ReportSdr, for any number of runs, command lines, SDRs   *)
(* and failures: what a killed run leaves behind stops nobody, runs do not *)
(* stop each other all at once, and a database has every sensor once.      *)
(***************************************************************************)
EXTENDS ReportSdr, TLAPS

-----------------------------------------------------------------------------
(* What the command line says does not change.                             *)

LEMMA ArgsKept ==
  ASSUME args' = args, NEW p
  PROVE  /\ Host(p)' = Host(p)
         /\ ArgsValid(p)' = ArgsValid(p)
         /\ ReachesCache(p)' = ReachesCache(p)
         /\ \A key : Given(p, key)' = Given(p, key)
PROOF BY DEF Host, ArgsValid, ReachesCache, Given, Option

(* A switch is not taken for the value of another one.                     *)
LEMMA OptionNotDashed ==
  ASSUME NEW p, NEW key, Given(p, key)
  PROVE  Option(p, key) \notin Dashed
PROOF BY DashedAssumption DEF Given, Option, ParseArgs, SelectInSeq

(* A switch with a value is given.                                         *)
LEMMA WantedGiven ==
  ASSUME NEW p, args[p] \in Seq(STRING), NEW switch \in Dashed, Wanted(p, switch)
  PROVE  Given(p, switch)
PROOF
  <1>1. PICK j \in 1 .. Len(args[p]) : args[p][j] = switch
    BY DEF Wanted, SelectInSeq
  <1>2. switch \in ToSet(args[p])
    BY <1>1 DEF ToSet
  <1> QED BY <1>2 DEF Given, ParseArgs

-----------------------------------------------------------------------------
(* The types.                                                              *)

LEMMA Went ==
  ASSUME TypeOK, NEW p \in Runs, NEW step, Goto(p, step)
  PROVE  pc'[p] = step /\ \A q \in Runs \ {p} : pc'[q] = pc[q]
PROOF BY DEF TypeOK, Goto

(* A step of a run leaves what belongs to the other runs alone.            *)
LEMMA OthersKept ==
  ASSUME TypeOK, NEW p \in Runs, Step(p) \/ Kill(p), NEW q \in Runs \ {p}
  PROVE  /\ pc'[q] = pc[q] /\ opened'[q] = opened[q]
         /\ frus'[q] = frus[q] /\ todo'[q] = todo[q]
         /\ orphans'[q] = orphans[q] /\ attached'[q] = attached[q]
         /\ report'[q] = report[q] /\ db'[q] = db[q]
         /\ args' = args
PROOF
  <1>1. /\ DOMAIN pc = Runs /\ DOMAIN opened = Runs /\ DOMAIN frus = Runs
        /\ DOMAIN todo = Runs /\ DOMAIN orphans = Runs /\ DOMAIN attached = Runs
        /\ DOMAIN report = Runs /\ DOMAIN db = Runs
    BY DEF TypeOK
  <1> HIDE DEF TypeOK
  <1> USE <1>1 DEF Goto, Throw, Open, lists, files
  <1>2. CASE IpmiInit(p) \/ IpmiConnect(p) \/ Kill(p)
    BY <1>2 DEF IpmiInit, IpmiConnect, Kill
  <1>3. CASE OpenCache(p) \/ ReopenCache(p)
    BY <1>3 DEF OpenCache, ReopenCache
  <1>4. CASE DeleteCache(p) \/ CreateCache(p) \/ WriteCache(p)
    BY <1>4 DEF DeleteCache, CreateCache, WriteCache
  <1>5. CASE IpmiParseSdr(p)
    BY <1>5 DEF IpmiParseSdr, ParseSdr
  <1>6. CASE ParseAssociations(p)
    BY <1>6 DEF ParseAssociations
  <1>7. CASE WriteReport(p) \/ WriteDb(p)
    BY <1>7 DEF WriteReport, WriteDb
  <1> QED BY <1>2, <1>3, <1>4, <1>5, <1>6, <1>7 DEF Step

LEMMA TypeInit == Init => TypeOK
PROOF
  <1> SUFFICES ASSUME Init PROVE TypeOK
    OBVIOUS
  <1>1. cache \in Files \union {NoFile}
    BY DEF Init
  <1>2. faults \in 0 .. MaxFaults
    BY FaultsAssumption DEF Init
  <1>3. pc \in [Runs -> Steps]
    BY DEF Init, Steps
  <1> QED BY <1>1, <1>2, <1>3 DEF Init, TypeOK

(* The objects that are made of an SDR, whatever garbage is in them.       *)
LEMMA ObjectsTyped ==
  ASSUME NEW h \in Hosts, NEW kind,
         NEW garbage \in [Undecodable(Content[h]) -> Garbage]
  PROVE  Objects(Content[h], kind, garbage) \subseteq Made
PROOF
  <1>1. ASSUME NEW i \in DOMAIN Content[h]
        PROVE  Decode(Content[h], garbage, i) \in Made
    <2>1. Content[h] \in Seq(SdrRecords)
      BY ContentAssumption
    <2>2. i \in Nat /\ Content[h][i] \in SdrRecords
      BY <2>1
    <2>3. CASE i \in Undecodable(Content[h])
      <3>1. garbage[i] \in [id : Bytes, instance : Bytes, fan : BOOLEAN]
        BY <2>3, GarbageAssumption
      <3>2. <<>> \in Seq(STRING)
        OBVIOUS
      <3> QED BY <2>2, <2>3, <3>1, <3>2 DEF Decode, Made
    <2>4. CASE i \notin Undecodable(Content[h])
      BY <2>2, <2>4 DEF Decode, Made, SdrRecords
    <2> QED BY <2>3, <2>4
  <1>2. TakenFor(Content[h], kind) \subseteq DOMAIN Content[h]
    BY DEF TakenFor
  <1> QED BY <1>1, <1>2 DEF Objects

(* Steps that do not touch the lists.                                      *)
LEMMA TypeKept ==
  ASSUME TypeOK, UNCHANGED <<args, lists, files>>,
         pc' \in [Runs -> Steps], cache' \in Files \union {NoFile},
         opened' \in [Runs -> Hosts \union {NoFile}],
         disturbed' \in [Runs -> BOOLEAN], faults' \in 0 .. MaxFaults
  PROVE  TypeOK'
PROOF BY DEF TypeOK, lists, files

LEMMA Counted ==
  ASSUME TypeOK, NEW p \in Runs, Fault(p) \/ NoFault
  PROVE  disturbed' \in [Runs -> BOOLEAN] /\ faults' \in 0 .. MaxFaults
PROOF
  <1>1. disturbed \in [Runs -> BOOLEAN] /\ faults \in 0 .. MaxFaults
    BY DEF TypeOK
  <1>2. CASE Fault(p)
    <2>1. disturbed' \in [Runs -> BOOLEAN]
      BY <1>1, <1>2, Zenon DEF Fault
    <2>2. faults' \in 0 .. MaxFaults
      BY <1>1, <1>2, FaultsAssumption DEF Fault
    <2> QED BY <2>1, <2>2
  <1>3. CASE NoFault
    BY <1>1, <1>3, Zenon DEF NoFault
  <1> QED BY <1>2, <1>3

(* The cache of a run that is at it is of a host that can be reached.      *)
LEMMA TypeCacheStep ==
  ASSUME TypeOK, NEW p \in Runs,
         OpenCache(p) \/ DeleteCache(p) \/ CreateCache(p) \/ WriteCache(p) \/ ReopenCache(p),
         pc[p] \in CacheSteps => Host(p) \in Hosts
  PROVE  TypeOK'
PROOF
  <1> USE DEF Goto, Throw
  <1>1. \A step \in Steps : [pc EXCEPT ![p] = step] \in [Runs -> Steps]
    BY DEF TypeOK
  <1>2. {"parse", "failed", "delete", "create", "write", "reopen"} \subseteq Steps
        /\ {"open", "delete", "create", "write", "reopen"} \subseteq CacheSteps
    BY DEF Steps, CacheSteps
  <1>3. \A step \in {"parse", "failed", "delete", "create", "write", "reopen"} :
           Goto(p, step) => pc' \in [Runs -> Steps]
    BY <1>1, <1>2
  <1>4. DisturbedBy(p) \in [Runs -> BOOLEAN]
        /\ [DisturbedBy(p) EXCEPT ![p] = TRUE] \in [Runs -> BOOLEAN]
    BY DEF DisturbedBy, TypeOK
  <1>5. cache # NoFile => cache \in Files
    BY DEF TypeOK
  <1>6. CASE OpenCache(p) \/ ReopenCache(p)
    <2>1. pc' \in [Runs -> Steps]
      BY <1>3, <1>6 DEF OpenCache, ReopenCache, Open
    <2>2. opened' \in [Runs -> Hosts \union {NoFile}]
      BY <1>5, <1>6 DEF OpenCache, ReopenCache, Open, OpenError, TypeOK, Files
    <2>3. disturbed' \in [Runs -> BOOLEAN] /\ faults' \in 0 .. MaxFaults
      BY <1>6, Counted DEF OpenCache, ReopenCache, Open
    <2> QED BY <1>6, <2>1, <2>2, <2>3, TypeKept DEF OpenCache, ReopenCache, TypeOK
  <1>7. CASE DeleteCache(p)
    <2>1. disturbed' \in [Runs -> BOOLEAN] /\ faults' \in 0 .. MaxFaults
      BY <1>4, <1>7, Counted DEF DeleteCache, ChangeCache, TypeOK
    <2>2. cache' \in Files \union {NoFile}
      BY <1>7 DEF DeleteCache, ChangeCache, TypeOK
    <2> QED BY <1>3, <1>7, <2>1, <2>2, TypeKept DEF DeleteCache, TypeOK
  <1>8. CASE CreateCache(p)
    <2>1. [of |-> Host(p), by |-> p, whole |-> FALSE] \in Files
      BY <1>2, <1>8 DEF CreateCache, Files
    <2> QED BY <1>3, <1>4, <1>8, <2>1, TypeKept DEF CreateCache, ChangeCache, TypeOK
  <1>9. CASE WriteCache(p)
    <2>1. cache # NoFile => [cache EXCEPT !.whole = TRUE] \in Files
      BY <1>5 DEF Files
    <2>2. cache' \in Files \union {NoFile}
      BY <1>9, <2>1 DEF WriteCache, OwnFile, ChangeCache, TypeOK
    <2>3. disturbed' \in [Runs -> BOOLEAN]
      BY <1>4, <1>9, Counted DEF WriteCache, ChangeCache
    <2>4. faults' \in 0 .. MaxFaults
      BY <1>9, Counted, FaultsAssumption DEF WriteCache, TypeOK
    <2> QED BY <1>3, <1>9, <2>2, <2>3, <2>4, TypeKept DEF WriteCache, TypeOK
  <1> QED BY <1>6, <1>7, <1>8, <1>9

LEMMA TypeListStep ==
  ASSUME TypeOK, NEW p \in Runs, IpmiParseSdr(p) \/ ParseAssociations(p),
         pc[p] = "parse" => opened[p] \in Hosts
  PROVE  TypeOK'
PROOF
  <1> USE DEF Goto, Throw
  <1>1. CASE IpmiParseSdr(p) /\ Throw(p)
    <2>1. pc' \in [Runs -> Steps]
      BY <1>1 DEF TypeOK, Steps
    <2>2. disturbed' \in [Runs -> BOOLEAN] /\ faults' \in 0 .. MaxFaults
      BY <1>1, Counted DEF IpmiParseSdr
    <2>3. pc' = [pc EXCEPT ![p] = "failed"]
      BY <1>1
    <2>4. pc'[p] = "failed"
      BY <2>3 DEF TypeOK
    <2>5. UNCHANGED <<args, cache, opened, lists, files>>
      BY <1>1, <2>4 DEF IpmiParseSdr, TypeOK
    <2> QED BY <2>1, <2>2, <2>5, TypeKept DEF TypeOK
  <1>2. CASE IpmiParseSdr(p) /\ Goto(p, "associate") /\ ParseSdr(p) /\ NoFault
    <2>1. pc' \in [Runs -> Steps]
      BY <1>2 DEF TypeOK, Steps
    <2>2. opened[p] \in Hosts
      BY <1>2 DEF IpmiParseSdr
    <2>3. PICK garbage \in [Undecodable(Content[opened[p]]) -> Garbage] :
            /\ frus' = [frus EXCEPT ![p] = Objects(Content[opened[p]], "fru", garbage)]
            /\ todo' = [todo EXCEPT ![p] = Objects(Content[opened[p]], "fru", garbage)]
            /\ orphans' = [orphans EXCEPT ![p] =
                              Objects(Content[opened[p]], "full", garbage)
                              \union Objects(Content[opened[p]], "compact", garbage)]
            /\ UNCHANGED attached
      BY <1>2 DEF ParseSdr
    <2>4. \A kind : Objects(Content[opened[p]], kind, garbage) \in SUBSET Made
      BY <2>2, ObjectsTyped
    <2>5. /\ frus' \in [Runs -> SUBSET Made] /\ todo' \in [Runs -> SUBSET Made]
          /\ orphans' \in [Runs -> SUBSET Made]
          /\ \A q \in Runs : todo'[q] \subseteq frus'[q]
      BY <2>3, <2>4 DEF TypeOK
    <2> QED BY <1>2, <2>1, <2>3, <2>5 DEF IpmiParseSdr, NoFault, files, TypeOK
  <1>3. CASE ParseAssociations(p)
    <2>1. PICK f \in todo[p] :
            /\ attached' = [attached EXCEPT ![p] = @ \union
                  {[fru |-> f, sensor |-> s] : s \in {o \in orphans[p] : Belongs(f, o)}}]
            /\ orphans' = [orphans EXCEPT ![p] = Without(@, f)]
            /\ todo' = [todo EXCEPT ![p] = @ \ {f}]
      BY <1>3 DEF ParseAssociations
    <2>2. f \in Made /\ orphans[p] \subseteq Made
      BY DEF TypeOK
    <2>3. {[fru |-> f, sensor |-> s] : s \in {o \in orphans[p] : Belongs(f, o)}}
             \subseteq [fru : Made, sensor : Made]
      BY <2>2
    <2>4. attached' \in [Runs -> SUBSET [fru : Made, sensor : Made]]
      BY <2>1, <2>3 DEF TypeOK
    <2>5. /\ orphans' \in [Runs -> SUBSET Made] /\ todo' \in [Runs -> SUBSET Made]
          /\ \A q \in Runs : todo'[q] \subseteq frus[q]
      BY <2>1 DEF TypeOK, Without
    <2> QED BY <1>3, <2>4, <2>5 DEF ParseAssociations, NoFault, files, TypeOK
  <1> QED BY <1>1, <1>2, <1>3 DEF IpmiParseSdr

LEMMA TypeOtherStep ==
  ASSUME TypeOK, NEW p \in Runs,
         IpmiInit(p) \/ IpmiConnect(p) \/ WriteReport(p) \/ WriteDb(p) \/ Kill(p)
  PROVE  TypeOK'
PROOF
  <1> USE DEF Goto, Throw
  <1>1. pc' \in [Runs -> Steps]
    BY DEF TypeOK, Steps, CacheSteps, IpmiInit, IpmiConnect, WriteReport, WriteDb, Kill
  <1>2. disturbed' \in [Runs -> BOOLEAN] /\ faults' \in 0 .. MaxFaults
    BY Counted DEF IpmiInit, IpmiConnect, WriteReport, WriteDb, Kill
  <1>3. CASE IpmiInit(p) \/ IpmiConnect(p) \/ Kill(p)
    BY <1>1, <1>2, <1>3, TypeKept DEF IpmiInit, IpmiConnect, Kill, TypeOK
  <1>4. CASE WriteReport(p)
    <2>1. report' = report \/ \E h :
             /\ Option(p, "--create-report-file") \notin Dashed
             /\ report' = [report EXCEPT ![p] =
                  {[name |-> Option(p, "--create-report-file"), of |-> h]}]
      BY <1>4, OptionNotDashed DEF WriteReport
    <2>2. /\ DOMAIN report' = Runs
          /\ \A q \in Runs : \A file \in report'[q] : file.name \notin Dashed
      BY <2>1 DEF TypeOK
    <2> QED BY <1>1, <1>2, <1>4, <2>2 DEF WriteReport, lists, TypeOK
  <1>5. CASE WriteDb(p)
    <2>1. db' = db \/ \E records :
             /\ Option(p, "--create-db-file") \notin Dashed
             /\ db' = [db EXCEPT ![p] =
                  {[name |-> Option(p, "--create-db-file"), records |-> records]}]
      BY <1>5, OptionNotDashed DEF WriteDb
    <2>2. /\ DOMAIN db' = Runs
          /\ \A q \in Runs : \A file \in db'[q] : file.name \notin Dashed
      BY <2>1 DEF TypeOK
    <2> QED BY <1>1, <1>2, <1>5, <2>2 DEF WriteDb, lists, TypeOK
  <1> QED BY <1>3, <1>4, <1>5

-----------------------------------------------------------------------------
(* How far a run is tells what its command line says and what it has read. *)

Stage(p) ==
    /\ pc[p] = "connect" => ArgsValid(p) /\ ~Given(p, "--help")
    /\ pc[p] \in CacheSteps => ReachesCache(p)
    /\ opened[p] # NoFile => opened[p] = Host(p) /\ ReachesCache(p)
    /\ pc[p] \in {"parse", "associate", "db"} => opened[p] # NoFile
    /\ pc[p] = "done" => Given(p, "--help") \/ opened[p] # NoFile

StageInv == TypeOK /\ \A p \in Runs : Stage(p)

LEMMA StageOthers ==
  ASSUME StageInv, NEW p \in Runs, Step(p) \/ Kill(p), NEW q \in Runs \ {p}
  PROVE  Stage(q)'
PROOF
  <1>1. pc'[q] = pc[q] /\ opened'[q] = opened[q] /\ args' = args
    BY OthersKept DEF StageInv
  <1> QED BY <1>1, ArgsKept DEF StageInv, Stage

LEMMA StageStep ==
  ASSUME StageInv, NEW p \in Runs, Step(p) \/ Kill(p)
  PROVE  Stage(p)'
PROOF
  <1>0. TypeOK /\ Stage(p) /\ args' = args
    BY DEF StageInv, Step, Kill, IpmiInit, IpmiConnect, OpenCache, DeleteCache, CreateCache,
           WriteCache, ReopenCache, IpmiParseSdr, ParseAssociations, WriteReport, WriteDb
  <1>1. /\ Host(p)' = Host(p) /\ ArgsValid(p)' = ArgsValid(p)
        /\ ReachesCache(p)' = ReachesCache(p)
        /\ Given(p, "--help")' = Given(p, "--help")
    BY <1>0, ArgsKept
  <1>2. \A step : Goto(p, step) => pc'[p] = step
    BY <1>0, Went
  <1>3. Throw(p) => pc'[p] = "failed"
    BY <1>0 DEF Throw, TypeOK
  <1> USE <1>0, <1>1, <1>2, <1>3 DEF Stage, CacheSteps
  <1>4. CASE IpmiInit(p)
    BY <1>4 DEF IpmiInit
  <1>5. CASE IpmiConnect(p)
    BY <1>5 DEF IpmiConnect, ReachesCache
  <1>6. CASE OpenCache(p) \/ ReopenCache(p)
    <2>1. ReachesCache(p)
      BY <1>6 DEF OpenCache, ReopenCache
    <2>2. CASE Open(p)
      <3>1. opened'[p] = Host(p) /\ Host(p) \in Hosts /\ pc'[p] = "parse"
        BY <2>1, <2>2 DEF Open, OpenError, TypeOK, ReachesCache
      <3> QED BY <2>1, <3>1, NoFileAssumption
    <2>3. CASE UNCHANGED opened /\ pc'[p] \in {"failed", "delete", "create"}
      BY <2>1, <2>3
    <2> QED BY <1>6, <2>2, <2>3 DEF OpenCache, ReopenCache
  <1>7. CASE DeleteCache(p) \/ CreateCache(p) \/ WriteCache(p)
    BY <1>7 DEF DeleteCache, CreateCache, WriteCache
  <1>8. CASE IpmiParseSdr(p) \/ WriteReport(p) \/ WriteDb(p) \/ Kill(p)
    BY <1>8 DEF IpmiParseSdr, WriteReport, WriteDb, Kill
  <1>9. CASE ParseAssociations(p)
    BY <1>9 DEF ParseAssociations
  <1> QED BY <1>4, <1>5, <1>6, <1>7, <1>8, <1>9 DEF Step

LEMMA StageInit == Init => StageInv
PROOF
  <1> SUFFICES ASSUME Init PROVE StageInv
    OBVIOUS
  <1>1. \A p \in Runs : pc[p] = "init" /\ opened[p] = NoFile
    BY DEF Init
  <1> QED BY <1>1, TypeInit DEF StageInv, Stage, CacheSteps

LEMMA StageNext == StageInv /\ [Next]_vars => StageInv'
PROOF
  <1> SUFFICES ASSUME StageInv, [Next]_vars PROVE StageInv'
    OBVIOUS
  <1>1. CASE UNCHANGED vars
    BY <1>1, ArgsKept DEF vars, lists, files, StageInv, Stage, TypeOK
  <1>2. ASSUME NEW p \in Runs, Step(p) \/ Kill(p) PROVE StageInv'
    <2>1. TypeOK'
      <3>1. TypeOK /\ Stage(p)
        BY DEF StageInv
      <3>2. pc[p] \in CacheSteps => Host(p) \in Hosts
        BY <3>1 DEF Stage, ReachesCache
      <3>3. pc[p] = "parse" => opened[p] \in Hosts
        BY <3>1 DEF Stage, ReachesCache
      <3> QED BY <1>2, <3>1, <3>2, <3>3, TypeCacheStep, TypeListStep, TypeOtherStep DEF Step
    <2> QED BY <1>2, <2>1, StageStep, StageOthers DEF StageInv
  <1> QED BY <1>1, <1>2 DEF Next

(* Everything stays within its type: what is made of a record fits into    *)
(* the bytes of a link, garbage included, and no file is given the name of *)
(* a switch.                                                               *)
THEOREM TypeCorrect == Spec => []TypeOK
PROOF
  <1>1. StageInv => TypeOK
    BY DEF StageInv
  <1> QED BY <1>1, StageInit, StageNext, PTL DEF Spec

-----------------------------------------------------------------------------
(* A run that nobody disturbs finds the cache as it has left it.           *)

Undisturbed(p) ==
    ~disturbed[p] =>
        /\ pc[p] = "create" => cache = NoFile
        /\ pc[p] = "write" => cache = [of |-> Host(p), by |-> p, whole |-> FALSE]
        /\ pc[p] = "reopen" => cache # NoFile /\ cache.of = Host(p) /\ cache.whole

UndisturbedInv == \A p \in Runs : Undisturbed(p)

(* A run tells that it changes the cache, or leaves it alone.              *)
LEMMA ChangesTold ==
  ASSUME TypeOK, NEW p \in Runs, Step(p) \/ Kill(p), NEW q \in Runs \ {p}
  PROVE  \/ disturbed'[q] = disturbed[q] /\ cache' = cache
         \/ disturbed'[q] = (disturbed[q] \/ pc[q] \in CacheSteps)
PROOF
  <1>1. disturbed \in [Runs -> BOOLEAN]
    BY DEF TypeOK
  <1>2. /\ DisturbedBy(p)[q] = (disturbed[q] \/ pc[q] \in CacheSteps)
        /\ [DisturbedBy(p) EXCEPT ![p] = TRUE][q] = DisturbedBy(p)[q]
    BY DEF DisturbedBy
  <1>3. Fault(p) \/ NoFault => disturbed'[q] = disturbed[q]
    <2>1. CASE Fault(p)
      BY <1>1, <2>1, Zenon DEF Fault
    <2>2. CASE NoFault
      BY <2>2, Zenon DEF NoFault
    <2> QED BY <2>1, <2>2
  <1>4. CASE DeleteCache(p) \/ CreateCache(p) \/ WriteCache(p)
    BY <1>2, <1>3, <1>4 DEF DeleteCache, CreateCache, WriteCache, ChangeCache
  <1>5. CASE IpmiInit(p) \/ IpmiConnect(p) \/ OpenCache(p) \/ ReopenCache(p)
    BY <1>3, <1>5 DEF IpmiInit, IpmiConnect, OpenCache, ReopenCache, Open
  <1>6. CASE IpmiParseSdr(p) \/ ParseAssociations(p) \/ WriteReport(p) \/ WriteDb(p) \/ Kill(p)
    BY <1>3, <1>6 DEF IpmiParseSdr, ParseAssociations, WriteReport, WriteDb, Kill
  <1> QED BY <1>4, <1>5, <1>6 DEF Step

LEMMA UndisturbedOthers ==
  ASSUME StageInv, UndisturbedInv, NEW p \in Runs, Step(p) \/ Kill(p), NEW q \in Runs \ {p}
  PROVE  Undisturbed(q)'
PROOF
  <1>1. TypeOK /\ Undisturbed(q)
    BY DEF StageInv, UndisturbedInv
  <1>2. pc'[q] = pc[q] /\ Host(q)' = Host(q)
    BY <1>1, OthersKept, ArgsKept
  <1>3. CASE disturbed'[q] = disturbed[q] /\ cache' = cache
    BY <1>1, <1>2, <1>3 DEF Undisturbed
  <1>4. CASE disturbed'[q] = (disturbed[q] \/ pc[q] \in CacheSteps)
    BY <1>1, <1>2, <1>4 DEF Undisturbed, CacheSteps
  <1> QED BY <1>1, <1>3, <1>4, ChangesTold

LEMMA FaultDisturbs ==
  ASSUME TypeOK, NEW p \in Runs, Fault(p)
  PROVE  disturbed'[p] = TRUE
PROOF
  <1>1. disturbed \in [Runs -> BOOLEAN]
    BY DEF TypeOK
  <1> QED BY <1>1, Zenon DEF Fault

LEMMA UndisturbedStep ==
  ASSUME StageInv, UndisturbedInv, NEW p \in Runs, Step(p) \/ Kill(p)
  PROVE  /\ Undisturbed(p)'
         /\ pc[p] \in CacheSteps /\ pc'[p] = "failed" => disturbed'[p]
PROOF
  <1>1. TypeOK /\ Undisturbed(p)
    BY DEF StageInv, UndisturbedInv
  <1>2. Host(p)' = Host(p)
    <2>1. args' = args
      BY DEF Step, Kill, IpmiInit, IpmiConnect, OpenCache, DeleteCache, CreateCache, WriteCache,
             ReopenCache, IpmiParseSdr, ParseAssociations, WriteReport, WriteDb
    <2> QED BY <2>1, ArgsKept
  <1>3. \A step : Goto(p, step) => pc'[p] = step
    BY <1>1, Went
  <1>4. Throw(p) => pc'[p] = "failed"
    BY <1>1 DEF Throw, TypeOK
  <1>5. Fault(p) => disturbed'[p] = TRUE
    BY <1>1, FaultDisturbs
  <1>6. NoFault => disturbed'[p] = disturbed[p]
    BY Zenon DEF NoFault
  <1>7. DisturbedBy(p)[p] = disturbed[p]
    BY <1>1 DEF DisturbedBy, TypeOK
  <1>8. cache # NoFile => cache \in Files
    BY <1>1 DEF TypeOK
  <1> USE <1>1, <1>2, <1>3, <1>4, <1>5, <1>6, <1>7, <1>8 DEF Undisturbed, CacheSteps
  <1>9. CASE OpenCache(p)
    BY <1>9 DEF OpenCache, Open, OpenError, DeletedFor
  <1>10. CASE DeleteCache(p)
    BY <1>10 DEF DeleteCache, ChangeCache
  <1>11. CASE CreateCache(p)
    BY <1>11 DEF CreateCache, ChangeCache
  <1>12. CASE WriteCache(p)
    <2>1. pc'[p] = "reopen" /\ pc[p] = "write"
      BY <1>12 DEF WriteCache
    <2>2. CASE disturbed'[p]
      BY <2>1, <2>2
    <2>3. CASE ~disturbed'[p]
      <3>1. \/ /\ OwnFile(p) /\ cache' = [cache EXCEPT !.whole = TRUE]
               /\ disturbed' = DisturbedBy(p)
            \/ ~OwnFile(p) /\ NoFault /\ UNCHANGED cache
        <4>1. [DisturbedBy(p) EXCEPT ![p] = TRUE][p] = TRUE
          BY DEF DisturbedBy
        <4> QED BY <1>12, <2>3, <4>1 DEF WriteCache, ChangeCache
      <3>2. cache = [of |-> Host(p), by |-> p, whole |-> FALSE] /\ cache # NoFile
        <4>1. [of |-> Host(p), by |-> p, whole |-> FALSE] \in Files
          BY <2>1 DEF Files, StageInv, Stage, ReachesCache
        <4> QED BY <2>1, <2>3, <3>1, <4>1, NoFileAssumption
      <3>3. cache' = [of |-> Host(p), by |-> p, whole |-> TRUE]
        BY <3>1, <3>2 DEF OwnFile
      <3>4. cache' \in Files
        BY <2>1, <3>3 DEF Files, StageInv, Stage, ReachesCache
      <3> QED BY <2>1, <3>3, <3>4, NoFileAssumption
    <2> QED BY <2>2, <2>3
  <1>13. CASE ReopenCache(p)
    BY <1>13 DEF ReopenCache, Open, OpenError
  <1>14. CASE IpmiInit(p) \/ IpmiConnect(p) \/ Kill(p)
    BY <1>14 DEF IpmiInit, IpmiConnect, Kill
  <1>15. CASE IpmiParseSdr(p) \/ WriteReport(p) \/ WriteDb(p)
    BY <1>15 DEF IpmiParseSdr, WriteReport, WriteDb
  <1>16. CASE ParseAssociations(p)
    BY <1>16 DEF ParseAssociations
  <1> QED BY <1>9, <1>10, <1>11, <1>12, <1>13, <1>14, <1>15, <1>16 DEF Step

LEMMA UndisturbedNext ==
  StageInv /\ UndisturbedInv /\ [Next]_vars =>
      /\ UndisturbedInv'
      /\ [\A p \in Runs : pc[p] \in CacheSteps /\ pc'[p] = "failed" => disturbed'[p]]_vars
PROOF
  <1> SUFFICES ASSUME StageInv, UndisturbedInv, [Next]_vars
               PROVE  /\ UndisturbedInv'
                      /\ [\A p \in Runs : pc[p] \in CacheSteps /\ pc'[p] = "failed"
                              => disturbed'[p]]_vars
    OBVIOUS
  <1>1. CASE UNCHANGED vars
    <2>1. UndisturbedInv'
      BY <1>1, ArgsKept DEF vars, UndisturbedInv, Undisturbed
    <2> QED BY <1>1, <2>1
  <1>2. ASSUME NEW p \in Runs, Step(p) \/ Kill(p)
        PROVE  /\ UndisturbedInv'
               /\ \A q \in Runs : pc[q] \in CacheSteps /\ pc'[q] = "failed" => disturbed'[q]
    <2>1. \A q \in Runs \ {p} : pc'[q] = pc[q]
      BY <1>2, OthersKept DEF StageInv
    <2> QED BY <1>2, <2>1, UndisturbedStep, UndisturbedOthers DEF UndisturbedInv, CacheSteps
  <1> QED BY <1>1, <1>2 DEF Next

(* A run gives up at the cache only if a call of its own fails or another  *)
(* run comes in between, whatever killed runs have left of the file.       *)
THEOREM LeftoverStopsNobody == Spec => LeftoverHarmless
PROOF
  <1>1. Init => UndisturbedInv
    BY DEF Init, UndisturbedInv, Undisturbed
  <1> QED BY <1>1, StageInit, StageNext, UndisturbedNext, PTL DEF Spec, LeftoverHarmless

-----------------------------------------------------------------------------
(* As long as no call fails, a file in place of the cache is of a run that *)
(* is about to read it or has done so, or it was left by an earlier run    *)
(* and is still to be looked at.                                           *)

FileOfRun ==
    cache # NoFile /\ cache.by # NoFile =>
        /\ ReachesCache(cache.by) /\ cache.of = Host(cache.by)
        /\ IF cache.whole THEN pc[cache.by] = "reopen" \/ opened[cache.by] # NoFile
           ELSE pc[cache.by] = "write"

FileOfEarlierRun ==
    cache # NoFile /\ cache.by = NoFile =>
        \A p \in Runs : pc[p] \notin {"create", "write", "reopen"}

BeforeCreate == {"init", "connect", "open", "delete", "create"}

(* A run that may still get through, or that has done so.                  *)
Hopeful(p) == ReachesCache(p) /\ (opened[p] # NoFile \/ pc[p] \in BeforeCreate)

HasFile == cache # NoFile /\ cache.by # NoFile

Hope == (\E p \in Runs : ReachesCache(p)) => HasFile \/ \E p \in Runs : Hopeful(p)

HopeInv == faults = 0 => FileOfRun /\ FileOfEarlierRun /\ Hope

LEMMA HopeInit == Init => HopeInv
PROOF
  <1> SUFFICES ASSUME Init PROVE HopeInv
    OBVIOUS
  <1>1. \A p \in Runs : pc[p] = "init"
    BY DEF Init
  <1>2. cache # NoFile => cache.by = NoFile
    BY DEF Init
  <1> QED BY <1>1, <1>2
          DEF HopeInv, FileOfRun, FileOfEarlierRun, Hope, Hopeful, BeforeCreate

(* Steps that leave the file as it is, of a run that may still get through *)
(* afterwards or could not do so before, and has not the file to complete. *)
LEMMA HopeKept ==
  ASSUME StageInv, HopeInv, NEW p \in Runs, Step(p) \/ Kill(p), cache' = cache,
         faults = 0, faults' = 0,
         ReachesCache(p) /\ pc[p] \in BeforeCreate =>
             opened'[p] # NoFile \/ pc'[p] \in BeforeCreate \/ HasFile,
         opened[p] # NoFile => opened'[p] # NoFile,
         cache # NoFile /\ cache.by = p =>
             \/ pc'[p] = pc[p] \/ pc[p] \notin {"write", "reopen"}
             \/ cache.whole /\ opened'[p] # NoFile,
         pc'[p] \in {"create", "write", "reopen"} =>
             pc[p] \in {"create", "write", "reopen"} \/ cache = NoFile \/ cache.by # NoFile
  PROVE  HopeInv'
PROOF
  <1>1. /\ TypeOK /\ args' = args
        /\ \A q \in Runs : ReachesCache(q)' = ReachesCache(q) /\ Host(q)' = Host(q)
    <2>1. args' = args
      BY DEF Step, Kill, IpmiInit, IpmiConnect, OpenCache, DeleteCache, CreateCache, WriteCache,
             ReopenCache, IpmiParseSdr, ParseAssociations, WriteReport, WriteDb
    <2> QED BY <2>1, ArgsKept DEF StageInv
  <1>2. \A q \in Runs \ {p} : pc'[q] = pc[q] /\ opened'[q] = opened[q]
    BY <1>1, OthersKept
  <1>3. FileOfRun /\ FileOfEarlierRun /\ Hope
    BY DEF HopeInv
  <1>4. cache # NoFile /\ cache.by # NoFile => cache.by \in Runs
    BY <1>1 DEF TypeOK, Files
  <1>5. FileOfRun'
    <2> SUFFICES ASSUME cache # NoFile, cache.by # NoFile
                 PROVE  /\ ReachesCache(cache.by)' /\ cache.of = Host(cache.by)'
                        /\ IF cache.whole
                           THEN pc'[cache.by] = "reopen" \/ opened'[cache.by] # NoFile
                           ELSE pc'[cache.by] = "write"
      BY DEF FileOfRun
    <2> QED BY <1>1, <1>2, <1>3, <1>4 DEF FileOfRun
  <1>6. FileOfEarlierRun'
    BY <1>2, <1>3 DEF FileOfEarlierRun
  <1>7. Hope'
    <2>1. HasFile' <=> HasFile
      BY DEF HasFile
    <2>2. ASSUME NEW q \in Runs, Hopeful(q)
          PROVE  Hopeful(q)' \/ HasFile'
      BY <1>1, <1>2, <2>1, <2>2 DEF Hopeful
    <2> QED BY <1>1, <1>3, <2>1, <2>2 DEF Hope
  <1> QED BY <1>5, <1>6, <1>7 DEF HopeInv

(* A run finds the file that it has written to be complete and its own.    *)
LEMMA HopeOfReader ==
  ASSUME FileOfRun, NEW p, p # NoFile, pc[p] = "reopen", cache # NoFile, cache.by = p
  PROVE  OpenError(p) = "none"
PROOF BY DEF FileOfRun, OpenError

LEMMA HopeStep ==
  ASSUME StageInv, HopeInv, NEW p \in Runs, Step(p) \/ Kill(p)
  PROVE  HopeInv'
PROOF
  <1> SUFFICES ASSUME faults' = 0 PROVE HopeInv'
    BY DEF HopeInv
  <1>1. TypeOK /\ Stage(p) /\ args' = args /\ (faults \in Nat)
    BY FaultsAssumption
       DEF StageInv, Step, Kill, IpmiInit, IpmiConnect, OpenCache, DeleteCache, CreateCache,
           WriteCache, ReopenCache, IpmiParseSdr, ParseAssociations, WriteReport, WriteDb, TypeOK
  <1>2. ~Fault(p) /\ (faults' # faults + 1)
    BY <1>1 DEF Fault
  <1>3. /\ \A step : Goto(p, step) => pc'[p] = step
        /\ Throw(p) => pc'[p] = "failed"
    BY <1>1, Went DEF Throw, TypeOK
  <1>4. ReachesCache(p)' = ReachesCache(p) /\ Host(p)' = Host(p)
    BY <1>1, ArgsKept
  <1>5. pc[p] \in CacheSteps => ReachesCache(p) /\ Host(p) \in Hosts /\ Host(p) # NoFile
    BY <1>1, NoFileAssumption DEF Stage, ReachesCache
  <1>6. p # NoFile
    BY NoFileAssumption
  <1>7. faults = 0 => FileOfRun /\ FileOfEarlierRun /\ Hope
    BY DEF HopeInv
  <1> USE <1>2, <1>3, <1>4, <1>5
  <1>8. CASE IpmiInit(p)
    <2>1. faults = 0 /\ cache' = cache /\ opened' = opened /\ pc[p] = "init"
          /\ pc'[p] \in {"done", "failed", "connect"}
          /\ (ReachesCache(p) => pc'[p] = "connect")
      BY <1>8 DEF IpmiInit, NoFault, ReachesCache
    <2> QED BY <2>1, HopeKept DEF BeforeCreate
  <1>9. CASE IpmiConnect(p)
    <2>1. faults = 0 /\ cache' = cache /\ opened' = opened /\ pc[p] = "connect"
          /\ pc'[p] \in {"failed", "open"}
          /\ (ReachesCache(p) => pc'[p] = "open")
      BY <1>9 DEF IpmiConnect, NoFault, ReachesCache
    <2> QED BY <2>1, HopeKept DEF BeforeCreate
  <1>10. CASE OpenCache(p)
    <2>1. faults = 0 /\ cache' = cache /\ pc[p] = "open"
      BY <1>10 DEF OpenCache, Open, NoFault
    <2>2. CASE Open(p)
      <3>1. opened'[p] # NoFile /\ pc'[p] = "parse"
        BY <1>1, <2>1, <2>2 DEF Open, OpenError, CacheSteps, TypeOK
      <3> QED BY <2>1, <3>1, HopeKept DEF BeforeCreate
    <2>3. CASE ~Open(p)
      <3>1. opened' = opened /\ pc'[p] \in {"delete", "create"}
            /\ (pc'[p] = "create" => cache = NoFile)
        BY <1>10, <2>3 DEF OpenCache, OpenError, DeletedFor
      <3> QED BY <2>1, <3>1, HopeKept DEF BeforeCreate
    <2> QED BY <2>2, <2>3
  <1>11. CASE DeleteCache(p)
    <2>1. faults = 0 /\ cache' = NoFile /\ pc'[p] = "create" /\ ReachesCache(p)'
      BY <1>11 DEF DeleteCache, ChangeCache, CacheSteps
    <2>2. Hope'
      BY <2>1 DEF Hope, Hopeful, BeforeCreate
    <2> QED BY <2>1, <2>2 DEF HopeInv, FileOfRun, FileOfEarlierRun
  <1>12. CASE CreateCache(p)
    <2>1. faults = 0 /\ pc[p] = "create" /\ ReachesCache(p)
      BY <1>12 DEF CreateCache, CacheSteps
    <2>2. CASE cache = NoFile
      <3>1. cache' = [of |-> Host(p), by |-> p, whole |-> FALSE] /\ pc'[p] = "write"
        BY <1>12, <2>2 DEF CreateCache, ChangeCache
      <3>2. Host(p) \in Hosts
        BY <2>1 DEF CacheSteps
      <3>3. cache' \in Files
        BY <3>1, <3>2 DEF Files
      <3>4. cache' # NoFile
        BY <3>3, NoFileAssumption
      <3> QED BY <1>6, <2>1, <3>1, <3>4
              DEF HopeInv, FileOfRun, FileOfEarlierRun, Hope, HasFile
    <2>3. CASE cache # NoFile
      <3>1. cache' = cache /\ opened' = opened /\ pc'[p] = "reopen"
        BY <1>12, <2>3 DEF CreateCache
      <3>2. HasFile
        BY <1>7, <2>1, <2>3 DEF FileOfEarlierRun, HasFile
      <3> QED BY <2>1, <3>1, <3>2, HopeKept DEF HasFile
    <2> QED BY <2>2, <2>3
  <1>13. CASE WriteCache(p)
    <2>1. pc[p] = "write" /\ pc'[p] = "reopen" /\ ReachesCache(p) /\ opened' = opened
      BY <1>13 DEF WriteCache, CacheSteps
    <2>2. CASE OwnFile(p)
      <3>1. faults = 0 /\ cache' = [cache EXCEPT !.whole = TRUE]
        BY <1>13, <2>2 DEF WriteCache, ChangeCache
      <3>2. cache \in Files /\ cache.by = p
        BY <1>1, <2>2 DEF OwnFile, TypeOK
      <3>3. cache' \in Files /\ cache'.by = p /\ cache'.of = cache.of /\ cache'.whole
        BY <3>1, <3>2 DEF Files
      <3>4. cache' # NoFile /\ cache.of = Host(p)
        BY <1>6, <1>7, <3>1, <3>2, <3>3, NoFileAssumption DEF FileOfRun
      <3> QED BY <1>6, <2>1, <3>3, <3>4
              DEF HopeInv, FileOfRun, FileOfEarlierRun, Hope, HasFile
    <2>3. CASE ~OwnFile(p)
      <3>1. faults = 0 /\ cache' = cache
        BY <1>13, <2>3 DEF WriteCache, NoFault
      <3> QED BY <2>1, <2>3, <3>1, HopeKept DEF OwnFile, BeforeCreate
    <2> QED BY <2>2, <2>3
  <1>14. CASE ReopenCache(p)
    <2>1. faults = 0 /\ cache' = cache /\ pc[p] = "reopen"
      BY <1>14 DEF ReopenCache, Open, NoFault
    <2>2. CASE Open(p)
      <3>1. /\ opened'[p] # NoFile /\ pc'[p] = "parse"
            /\ cache # NoFile /\ cache.whole
        BY <1>1, <2>1, <2>2 DEF Open, OpenError, CacheSteps, TypeOK
      <3> QED BY <2>1, <3>1, HopeKept DEF BeforeCreate
    <2>3. CASE ~Open(p)
      <3>1. opened' = opened /\ pc'[p] = "failed" /\ OpenError(p) # "none"
        BY <1>14, <2>3 DEF ReopenCache
      <3>2. ~(cache # NoFile /\ cache.by = p)
        BY <1>6, <1>7, <2>1, <3>1, HopeOfReader
      <3> QED BY <2>1, <3>1, <3>2, HopeKept DEF BeforeCreate
    <2> QED BY <2>2, <2>3
  <1>15. CASE IpmiParseSdr(p) \/ WriteReport(p) \/ WriteDb(p)
    <2>1. faults = 0 /\ cache' = cache /\ opened' = opened
          /\ pc[p] \in {"parse", "associate", "db"}
          /\ pc'[p] \in {"associate", "db", "done"}
      BY <1>15 DEF IpmiParseSdr, WriteReport, WriteDb, NoFault
    <2> QED BY <2>1, HopeKept DEF BeforeCreate
  <1>16. CASE ParseAssociations(p)
    <2>1. faults = 0 /\ cache' = cache /\ opened' = opened /\ pc' = pc
          /\ pc[p] = "associate"
      BY <1>16 DEF ParseAssociations, NoFault
    <2> QED BY <2>1, HopeKept DEF BeforeCreate
  <1>17. ~Kill(p)
    BY DEF Kill
  <1> QED BY <1>8, <1>9, <1>10, <1>11, <1>12, <1>13, <1>14, <1>15, <1>16, <1>17 DEF Step

LEMMA HopeNext == StageInv /\ HopeInv /\ [Next]_vars => HopeInv'
PROOF
  <1>1. ASSUME HopeInv, UNCHANGED vars PROVE HopeInv'
    BY <1>1, ArgsKept
       DEF vars, lists, files, HopeInv, FileOfRun, FileOfEarlierRun, Hope, Hopeful, HasFile
  <1> QED BY <1>1, HopeStep DEF Next

(* Runs that delete and replace each other's caches do not all give up: if *)
(* no call fails, one of those that come to the cache gets through.        *)
THEOREM OneRunGetsThrough == Spec => []SomeRunGetsThrough
PROOF
  <1>1. ASSUME StageInv, HopeInv PROVE SomeRunGetsThrough
    <2> SUFFICES ASSUME \A p \in Runs : Ended(p), faults = 0,
                        NEW p \in Runs, ReachesCache(p)
                 PROVE  \E q \in Runs : ReachesCache(q) /\ opened[q] # NoFile
      BY DEF SomeRunGetsThrough
    <2>1. FileOfRun /\ Hope
      BY <1>1 DEF HopeInv
    <2>2. CASE HasFile
      <3>1. cache.by \in Runs
        BY <1>1, <2>2 DEF HasFile, StageInv, TypeOK, Files
      <3> QED BY <2>1, <2>2, <3>1 DEF HasFile, FileOfRun, Ended
    <2>3. ASSUME NEW q \in Runs, Hopeful(q)
          PROVE  ReachesCache(q) /\ opened[q] # NoFile
      BY <2>3 DEF Hopeful, Ended, BeforeCreate
    <2> QED BY <2>1, <2>2, <2>3 DEF Hope
  <1> QED BY <1>1, HopeInit, HopeNext, StageInit, StageNext, PTL DEF Spec

-----------------------------------------------------------------------------
(* The lists.  While the FRUs take their sensors, one after the other, a   *)
(* sensor is in one place: under the first of the FRUs so far that it      *)
(* belongs to, or still in orphandList.                                    *)

Sensor(h, i) ==
    [record |-> i, id |-> Content[h][i].id, instance |-> Content[h][i].instance,
     fan |-> Content[h][i].fan, text |-> Content[h][i].text]

Owners(p, s) == {f \in frus[p] \ todo[p] : Belongs(f, s)}

Placed(p, s) ==
    IF Owners(p, s) = {}
    THEN s \in orphans[p] /\ \A a \in attached[p] : a.sensor # s
    ELSE /\ s \notin orphans[p]
         /\ \E a \in attached[p] :
               /\ a.sensor = s /\ a.fru \in Owners(p, s)
               /\ \A g \in Owners(p, s) : a.fru.record <= g.record
               /\ \A b \in attached[p] : b.sensor = s => b = a

Genuine(p, s) ==
    s.record \in SensorRecords(opened[p]) => s = Sensor(opened[p], s.record)

ListsOk(p) ==
    /\ \A s \in orphans[p] : Genuine(p, s)
    /\ \A a \in attached[p] : Genuine(p, a.sensor)
    /\ \A i \in SensorRecords(opened[p]) : Placed(p, Sensor(opened[p], i))
    /\ \A f \in frus[p] \ todo[p], g \in todo[p] : f.record <= g.record

HasDb(p) == Given(p, "--create-db-file") => db[p] # {}

Written(p) ==
    /\ pc[p] = "init" => opened[p] = NoFile
    /\ pc[p] \in {"init", "connect", "parse"} \union CacheSteps => attached[p] = {}
    /\ pc[p] \in {"associate", "db", "done"} /\ opened[p] # NoFile => ListsOk(p)
    /\ pc[p] \in {"db", "done"} /\ opened[p] # NoFile => todo[p] = {}
    /\ pc[p] = "done" /\ opened[p] # NoFile => HasDb(p)
    /\ db[p] # {} => pc[p] = "done" /\ opened[p] # NoFile
    /\ \A file \in db[p] : file.records = DbRecords(p)

WrittenInv == \A p \in Runs : Written(p)

LEMMA WrittenInit == Init => WrittenInv
PROOF BY DEF Init, WrittenInv, Written, CacheSteps

(* What a sensor belongs to, is found under and is written as depends on   *)
(* the run alone.                                                          *)
LEMMA ListsKept ==
  ASSUME NEW p, ListsOk(p), opened'[p] = opened[p], frus'[p] = frus[p], todo'[p] = todo[p],
         orphans'[p] = orphans[p], attached'[p] = attached[p]
  PROVE  ListsOk(p)'
PROOF BY DEF ListsOk, Genuine, Placed, Owners

LEMMA WrittenOthers ==
  ASSUME StageInv, WrittenInv, NEW p \in Runs, Step(p) \/ Kill(p), NEW q \in Runs \ {p}
  PROVE  Written(q)'
PROOF
  <1>1. /\ pc'[q] = pc[q] /\ opened'[q] = opened[q]
        /\ frus'[q] = frus[q] /\ todo'[q] = todo[q]
        /\ orphans'[q] = orphans[q] /\ attached'[q] = attached[q]
        /\ db'[q] = db[q] /\ args' = args
    BY OthersKept DEF StageInv
  <1>2. HasDb(q) => HasDb(q)'
    BY <1>1, ArgsKept DEF HasDb
  <1>3. DbRecords(q)' = DbRecords(q)
    BY <1>1 DEF DbRecords
  <1>4. ListsOk(q) => ListsOk(q)'
    BY <1>1, ListsKept
  <1> QED BY <1>1, <1>2, <1>3, <1>4 DEF WrittenInv, Written

(* All objects of sensors that can be decoded are what they are made of,   *)
(* and they are made of every record.                                      *)
LEMMA ObjectsGenuine ==
  ASSUME NEW h \in Hosts, NEW garbage \in [Undecodable(Content[h]) -> Garbage]
  PROVE  /\ \A kind : \A s \in Objects(Content[h], kind, garbage) :
               s.record \in SensorRecords(h) => s = Sensor(h, s.record)
         /\ \A i \in SensorRecords(h) :
               Sensor(h, i) \in Objects(Content[h], "full", garbage)
                                \union Objects(Content[h], "compact", garbage)
PROOF
  <1>1. ASSUME NEW i \in SensorRecords(h)
        PROVE  Decode(Content[h], garbage, i) = Sensor(h, i)
    BY <1>1 DEF SensorRecords, Undecodable, Decode, Sensor
  <1>2. ASSUME NEW i
        PROVE  Decode(Content[h], garbage, i).record = i
    BY <1>2 DEF Decode
  <1>3. ASSUME NEW kind, NEW s \in Objects(Content[h], kind, garbage),
               s.record \in SensorRecords(h)
        PROVE  s = Sensor(h, s.record)
    <2>1. PICK i : s = Decode(Content[h], garbage, i)
      BY <1>3 DEF Objects
    <2> QED BY <1>1, <1>2, <1>3, <2>1
  <1>4. ASSUME NEW i \in SensorRecords(h)
        PROVE  Sensor(h, i) \in Objects(Content[h], "full", garbage)
                                \union Objects(Content[h], "compact", garbage)
    <2>1. /\ i \in DOMAIN Content[h] /\ i \in Nat \ {0}
          /\ Content[h][i].kind \in {"full", "compact"}
      <3>1. Content[h] \in Seq(SdrRecords)
        BY ContentAssumption
      <3> QED BY <3>1 DEF SensorRecords
    <2>2. i \in TakenFor(Content[h], Content[h][i].kind)
      BY <2>1 DEF TakenFor
    <2>3. Sensor(h, i) \in Objects(Content[h], Content[h][i].kind, garbage)
      BY <1>1, <2>2 DEF Objects
    <2> QED BY <2>1, <2>3
  <1> QED BY <1>3, <1>4

LEMMA ParsedLists ==
  ASSUME TypeOK, NEW p \in Runs, opened[p] \in Hosts, attached[p] = {}, ParseSdr(p),
         opened' = opened
  PROVE  ListsOk(p)'
PROOF
  <1>1. PICK garbage \in [Undecodable(Content[opened[p]]) -> Garbage] :
          /\ frus' = [frus EXCEPT ![p] = Objects(Content[opened[p]], "fru", garbage)]
          /\ todo' = [todo EXCEPT ![p] = Objects(Content[opened[p]], "fru", garbage)]
          /\ orphans' = [orphans EXCEPT ![p] =
                            Objects(Content[opened[p]], "full", garbage)
                            \union Objects(Content[opened[p]], "compact", garbage)]
          /\ UNCHANGED attached
    BY DEF ParseSdr
  <1>2. /\ frus'[p] = todo'[p] /\ attached'[p] = {}
        /\ orphans'[p] = Objects(Content[opened[p]], "full", garbage)
                         \union Objects(Content[opened[p]], "compact", garbage)
    BY <1>1 DEF TypeOK
  <1>3. \A s \in orphans'[p] : Genuine(p, s)'
    BY <1>2, ObjectsGenuine DEF Genuine
  <1>4. \A i \in SensorRecords(opened[p]) : Sensor(opened[p], i) \in orphans'[p]
    BY <1>2, ObjectsGenuine
  <1>5. \A s : Owners(p, s)' = {}
    BY <1>2 DEF Owners
  <1> QED BY <1>2, <1>3, <1>4, <1>5 DEF ListsOk, Placed

LEMMA TakenFromList ==
  ASSUME TypeOK, NEW p \in Runs, ListsOk(p), ParseAssociations(p)
  PROVE  ListsOk(p)'
PROOF
  <1>1. PICK f \in todo[p] :
          /\ \A g \in todo[p] : f.record <= g.record
          /\ attached' = [attached EXCEPT ![p] = @ \union
                {[fru |-> f, sensor |-> s] : s \in {o \in orphans[p] : Belongs(f, o)}}]
          /\ orphans' = [orphans EXCEPT ![p] = Without(@, f)]
          /\ todo' = [todo EXCEPT ![p] = @ \ {f}]
    BY DEF ParseAssociations
  <1>2. /\ attached'[p] = attached[p] \union
              {[fru |-> f, sensor |-> s] : s \in {o \in orphans[p] : Belongs(f, o)}}
        /\ orphans'[p] = {s \in orphans[p] : ~Belongs(f, s)}
        /\ todo'[p] = todo[p] \ {f} /\ frus'[p] = frus[p] /\ opened'[p] = opened[p]
        /\ f \in frus[p]
    BY <1>1 DEF TypeOK, Without, ParseAssociations
  <1>3. frus'[p] \ todo'[p] = (frus[p] \ todo[p]) \union {f}
    BY <1>2
  <1>4. \A a \in attached'[p] \ attached[p] :
           a.fru = f /\ a.sensor \in orphans[p] /\ Belongs(f, a.sensor)
    BY <1>2
  <1>5. /\ \A s \in orphans'[p] : Genuine(p, s)'
        /\ \A a \in attached'[p] : Genuine(p, a.sensor)'
    BY <1>2, <1>4 DEF ListsOk, Genuine
  <1>6. \A x \in frus'[p] \ todo'[p], g \in todo'[p] : x.record <= g.record
    BY <1>1, <1>2, <1>3 DEF ListsOk
  <1>7. ASSUME NEW s, Placed(p, s) PROVE Placed(p, s)'
    <2>1. Owners(p, s)' = Owners(p, s) \union (IF Belongs(f, s) THEN {f} ELSE {})
      BY <1>3 DEF Owners
    <2>2. \A g \in Owners(p, s) : g.record <= f.record
      BY DEF ListsOk, Owners
    <2>3. CASE Belongs(f, s) /\ Owners(p, s) = {}
      <3>1. Owners(p, s)' = {f} /\ s \notin orphans'[p]
        BY <1>2, <2>1, <2>3
      <3>2. [fru |-> f, sensor |-> s] \in attached'[p]
        BY <1>2, <1>7, <2>3 DEF Placed
      <3>3. \A b \in attached'[p] : b.sensor = s => b = [fru |-> f, sensor |-> s]
        BY <1>2, <1>7, <2>3 DEF Placed
      <3>4. f.record <= f.record
        BY <1>1
      <3> QED BY <3>1, <3>2, <3>3, <3>4 DEF Placed
    <2>4. CASE Owners(p, s) # {}
      <3>1. s \notin orphans[p] /\ s \notin orphans'[p]
        BY <1>2, <1>7, <2>4 DEF Placed
      <3>2. PICK a \in attached[p] :
              /\ a.sensor = s /\ a.fru \in Owners(p, s)
              /\ \A g \in Owners(p, s) : a.fru.record <= g.record
              /\ \A b \in attached[p] : b.sensor = s => b = a
        BY <1>7, <2>4 DEF Placed
      <3>3. a \in attached'[p] /\ \A b \in attached'[p] : b.sensor = s => b = a
        BY <1>2, <1>4, <3>1, <3>2
      <3>4. /\ a.fru \in Owners(p, s)'
            /\ \A g \in Owners(p, s)' : a.fru.record <= g.record
        BY <2>1, <2>2, <3>2
      <3> QED BY <3>1, <3>2, <3>3, <3>4 DEF Placed
    <2>5. CASE ~Belongs(f, s) /\ Owners(p, s) = {}
      <3>1. Owners(p, s)' = {} /\ s \in orphans'[p]
        BY <1>2, <1>7, <2>1, <2>5 DEF Placed
      <3>2. \A a \in attached'[p] : a.sensor # s
        BY <1>4, <1>7, <2>5 DEF Placed
      <3> QED BY <3>1, <3>2 DEF Placed
    <2> QED BY <2>3, <2>4, <2>5
  <1> QED BY <1>2, <1>5, <1>6, <1>7 DEF ListsOk

LEMMA WrittenStep ==
  ASSUME StageInv, WrittenInv, NEW p \in Runs, Step(p) \/ Kill(p)
  PROVE  Written(p)'
PROOF
  <1>1. /\ TypeOK /\ Stage(p) /\ Written(p) /\ args' = args
        /\ DOMAIN db = Runs /\ DOMAIN opened = Runs
    BY DEF StageInv, WrittenInv, TypeOK, Step, Kill, IpmiInit, IpmiConnect, OpenCache,
           DeleteCache, CreateCache, WriteCache, ReopenCache, IpmiParseSdr,
           ParseAssociations, WriteReport, WriteDb
  <1>2. /\ \A step : Goto(p, step) => pc'[p] = step
        /\ Throw(p) => pc'[p] = "failed"
    BY <1>1, Went DEF Throw, TypeOK
  <1>3. \A key : Given(p, key)' = Given(p, key)
    BY <1>1, ArgsKept
  <1>4. ASSUME UNCHANGED lists
        PROVE  /\ UNCHANGED <<frus, orphans, todo, attached>>
               /\ DbRecords(p)' = DbRecords(p)
               /\ opened'[p] = opened[p] /\ ListsOk(p) => ListsOk(p)'
    <2>1. UNCHANGED <<frus, orphans, todo, attached>>
      BY <1>4 DEF lists
    <2> QED BY <2>1, ListsKept DEF DbRecords
  <1>5. UNCHANGED db => HasDb(p)' = HasDb(p)
    BY <1>3 DEF HasDb
  <1> USE <1>1, <1>2, <1>5 DEF Written, CacheSteps, files
  <1>6. CASE IpmiInit(p) \/ IpmiConnect(p) \/ Kill(p)
    BY <1>4, <1>6 DEF IpmiInit, IpmiConnect, Kill, Ended
  <1>7. CASE OpenCache(p) \/ DeleteCache(p) \/ CreateCache(p) \/ WriteCache(p) \/ ReopenCache(p)
    <2>1. /\ pc[p] \in CacheSteps /\ UNCHANGED <<lists, files>>
          /\ pc'[p] \in {"delete", "create", "write", "reopen", "parse", "failed"}
      BY <1>7 DEF OpenCache, DeleteCache, CreateCache, WriteCache, ReopenCache, Open
    <2> QED BY <1>4, <2>1
  <1>8. CASE IpmiParseSdr(p)
    <2>1. opened[p] \in Hosts /\ db[p] = {} /\ attached[p] = {} /\ db' = db
      BY <1>8 DEF IpmiParseSdr, Stage, ReachesCache
    <2>2. CASE ParseSdr(p) /\ pc'[p] = "associate" /\ opened' = opened
      <3>1. ListsOk(p)'
        BY <2>1, <2>2, ParsedLists
      <3> QED BY <2>1, <2>2, <3>1
    <2>3. CASE pc'[p] = "failed" /\ UNCHANGED lists
      BY <2>1, <2>3
    <2> QED BY <1>8, <2>2, <2>3 DEF IpmiParseSdr
  <1>9. CASE ParseAssociations(p)
    <2>1. pc' = pc /\ opened' = opened /\ db' = db /\ pc[p] = "associate" /\ opened[p] # NoFile
      BY <1>9 DEF ParseAssociations, Stage
    <2>2. ListsOk(p)'
      BY <1>9, <2>1, TakenFromList
    <2> QED BY <2>1, <2>2
  <1>10. CASE WriteReport(p)
    <2>1. /\ pc[p] = "associate" /\ todo[p] = {} /\ UNCHANGED <<lists, opened, db>>
          /\ pc'[p] \in {"db", "failed"} /\ opened[p] # NoFile
      BY <1>10 DEF WriteReport, Stage
    <2> QED BY <1>4, <2>1
  <1>11. CASE WriteDb(p)
    <2>1. /\ pc[p] = "db" /\ UNCHANGED <<lists, opened>> /\ opened[p] # NoFile
          /\ pc'[p] \in {"done", "failed"} /\ db[p] = {}
      BY <1>11 DEF WriteDb, Stage
    <2>2. CASE pc'[p] = "failed" /\ UNCHANGED db
      BY <1>4, <2>1, <2>2
    <2>3. CASE pc'[p] = "done" /\ ~Given(p, "--create-db-file") /\ UNCHANGED db
      BY <1>3, <1>4, <2>1, <2>3 DEF HasDb
    <2>4. CASE /\ pc'[p] = "done"
               /\ db' = [db EXCEPT ![p] = {[name |-> Option(p, "--create-db-file"),
                                            records |-> DbRecords(p)]}]
      <3>1. db'[p] = {[name |-> Option(p, "--create-db-file"), records |-> DbRecords(p)]}
        BY <2>4
      <3>2. HasDb(p)' /\ \A file \in db'[p] : file.records = DbRecords(p)'
        BY <1>4, <2>1, <3>1 DEF HasDb
      <3> QED BY <1>4, <2>1, <2>4, <3>2
    <2> QED BY <1>11, <2>2, <2>3, <2>4 DEF WriteDb
  <1> QED BY <1>6, <1>7, <1>8, <1>9, <1>10, <1>11 DEF Step

LEMMA WrittenNext == StageInv /\ WrittenInv /\ [Next]_vars => WrittenInv'
PROOF
  <1>1. ASSUME WrittenInv, UNCHANGED vars PROVE WrittenInv'
    <2>1. UNCHANGED <<args, pc, opened, frus, orphans, todo, attached, db>>
      BY <1>1 DEF vars, lists, files
    <2>2. ASSUME NEW p \in Runs
          PROVE  /\ DbRecords(p)' = DbRecords(p) /\ HasDb(p)' = HasDb(p)
                 /\ ListsOk(p) => ListsOk(p)'
      BY <2>1, ListsKept, ArgsKept DEF DbRecords, HasDb
    <2> QED BY <1>1, <2>1, <2>2 DEF WrittenInv, Written
  <1> QED BY <1>1, WrittenStep, WrittenOthers DEF Next, WrittenInv

-----------------------------------------------------------------------------
(* What is in the database of a run that is done.                          *)

LEMMA EachSensorOnce ==
  ASSUME NEW p, ListsOk(p), todo[p] = {}, NEW i \in SensorRecords(opened[p]),
         NEW record, record = Content[opened[p]][i]
  PROVE  LET owners == {f \in frus[p] : Belongs(f, record)}
             places == {r \in DbRecords(p) : r.record = i}
         IN  \E r \in places :
               /\ places = {r}
               /\ IF owners = {} THEN r.fru = -1
                  ELSE \E f \in owners :
                         /\ \A g \in owners : f.record <= g.record
                         /\ r.fru = f.record
PROOF
  <1> DEFINE s == Sensor(opened[p], i)
             places == {r \in DbRecords(p) : r.record = i}
  <1>1. Placed(p, s) /\ s.record = i
    BY DEF ListsOk, Sensor
  <1>2. Owners(p, s) = {f \in frus[p] : Belongs(f, record)}
    BY DEF Owners, Belongs, Sensor
  <1>3. /\ \A o \in orphans[p] : o.record = i => o = s
        /\ \A a \in attached[p] : a.sensor.record = i => a.sensor = s
    BY DEF ListsOk, Genuine
  <1>4. \A fru, o : EpRecord(fru, o).record = o.record /\ EpRecord(fru, o).fru = fru
    BY DEF EpRecord
  <1>5. CASE Owners(p, s) = {}
    <2>1. s \in orphans[p] /\ \A a \in attached[p] : a.sensor # s
      BY <1>1, <1>5 DEF Placed
    <2>2. places = {EpRecord(-1, s)}
      BY <1>1, <1>3, <1>4, <2>1 DEF DbRecords
    <2> QED BY <1>2, <1>4, <1>5, <2>2
  <1>6. CASE Owners(p, s) # {}
    <2>1. PICK a \in attached[p] :
            /\ a.sensor = s /\ a.fru \in Owners(p, s)
            /\ \A g \in Owners(p, s) : a.fru.record <= g.record
            /\ \A b \in attached[p] : b.sensor = s => b = a
      BY <1>1, <1>6 DEF Placed
    <2>2. s \notin orphans[p]
      BY <1>1, <1>6 DEF Placed
    <2>3. places = {EpRecord(a.fru.record, s)}
      BY <1>1, <1>3, <1>4, <2>1, <2>2 DEF DbRecords
    <2> QED BY <1>2, <1>4, <1>6, <2>1, <2>3
  <1> QED BY <1>5, <1>6

(* A database that a run was asked for has every sensor that can be        *)
(* decoded, once and under the first FRU it belongs to, whatever garbage   *)
(* the records that cannot be decoded leave behind.                        *)
THEOREM DatabaseIsComplete == Spec => []DbComplete
PROOF
  <1>1. ASSUME StageInv, WrittenInv PROVE DbComplete
    <2> SUFFICES ASSUME NEW p \in Runs, pc[p] = "done", ~Given(p, "--help"),
                        Wanted(p, "--create-db-file")
                 PROVE  \E file \in db[p] : \A i \in SensorRecords(Host(p)) :
                            LET record == Content[Host(p)][i]
                                owners == {f \in frus[p] : Belongs(f, record)}
                                places == {r \in file.records : r.record = i}
                            IN  \E r \in places :
                                  /\ places = {r}
                                  /\ IF owners = {} THEN r.fru = -1
                                     ELSE \E f \in owners :
                                            /\ \A g \in owners : f.record <= g.record
                                            /\ r.fru = f.record
      BY DEF DbComplete
    <2>1. opened[p] # NoFile /\ opened[p] = Host(p)
      BY <1>1 DEF StageInv, Stage
    <2>2. ListsOk(p) /\ todo[p] = {} /\ HasDb(p)
      BY <1>1, <2>1 DEF WrittenInv, Written
    <2>3. Given(p, "--create-db-file")
      <3>1. args[p] \in Seq(STRING)
        BY <1>1, ArgListsAssumption DEF StageInv, TypeOK
      <3> QED BY <3>1, WantedGiven, DashedAssumption
    <2>4. PICK file \in db[p] : file.records = DbRecords(p)
      BY <1>1, <2>2, <2>3 DEF HasDb, WrittenInv, Written
    <2>5. ASSUME NEW i \in SensorRecords(Host(p)), NEW record,
                 record = Content[Host(p)][i]
          PROVE  LET owners == {f \in frus[p] : Belongs(f, record)}
                     places == {r \in file.records : r.record = i}
                 IN  \E r \in places :
                       /\ places = {r}
                       /\ IF owners = {} THEN r.fru = -1
                          ELSE \E f \in owners :
                                 /\ \A g \in owners : f.record <= g.record
                                 /\ r.fru = f.record
      <3>1. i \in SensorRecords(opened[p]) /\ record = Content[opened[p]][i]
        BY <2>1, <2>5
      <3>2. \E r \in {d \in DbRecords(p) : d.record = i} :
               /\ {d \in DbRecords(p) : d.record = i} = {r}
               /\ IF {f \in frus[p] : Belongs(f, record)} = {} THEN r.fru = -1
                  ELSE \E f \in {o \in frus[p] : Belongs(o, record)} :
                         /\ \A g \in {o \in frus[p] : Belongs(o, record)} :
                                f.record <= g.record
                         /\ r.fru = f.record
        BY <2>2, <3>1, EachSensorOnce
      <3> QED BY <2>4, <3>2
    <2> QED BY <2>5
  <1> QED BY <1>1, WrittenInit, WrittenNext, StageInit, StageNext, PTL DEF Spec
=============================================================================
