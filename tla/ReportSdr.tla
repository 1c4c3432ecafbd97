------------------------------- MODULE ReportSdr -------------------------------
(***************************************************************************)
(* report-sdr (report-sdr.cpp, EpRecord.cpp): a program that reads the SDR *)
(* of a device and writes a report and an EPICS database with a record for *)
(* every sensor.  All runs of it keep the SDR in one cache file with a     *)
(* fixed name, whatever device they are told to read; runs may overlap and *)
(* may be killed.                                                          *)
(*                                                                         *)
(* An argument is a model of a word of the command line.  An SDR is the    *)
(* sequence of its records; FreeIPMI tells the SDRs of two devices apart   *)
(* by the version, the number of records and the two timestamps.  The      *)
(* lists of a run are sets here, in which the number of the record tells   *)
(* two objects apart and which comes first; FruRecords has the walk along  *)
(* such a list.                                                            *)
(***************************************************************************)
EXTENDS Links

CONSTANTS
    Runs,            \* processes
    ArgLists,        \* command lines
    Dashed,          \* the words that begin with a dash
    Content,         \* the SDR of every host name that can be reached
    CoolingDomain,   \* IPMI_ENTITY_ID_COOLING_UNIT_COOLING_DOMAIN
    Garbage,         \* [id, instance, fan] that uninitialised members may be
    NoFile,
    MaxFaults        \* bound on failing calls and killed processes

Hosts == DOMAIN Content

Bytes == 0 .. 255

SdrRecords ==
    [kind : {"full", "compact", "fru", "other", "unreadable"}, id : Bytes,
     instance : Bytes, text : Seq(STRING), fan : BOOLEAN, decodable : BOOLEAN]

ASSUME FaultsAssumption == MaxFaults \in Nat

ASSUME ArgListsAssumption == ArgLists \subseteq Seq(STRING)

ASSUME DashedAssumption ==
    /\ {"-H", "-u", "-p", "--create-report-file", "--create-db-file"} \subseteq Dashed
    /\ "null" \notin Dashed

ASSUME ContentAssumption == \A h \in Hosts : Content[h] \in Seq(SdrRecords)

ASSUME GarbageAssumption ==
    Garbage \subseteq [id : Bytes, instance : Bytes, fan : BOOLEAN]

VARIABLES
    args, pc,
    cache,           \* the cache file: whose SDR, by which run, complete
    opened,          \* the host whose SDR a run has opened
    frus, orphans,   \* fruDevLocRecList and orphandList of a run
    todo,            \* the FRUs that have not taken their sensors yet
    attached,        \* the sensors of the FRUs: [fru, sensor]
    report, db,      \* the files it has written: none or one
    disturbed,       \* another run has changed the cache under its hands, or
                     \* a call failed
    faults

lists == <<frus, orphans, todo, attached>>
files == <<report, db>>
vars == <<args, pc, cache, opened, lists, files, disturbed, faults>>

CacheSteps == {"open", "delete", "create", "write", "reopen"}

Steps == {"init", "connect", "parse", "associate", "db", "done", "failed", "killed"}
         \union CacheSteps

Files == [of : Hosts, by : Runs \union {NoFile}, whole : BOOLEAN]

ASSUME NoFileAssumption ==
    NoFile \notin Files /\ NoFile \notin Hosts /\ NoFile \notin Runs

(* What is made of a record: a FRU or a sensor.                            *)
Made == [record : Nat, id : Bytes, instance : Bytes, fan : BOOLEAN, text : Seq(STRING)]

TypeOK ==
    /\ args \in [Runs -> ArgLists]
    /\ pc \in [Runs -> Steps]
    /\ cache \in Files \union {NoFile}
    /\ opened \in [Runs -> Hosts \union {NoFile}]
    /\ frus \in [Runs -> SUBSET Made]
    /\ orphans \in [Runs -> SUBSET Made]
    /\ todo \in [Runs -> SUBSET Made] /\ \A p \in Runs : todo[p] \subseteq frus[p]
    /\ attached \in [Runs -> SUBSET [fru : Made, sensor : Made]]
    /\ DOMAIN report = Runs /\ DOMAIN db = Runs
    /\ \A p \in Runs : \A file \in report[p] \union db[p] : file.name \notin Dashed
    /\ disturbed \in [Runs -> BOOLEAN]
    /\ faults \in 0 .. MaxFaults

(* An earlier run may have left a cache, or a part of one.                 *)
Init ==
    /\ args \in [Runs -> ArgLists]
    /\ pc = [p \in Runs |-> "init"]
    /\ cache \in {f \in Files : f.by = NoFile} \union {NoFile}
    /\ opened = [p \in Runs |-> NoFile]
    /\ frus = [p \in Runs |-> {}] /\ orphans = [p \in Runs |-> {}]
    /\ todo = [p \in Runs |-> {}] /\ attached = [p \in Runs |-> {}]
    /\ report = [p \in Runs |-> {}] /\ db = [p \in Runs |-> {}]
    /\ disturbed = [p \in Runs |-> FALSE]
    /\ faults = 0

-----------------------------------------------------------------------------
(* Mistakes the properties are checked against.                            *)

DeletedIfOutOfDate(error) == error = "out of date"

DeletedIfInvalid(error) == error = "invalid"

ValueWhateverItIs(words) ==
    LET first(k) == SelectInSeq(words, LAMBDA w : w = k)
    IN  [k \in ToSet(words) \intersect Dashed |->
            IF first(k) < Len(words) THEN words[first(k) + 1] ELSE "null"]

NothingTaken(list, f) == list

-----------------------------------------------------------------------------
(* The command line.                                                       *)

(* A switch takes the word behind it, unless that is a switch as well; of  *)
(* two occurrences the first one counts.  Other words are skipped.         *)
ParseArgs(words) ==
    LET first(k) == SelectInSeq(words, LAMBDA w : w = k)
    IN  [k \in ToSet(words) \intersect Dashed |->
            IF first(k) < Len(words) /\ words[first(k) + 1] \notin Dashed
            THEN words[first(k) + 1] ELSE "null"]

Given(p, key) == key \in DOMAIN ParseArgs(args[p])
Option(p, key) == ParseArgs(args[p])[key]

AuthTypes == {"none", "plain", "straight_password_key", "md2", "md5"}
PrivilegeLevels == {"admin", "operator", "user"}

ArgsValid(p) ==
    /\ Given(p, "-H") /\ Given(p, "-u") /\ Given(p, "-p")
    /\ Given(p, "--auth-type") => Option(p, "--auth-type") \in AuthTypes
    /\ Given(p, "--privilege-level") =>
          Option(p, "--privilege-level") \in PrivilegeLevels

Host(p) == Option(p, "-H")

-----------------------------------------------------------------------------
Fault(p) ==
    /\ faults < MaxFaults /\ faults' = faults + 1
    /\ disturbed' = [disturbed EXCEPT ![p] = TRUE]

NoFault == UNCHANGED <<faults, disturbed>>

Goto(p, step) == pc' = [pc EXCEPT ![p] = step]

(* main() prints what was thrown; the exit status is that of success.      *)
Throw(p) == pc' = [pc EXCEPT ![p] = "failed"]

(* ipmi_init().  With --help the program says how it is used and ends.     *)
IpmiInit(p) ==
    /\ pc[p] = "init"
    /\ \/ Given(p, "--help") /\ Goto(p, "done")
       \/ ~Given(p, "--help") /\ ArgsValid(p) /\ Goto(p, "connect")
       \/ ~Given(p, "--help") /\ ~ArgsValid(p) /\ Throw(p)
    /\ NoFault
    /\ UNCHANGED <<args, cache, opened, lists, files>>

IpmiConnect(p) ==
    /\ pc[p] = "connect"
    /\ \/ Host(p) \in Hosts /\ Goto(p, "open") /\ NoFault
       \/ Host(p) \in Hosts /\ Throw(p) /\ Fault(p)
       \/ Host(p) \notin Hosts /\ Throw(p) /\ NoFault
    /\ UNCHANGED <<args, cache, opened, lists, files>>

-----------------------------------------------------------------------------
(* ipmi_open_cache(), between its calls of FreeIPMI.                       *)

(* FreeIPMI compares the header in the file with that of the device.       *)
OpenError(p) ==
    IF cache = NoFile THEN "does not exist"
    ELSE IF ~cache.whole THEN "invalid"
    ELSE IF cache.of # Host(p) THEN "out of date"
    ELSE "none"

DeletedFor(error) == error \in {"out of date", "invalid"}

(* An open cache can be read on even if the file is unlinked.              *)
Open(p) ==
    /\ OpenError(p) = "none"
    /\ opened' = [opened EXCEPT ![p] = cache.of]
    /\ Goto(p, "parse")
    /\ NoFault

OpenCache(p) ==
    /\ pc[p] = "open"
    /\ \/ Open(p)
       \/ /\ OpenError(p) # "none"
          /\ Goto(p, IF DeletedFor(OpenError(p)) THEN "delete" ELSE "create")
          /\ NoFault /\ UNCHANGED opened
       \/ Throw(p) /\ Fault(p) /\ UNCHANGED opened
    /\ UNCHANGED <<args, cache, lists, files>>

(* The file changes under the hands of the other runs.                     *)
DisturbedBy(p) ==
    [q \in Runs |-> disturbed[q] \/ (q # p /\ pc[q] \in CacheSteps)]

ChangeCache(p, file) == cache' = file /\ disturbed' = DisturbedBy(p)

(* The file is unlinked, or it is not: the result is ignored.              *)
DeleteCache(p) ==
    /\ pc[p] = "delete"
    /\ Goto(p, "create")
    /\ \/ ChangeCache(p, NoFile) /\ UNCHANGED faults
       \/ Fault(p) /\ UNCHANGED cache
    /\ UNCHANGED <<args, opened, lists, files>>

(* Without a flag to overwrite, an existing file is an error.              *)
CreateCache(p) ==
    /\ pc[p] = "create"
    /\ \/ /\ cache = NoFile
          /\ ChangeCache(p, [of |-> Host(p), by |-> p, whole |-> FALSE])
          /\ Goto(p, "write")
       \/ /\ cache # NoFile
          /\ Goto(p, "reopen")
          /\ UNCHANGED <<cache, disturbed>>
    /\ UNCHANGED <<args, opened, lists, files, faults>>

OwnFile(p) == cache # NoFile /\ cache.by = p

(* The records are written one by one into a file that may be unlinked by  *)
(* now.  Should the device stop answering, the part is left or removed.    *)
WriteCache(p) ==
    /\ pc[p] = "write"
    /\ Goto(p, "reopen")
    /\ \/ /\ OwnFile(p)
          /\ ChangeCache(p, [cache EXCEPT !.whole = TRUE])
          /\ UNCHANGED faults
       \/ ~OwnFile(p) /\ NoFault /\ UNCHANGED cache
       \/ Fault(p) /\ UNCHANGED cache
       \/ /\ OwnFile(p)
          /\ faults < MaxFaults /\ faults' = faults + 1
          /\ cache' = NoFile
          /\ disturbed' = [DisturbedBy(p) EXCEPT ![p] = TRUE]
    /\ UNCHANGED <<args, opened, lists, files>>

ReopenCache(p) ==
    /\ pc[p] = "reopen"
    /\ \/ Open(p)
       \/ OpenError(p) # "none" /\ Throw(p) /\ NoFault /\ UNCHANGED opened
       \/ Throw(p) /\ Fault(p) /\ UNCHANGED opened
    /\ UNCHANGED <<args, cache, lists, files>>

-----------------------------------------------------------------------------
(* ipmi_parse_sdr() and the constructors of the records, none of which     *)
(* looks at the results of its calls.                                      *)

(* A record whose type cannot be read is taken for one of the type of the  *)
(* record before it.                                                       *)
TakenFor(records, kind) ==
    {i \in DOMAIN records : \E j \in 1 .. i :
        /\ records[j].kind = kind
        /\ \A k \in j + 1 .. i : records[k].kind = "unreadable"}

(* A record that cannot be decoded leaves the members of the object that   *)
(* is made of it uninitialised, and its name empty.                        *)
Undecodable(records) ==
    {i \in DOMAIN records : \/ records[i].kind = "unreadable"
                            \/ ~records[i].decodable}

Decode(records, garbage, i) ==
    IF i \in Undecodable(records)
    THEN [record |-> i, id |-> garbage[i].id, instance |-> garbage[i].instance,
          fan |-> garbage[i].fan, text |-> <<>>]
    ELSE [record |-> i, id |-> records[i].id, instance |-> records[i].instance,
          fan |-> records[i].fan, text |-> records[i].text]

Objects(records, kind, garbage) ==
    {Decode(records, garbage, i) : i \in TakenFor(records, kind)}

ParseSdr(p) ==
    LET records == Content[opened[p]]
    IN  \E garbage \in [Undecodable(records) -> Garbage] :
          /\ frus' = [frus EXCEPT ![p] = Objects(records, "fru", garbage)]
          /\ todo' = [todo EXCEPT ![p] = Objects(records, "fru", garbage)]
          /\ orphans' = [orphans EXCEPT ![p] = Objects(records, "full", garbage)
                                        \union Objects(records, "compact", garbage)]
          /\ UNCHANGED attached

(* The four fields of the header come first; without them it throws.       *)
IpmiParseSdr(p) ==
    /\ pc[p] = "parse"
    /\ \/ ParseSdr(p) /\ Goto(p, "associate") /\ NoFault
       \/ Throw(p) /\ Fault(p) /\ UNCHANGED lists
    /\ UNCHANGED <<args, cache, opened, files>>

-----------------------------------------------------------------------------
(* parseAssociations() of every FRU, and the files.                        *)

Belongs(f, s) ==
    /\ s.instance = f.instance
    /\ s.id = f.id \/ (f.id = CoolingDomain /\ s.fan)

Without(list, f) == {s \in list : ~Belongs(f, s)}

(* main() calls it for one FRU after the other: it moves the sensors of    *)
(* the FRU out of orphandList.                                             *)
ParseAssociations(p) ==
    /\ pc[p] = "associate"
    /\ \E f \in todo[p] :
          /\ \A g \in todo[p] : f.record <= g.record
          /\ attached' = [attached EXCEPT ![p] = @ \union
                {[fru |-> f, sensor |-> s] : s \in {o \in orphans[p] : Belongs(f, o)}}]
          /\ orphans' = [orphans EXCEPT ![p] = Without(@, f)]
          /\ todo' = [todo EXCEPT ![p] = @ \ {f}]
    /\ NoFault
    /\ UNCHANGED <<args, pc, cache, opened, frus, files>>

(* A name for a record, without characters that such a name may not have.  *)
Mangled(text) ==
    [i \in DOMAIN text |-> IF text[i] \in {Blank, ".", Dash} THEN "_" ELSE text[i]]

(* The id string goes into the link as it is, with a quote on either side. *)
LinkOf(s) ==
    [id |-> s.id, instance |-> s.instance,
     text |-> <<Quote>> \o s.text \o <<Quote>>]

(* An ai record: its name, with the FRU in front if there is one (-1 if    *)
(* not), and its link.                                                     *)
EpRecord(fru, s) ==
    [fru |-> fru, name |-> Mangled(s.text), inp |-> LinkOf(s),
     record |-> s.record]

(* All that is left in orphandList is under no FRU.                        *)
DbRecords(p) ==
    {EpRecord(a.fru.record, a.sensor) : a \in attached[p]}
    \union {EpRecord(-1, s) : s \in orphans[p]}

(* A file that is asked for is written at once, or cannot be opened.       *)
WriteReport(p) ==
    /\ pc[p] = "associate" /\ todo[p] = {}
    /\ \/ /\ Given(p, "--create-report-file")
          /\ report' = [report EXCEPT ![p] =
                {[name |-> Option(p, "--create-report-file"), of |-> Host(p)]}]
          /\ Goto(p, "db") /\ NoFault
       \/ Given(p, "--create-report-file") /\ UNCHANGED report
          /\ Throw(p) /\ Fault(p)
       \/ ~Given(p, "--create-report-file") /\ UNCHANGED report
          /\ Goto(p, "db") /\ NoFault
    /\ UNCHANGED <<args, cache, opened, lists, db>>

WriteDb(p) ==
    /\ pc[p] = "db"
    /\ \/ /\ Given(p, "--create-db-file")
          /\ db' = [db EXCEPT ![p] =
                {[name |-> Option(p, "--create-db-file"), records |-> DbRecords(p)]}]
          /\ Goto(p, "done") /\ NoFault
       \/ Given(p, "--create-db-file") /\ UNCHANGED db /\ Throw(p) /\ Fault(p)
       \/ ~Given(p, "--create-db-file") /\ UNCHANGED db
          /\ Goto(p, "done") /\ NoFault
    /\ UNCHANGED <<args, cache, opened, lists, report>>

-----------------------------------------------------------------------------
Ended(p) == pc[p] \in {"done", "failed", "killed"}

(* A killed run leaves what it has written of the cache.                   *)
Kill(p) ==
    /\ ~Ended(p)
    /\ Goto(p, "killed")
    /\ Fault(p)
    /\ UNCHANGED <<args, cache, opened, lists, files>>

Step(p) ==
    \/ IpmiInit(p) \/ IpmiConnect(p)
    \/ OpenCache(p) \/ DeleteCache(p) \/ CreateCache(p) \/ WriteCache(p)
    \/ ReopenCache(p)
    \/ IpmiParseSdr(p) \/ ParseAssociations(p) \/ WriteReport(p) \/ WriteDb(p)

Next == \E p \in Runs : Step(p) \/ Kill(p)

Spec == Init /\ [][Next]_vars

-----------------------------------------------------------------------------
(* Whatever a run that was killed has left in place of the cache, the next *)
(* run gets through: it gives up at the cache only if a call failed or     *)
(* another run was at the cache at the same time.                          *)
LeftoverHarmless ==
    [][\A p \in Runs :
          pc[p] \in CacheSteps /\ pc'[p] = "failed" => disturbed'[p]]_vars

(* The records of an SDR that are sensors and can be decoded.              *)
SensorRecords(host) ==
    {i \in DOMAIN Content[host] :
        /\ Content[host][i].kind \in {"full", "compact"}
        /\ Content[host][i].decodable}

Wanted(p, switch) ==
    LET i == SelectInSeq(args[p], LAMBDA w : w = switch)
    IN  i # 0 /\ i < Len(args[p]) /\ args[p][i + 1] \notin Dashed

(* A database that was asked for has every sensor of the device it was     *)
(* asked for, each of them once and under the first FRU that it belongs    *)
(* to, whatever else in the SDR could not be decoded.                      *)
DbComplete ==
    \A p \in Runs :
        pc[p] = "done" /\ ~Given(p, "--help") /\ Wanted(p, "--create-db-file") =>
        \E file \in db[p] : \A i \in SensorRecords(Host(p)) :
            LET record == Content[Host(p)][i]
                owners == {f \in frus[p] : Belongs(f, record)}
                places == {r \in file.records : r.record = i}
            IN  \E r \in places :
                  /\ places = {r}
                  /\ IF owners = {} THEN r.fru = -1
                     ELSE \E f \in owners :
                            /\ \A g \in owners : f.record <= g.record
                            /\ r.fru = f.record

ReachesCache(p) == ArgsValid(p) /\ ~Given(p, "--help") /\ Host(p) \in Hosts

(* Runs that are at the cache at the same time may make each other give    *)
(* up, but not all of them: if no call fails, one gets through.            *)
SomeRunGetsThrough ==
    (\A p \in Runs : Ended(p)) /\ faults = 0 =>
        \A p \in Runs : ReachesCache(p) =>
            \E q \in Runs : ReachesCache(q) /\ opened[q] # NoFile
=============================================================================
