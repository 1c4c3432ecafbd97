------------------------------ MODULE FruRecords ------------------------------
(***************************************************************************)
(* What readSdr() makes of the FRU device locator records of an SDR        *)
(* (IpmiFruDevLocRec.cpp): it asks every FRU for its status LEDs, which    *)
(* redirects the IPMI context to the controller of the FRU for the time    *)
(* being, and then distributes the sensors among the FRUs.                 *)
(*                                                                         *)
(* FRUs are numbered in the order of their list, and sensors in the order  *)
(* of the list of orphans: the full records of the SDR before the compact. *)
(***************************************************************************)
EXTENDS Naturals, Sequences, SequencesExt

CONSTANTS
    FruCount, FruKinds,        \* [id, instance, excluded, leds]
    SensorCount, SensorKinds,  \* [id, instance, fan]
    CoolingDomain,             \* IPMI_ENTITY_ID_COOLING_UNIT_COOLING_DOMAIN
    None                       \* commands go to the BMC

Frus == 1 .. FruCount
Sensors == 1 .. SensorCount
Leds == 0 .. 3

ASSUME CountsAssumption == FruCount \in Nat \ {0} /\ SensorCount \in Nat

ASSUME KindsAssumption == \A k \in FruKinds : k.leds \subseteq Leds

VARIABLES
    frus, sensors,   \* the records of the SDR
    pc, fru, led,    \* where readSdr() is: the FRU, and the i of its LEDs
    target,          \* where the IPMI context sends commands
    m_StatusLeds,    \* of every FRU
    gaveUp,          \* FRUs whose LEDs could not all be read
    orphans, itr,    \* mOrphandList and the iterator of parseAssociations()
    sensor_records   \* of every FRU

sdr == <<frus, sensors>>
probe == <<led, target, m_StatusLeds, gaveUp>>
lists == <<orphans, itr, sensor_records>>

vars == <<sdr, pc, fru, probe, lists>>

TypeOK ==
    /\ frus \in [Frus -> FruKinds]
    /\ sensors \in [Sensors -> SensorKinds]
    /\ pc \in {"record", "properties", "colors", "attach", "done"}
    /\ fru \in Frus
    /\ led \in 0 .. 4
    /\ target \in Frus \union {None}
    /\ m_StatusLeds \in [Frus -> Seq(Leds)]
    /\ gaveUp \in SUBSET Frus
    /\ orphans \in Seq(Sensors)
    /\ itr \in 1 .. Len(orphans) + 1
    /\ sensor_records \in [Frus -> Seq(Sensors)]

Init ==
    /\ frus \in [Frus -> FruKinds]
    /\ sensors \in [Sensors -> SensorKinds]
    /\ pc = "record" /\ fru = 1 /\ led = 0
    /\ target = None
    /\ m_StatusLeds = [f \in Frus |-> <<>>]
    /\ gaveUp = {}
    /\ orphans = [s \in Sensors |-> s] /\ itr = 1
    /\ sensor_records = [f \in Frus |-> <<>>]

-----------------------------------------------------------------------------
(* Mistakes the properties are checked against.                            *)

GiveUpKeepsTarget ==
    /\ UNCHANGED target
    /\ gaveUp' = gaveUp \union {fru}

MoreLedsButLast == led < 3

ToNextWithoutEnd(first, last) == fru' = fru + 1 /\ pc' = first

EraseAndAdvance ==
    /\ orphans' = RemoveAt(orphans, itr)
    /\ itr' = IF itr = Len(orphans) THEN itr ELSE itr + 1

SkipStays == UNCHANGED itr

-----------------------------------------------------------------------------
(* The constructor of a FRU record.  It catches what getPicmgStatusLeds()  *)
(* throws and resets the target, which is only an assignment in FreeIPMI.  *)

(* On to the next FRU, or after the last one to the first of what follows. *)
ToNext(first, last) ==
    /\ fru' = IF fru < FruCount THEN fru + 1 ELSE 1
    /\ pc' = IF fru < FruCount THEN first ELSE last

Excluded ==
    /\ pc = "record"
    /\ frus[fru].excluded
    /\ ToNext("record", "attach")
    /\ UNCHANGED <<sdr, probe, lists>>

SetTarget ==
    /\ pc = "record"
    /\ ~frus[fru].excluded
    /\ target' = fru
    /\ pc' = "properties"
    /\ UNCHANGED <<sdr, fru, led, m_StatusLeds, gaveUp, lists>>

ReadProperties ==
    /\ pc = "properties"
    /\ pc' = "colors"
    /\ led' = 0
    /\ UNCHANGED <<sdr, fru, target, m_StatusLeds, gaveUp, lists>>

MoreLeds == led < 4

ReadColor ==
    /\ pc = "colors"
    /\ MoreLeds
    /\ led \in frus[fru].leds
    /\ m_StatusLeds' = [m_StatusLeds EXCEPT ![fru] = Append(@, led)]
    /\ led' = led + 1
    /\ UNCHANGED <<sdr, pc, fru, target, gaveUp, lists>>

NoSuchLed ==
    /\ pc = "colors"
    /\ MoreLeds
    /\ led \notin frus[fru].leds
    /\ led' = led + 1
    /\ UNCHANGED <<sdr, pc, fru, target, m_StatusLeds, gaveUp, lists>>

ResetTarget ==
    /\ pc = "colors"
    /\ ~MoreLeds
    /\ target' = None
    /\ ToNext("record", "attach")
    /\ UNCHANGED <<sdr, led, m_StatusLeds, gaveUp, lists>>

GiveUp ==
    /\ target' = None
    /\ gaveUp' = gaveUp \union {fru}

(* The target cannot be set, or a command fails or is answered with an     *)
(* error; the LEDs that are known already stay.                            *)
ProbeFails ==
    /\ \/ pc = "record" /\ ~frus[fru].excluded
       \/ pc = "properties"
       \/ pc = "colors" /\ MoreLeds /\ led \in frus[fru].leds
    /\ GiveUp
    /\ ToNext("record", "attach")
    /\ UNCHANGED <<sdr, led, m_StatusLeds, lists>>

-----------------------------------------------------------------------------
(* parseAssociations() of one FRU after the other, on what is left of the  *)
(* list of sensors.                                                        *)

CoolsWith(f, s) ==
    /\ frus[f].id = CoolingDomain
    /\ sensors[s].fan
    /\ sensors[s].instance = frus[f].instance

Belongs(f, s) ==
    \/ sensors[s].id = frus[f].id /\ sensors[s].instance = frus[f].instance
    \/ CoolsWith(f, s)

AtEnd == itr > Len(orphans)

(* The iterator that erase() returns is at the next sensor already, or at  *)
(* the end: it is compared with the erased one there too, but never moved. *)
Erase ==
    /\ orphans' = RemoveAt(orphans, itr)
    /\ UNCHANGED itr

Attach ==
    /\ pc = "attach"
    /\ ~AtEnd
    /\ Belongs(fru, orphans[itr])
    /\ sensor_records' = [sensor_records EXCEPT ![fru] = Append(@, orphans[itr])]
    /\ Erase
    /\ UNCHANGED <<sdr, pc, fru, probe>>

Advance == itr' = itr + 1

Skip ==
    /\ pc = "attach"
    /\ ~AtEnd
    /\ ~Belongs(fru, orphans[itr])
    /\ Advance
    /\ UNCHANGED <<sdr, pc, fru, probe, orphans, sensor_records>>

FruDone ==
    /\ pc = "attach"
    /\ AtEnd
    /\ itr' = 1
    /\ ToNext("attach", "done")
    /\ UNCHANGED <<sdr, probe, orphans, sensor_records>>

-----------------------------------------------------------------------------
Next ==
    \/ Excluded \/ SetTarget \/ ReadProperties \/ ReadColor \/ NoSuchLed
    \/ ResetTarget \/ ProbeFails
    \/ Attach \/ Skip \/ FruDone

Spec == Init /\ [][Next]_vars /\ WF_vars(Next)

-----------------------------------------------------------------------------
(* However the LEDs of a FRU are given up, the commands that follow go to  *)
(* the BMC again: those of the next FRU, of the sensors, of the SDR.       *)
TargetReset == pc \notin {"properties", "colors"} => target = None

Probed(f) == pc \in {"attach", "done"} \/ f < fru

(* The list is in the order of the orphans, or of the LEDs, and has        *)
(* nothing twice.                                                          *)
Ascending(q) == \A m, n \in 1 .. Len(q) : m < n => q[m] < q[n]

(* The LEDs of a FRU are the ones it reports, in their order and up to     *)
(* some number, and all of them unless a command failed.                   *)
LedsAsReported ==
    \A f \in Frus : Probed(f) =>
        LET known == ToSet(m_StatusLeds[f])
        IN  /\ Ascending(m_StatusLeds[f])
            /\ \E n \in 0 .. 4 : known = {l \in frus[f].leds : l < n}
            /\ known = frus[f].leds \/ f \in gaveUp \/ frus[f].excluded

(* The sensors that belong to no FRU before f, and those of them that      *)
(* belong to f.                                                            *)
LeftTo(f) == {s \in Sensors : \A g \in 1 .. f - 1 : ~Belongs(g, s)}

FirstOf(f) == {s \in LeftTo(f) : Belongs(f, s)}

(* Erasing from the list while walking along it neither skips a sensor nor *)
(* takes one twice: at the end it is as if parseAssociations() had         *)
(* filtered what the FRUs before have left, without changing the order.    *)
AttachedAsFiltered ==
    pc = "done" =>
        /\ \A f \in Frus : /\ ToSet(sensor_records[f]) = FirstOf(f)
                           /\ Ascending(sensor_records[f])
        /\ ToSet(orphans) = {s \in Sensors : \A f \in Frus : ~Belongs(f, s)}

(* The walk along the list ends.                                           *)
ReadEnds == <>(pc = "done")
=============================================================================
