-------------------------- MODULE FruRecordsProofs --------------------------
(***************************************************************************)
(* Theorems about FruRecords, for any number of FRUs and sensors.          *)
(***************************************************************************)
EXTENDS FruRecords, SequenceTheorems, TLAPS

Probing == {"record", "properties", "colors"}

(* Before the walk no sensor has been moved.                               *)
Untouched ==
    /\ itr = 1
    /\ ToSet(orphans) = Sensors
    /\ \A f \in Frus : sensor_records[f] = <<>>

(* During the walk for a FRU: a sensor that is left to it is in its list   *)
(* or still an orphan; those before the iterator do not belong to it, and  *)
(* those in its list are before the ones at and after the iterator.        *)
Walking ==
    /\ ToSet(orphans) = LeftTo(fru) \ ToSet(sensor_records[fru])
    /\ ToSet(sensor_records[fru]) \subseteq FirstOf(fru)
    /\ \A n \in 1 .. itr - 1 : ~Belongs(fru, orphans[n])
    /\ \A s \in ToSet(sensor_records[fru]) :
          \A n \in itr .. Len(orphans) : s < orphans[n]
    /\ \A g \in 1 .. fru - 1 : ToSet(sensor_records[g]) = FirstOf(g)
    /\ \A g \in fru + 1 .. FruCount : sensor_records[g] = <<>>

WalkInv ==
    /\ Ascending(orphans)
    /\ \A f \in Frus : Ascending(sensor_records[f])
    /\ pc \in Probing => Untouched
    /\ pc = "attach" => Walking
    /\ AttachedAsFiltered

FruInv == TypeOK /\ TargetReset /\ WalkInv

-----------------------------------------------------------------------------
(* Lists.                                                                  *)

(* A list after erase(): what is left keeps its order.                     *)
LEMMA Erased ==
  ASSUME NEW S, NEW q \in Seq(S), NEW n \in 1 .. Len(q)
  PROVE  /\ RemoveAt(q, n) \in Seq(S)
         /\ Len(RemoveAt(q, n)) = Len(q) - 1
         /\ \A j \in 1 .. Len(q) - 1 :
               RemoveAt(q, n)[j] = IF j < n THEN q[j] ELSE q[j + 1]
PROOF
  <1> DEFINE front == SubSeq(q, 1, n - 1)
             back == SubSeq(q, n + 1, Len(q))
  <1>1. /\ Len(q) \in Nat /\ n \in Nat /\ n >= 1 /\ n <= Len(q)
        /\ \A j \in 1 .. Len(q) : q[j] \in S
    BY LenProperties, ElementOfSeq
  <1>2. /\ front \in Seq(S) /\ Len(front) = n - 1
        /\ \A j \in 1 .. n - 1 : front[j] = q[j]
    <2>1. \A j \in 1 .. n - 1 : q[j] \in S
      BY <1>1
    <2> QED BY <1>1, <2>1, SubSeqProperties
  <1>3. /\ back \in Seq(S) /\ Len(back) = Len(q) - n
        /\ \A j \in 1 .. Len(q) - n : back[j] = q[n + j]
    <2>1. \A j \in n + 1 .. Len(q) : q[j] \in S
      BY <1>1
    <2> QED BY <1>1, <2>1, SubSeqProperties
  <1>4. RemoveAt(q, n) = front \o back
    BY DEF RemoveAt
  <1> HIDE DEF front, back
  <1>5. /\ front \o back \in Seq(S)
        /\ Len(front \o back) = (n - 1) + (Len(q) - n)
        /\ \A j \in 1 .. (n - 1) + (Len(q) - n) :
              (front \o back)[j] = IF j <= n - 1 THEN front[j] ELSE back[j - (n - 1)]
    <2>1. /\ front \o back \in Seq(S)
          /\ Len(front \o back) = Len(front) + Len(back)
          /\ \A j \in 1 .. Len(front) + Len(back) :
                (front \o back)[j] = IF j <= Len(front) THEN front[j]
                                                        ELSE back[j - Len(front)]
      BY <1>2, <1>3, ConcatProperties
    <2> QED BY <2>1, <1>2, <1>3
  <1>6. ASSUME NEW j \in 1 .. Len(q) - 1
        PROVE  RemoveAt(q, n)[j] = IF j < n THEN q[j] ELSE q[j + 1]
    <2>1. CASE j < n
      <3>1. j \in 1 .. n - 1 /\ j \in 1 .. (n - 1) + (Len(q) - n)
        BY <1>1, <2>1
      <3> QED BY <1>2, <1>4, <1>5, <2>1, <3>1
    <2>2. CASE ~(j < n)
      <3>1. /\ j - (n - 1) \in 1 .. Len(q) - n /\ n + (j - (n - 1)) = j + 1
            /\ j \in 1 .. (n - 1) + (Len(q) - n) /\ ~(j <= n - 1)
        BY <1>1, <2>2
      <3> QED BY <1>3, <1>4, <1>5, <2>2, <3>1
    <2> QED BY <2>1, <2>2
  <1> QED BY <1>1, <1>4, <1>5, <1>6

LEMMA ToSetOfList ==
  ASSUME NEW S, NEW q \in Seq(S)
  PROVE  /\ ToSet(q) = {q[n] : n \in 1 .. Len(q)}
         /\ ToSet(q) \subseteq S
PROOF BY LenProperties, ElementOfSeq DEF ToSet

LEMMA EmptyList == ToSet(<<>>) = {} /\ Ascending(<<>>)
PROOF BY EmptySeq DEF ToSet, Ascending

(* An element that is moved from one list to the end of another.           *)
LEMMA ErasedAscending ==
  ASSUME NEW q \in Seq(Nat), Ascending(q), NEW n \in 1 .. Len(q)
  PROVE  /\ Ascending(RemoveAt(q, n))
         /\ ToSet(RemoveAt(q, n)) = ToSet(q) \ {q[n]}
PROOF
  <1> DEFINE r == RemoveAt(q, n)
  <1>1. /\ r \in Seq(Nat) /\ Len(r) = Len(q) - 1
        /\ \A j \in 1 .. Len(q) - 1 : r[j] = IF j < n THEN q[j] ELSE q[j + 1]
    BY Erased
  <1>2. Len(q) \in Nat /\ \A j \in 1 .. Len(q) : q[j] \in Nat
    BY LenProperties, ElementOfSeq
  <1> HIDE DEF r
  <1>3. Ascending(r)
    <2> SUFFICES ASSUME NEW i \in 1 .. Len(q) - 1, NEW j \in 1 .. Len(q) - 1, i < j
                 PROVE  r[i] < r[j]
      BY <1>1 DEF Ascending
    <2>1. /\ i \in 1 .. Len(q) /\ i + 1 \in 1 .. Len(q)
          /\ j \in 1 .. Len(q) /\ j + 1 \in 1 .. Len(q)
      BY <1>2
    <2>2. /\ q[i] < q[j] /\ q[i + 1] < q[j + 1] /\ q[i] < q[j + 1]
      BY <1>2, <2>1 DEF Ascending
    <2>3. /\ r[i] = IF i < n THEN q[i] ELSE q[i + 1]
          /\ r[j] = IF j < n THEN q[j] ELSE q[j + 1]
      BY <1>1
    <2> QED BY <1>2, <2>2, <2>3
  <1>4. ToSet(r) = {r[j] : j \in 1 .. Len(q) - 1} /\ ToSet(q) = {q[j] : j \in 1 .. Len(q)}
    BY <1>1, ToSetOfList
  <1>5. ASSUME NEW j \in 1 .. Len(q) - 1 PROVE r[j] \in ToSet(q) \ {q[n]}
    <2>1. j \in 1 .. Len(q) /\ j + 1 \in 1 .. Len(q)
      BY <1>2
    <2>2. CASE j < n
      <3>1. r[j] = q[j]
        BY <1>1, <2>2
      <3>2. q[j] < q[n] /\ q[n] \in Nat /\ q[j] \in Nat
        BY <1>2, <2>1, <2>2 DEF Ascending
      <3> QED BY <1>4, <2>1, <3>1, <3>2
    <2>3. CASE ~(j < n)
      <3>1. n < j + 1
        BY <1>2, <2>3
      <3>2. q[n] < q[j + 1] /\ q[n] \in Nat /\ q[j + 1] \in Nat
        BY <1>2, <2>1, <3>1 DEF Ascending
      <3>3. r[j] = q[j + 1]
        BY <1>1, <2>3
      <3> QED BY <1>4, <2>1, <3>2, <3>3
    <2> QED BY <2>2, <2>3
  <1>6. ASSUME NEW j \in 1 .. Len(q), q[j] # q[n] PROVE q[j] \in ToSet(r)
    <2>1. CASE j < n
      <3>1. j \in 1 .. Len(q) - 1
        BY <1>2, <2>1
      <3>2. r[j] = q[j]
        BY <1>1, <2>1, <3>1
      <3> QED BY <1>4, <3>1, <3>2
    <2>2. CASE j > n
      <3>1. /\ j - 1 \in 1 .. Len(q) - 1 /\ ~(j - 1 < n) /\ (j - 1) + 1 = j
        BY <1>2, <2>2
      <3>2. r[j - 1] = q[j]
        BY <1>1, <3>1
      <3> QED BY <1>4, <3>1, <3>2
    <2> QED BY <1>2, <1>6, <2>1, <2>2
  <1>7. ToSet(r) = ToSet(q) \ {q[n]}
    BY <1>4, <1>5, <1>6
  <1> QED BY <1>3, <1>7 DEF r

LEMMA AppendedAscending ==
  ASSUME NEW q \in Seq(Nat), Ascending(q), NEW x \in Nat, \A y \in ToSet(q) : y < x
  PROVE  /\ Ascending(Append(q, x))
         /\ ToSet(Append(q, x)) = ToSet(q) \union {x}
PROOF
  <1>1. /\ Append(q, x) \in Seq(Nat) /\ Len(Append(q, x)) = Len(q) + 1
        /\ \A j \in 1 .. Len(q) : Append(q, x)[j] = q[j]
        /\ Append(q, x)[Len(q) + 1] = x
        /\ Len(q) \in Nat
    OBVIOUS
  <1>2. /\ ToSet(q) = {q[j] : j \in 1 .. Len(q)}
        /\ ToSet(Append(q, x)) = {Append(q, x)[j] : j \in 1 .. Len(q) + 1}
    BY <1>1, ToSetOfList
  <1>3. 1 .. Len(q) + 1 = (1 .. Len(q)) \union {Len(q) + 1}
    BY <1>1
  <1>4. ToSet(Append(q, x)) = ToSet(q) \union {x}
    BY <1>1, <1>2, <1>3
  <1>5. Ascending(Append(q, x))
    <2> SUFFICES ASSUME NEW i \in 1 .. Len(q) + 1, NEW j \in 1 .. Len(q) + 1, i < j
                 PROVE  Append(q, x)[i] < Append(q, x)[j]
      BY <1>1 DEF Ascending
    <2>1. i \in 1 .. Len(q)
      BY <1>1
    <2> QED BY <1>1, <1>2, <1>3, <2>1 DEF Ascending
  <1> QED BY <1>4, <1>5

-----------------------------------------------------------------------------
(* The steps.                                                              *)

(* What a record is, who it belongs to and in which order, stays.          *)
LEMMA SameSdr ==
  ASSUME UNCHANGED sdr
  PROVE  /\ \A f, s : Belongs(f, s)' <=> Belongs(f, s)
         /\ \A f : LeftTo(f)' = LeftTo(f) /\ FirstOf(f)' = FirstOf(f)
PROOF
  <1>1. \A f, s : Belongs(f, s)' <=> Belongs(f, s)
    BY DEF sdr, Belongs, CoolsWith
  <1>2. \A f : LeftTo(f)' = LeftTo(f)
    BY <1>1 DEF LeftTo
  <1> QED BY <1>1, <1>2 DEF FirstOf

LEMMA FruInit == Init => FruInv
PROOF
  <1> SUFFICES ASSUME Init PROVE FruInv
    OBVIOUS
  <1>1. /\ frus \in [Frus -> FruKinds] /\ sensors \in [Sensors -> SensorKinds]
        /\ pc = "record" /\ fru = 1 /\ led = 0 /\ target = None /\ itr = 1
        /\ m_StatusLeds = [f \in Frus |-> <<>>] /\ gaveUp = {}
        /\ orphans = [s \in Sensors |-> s]
        /\ sensor_records = [f \in Frus |-> <<>>]
    BY DEF Init
  <1>2. /\ orphans \in Seq(Sensors) /\ Len(orphans) = SensorCount
        /\ \A n \in 1 .. SensorCount : orphans[n] = n
    BY <1>1, CountsAssumption DEF Sensors
  <1>3. TypeOK
    BY <1>1, <1>2, CountsAssumption DEF TypeOK, Frus
  <1>4. ToSet(orphans) = Sensors
    <2>1. ToSet(orphans) = {orphans[n] : n \in 1 .. SensorCount}
      BY <1>2, ToSetOfList
    <2> QED BY <1>2, <2>1 DEF Sensors
  <1>5. WalkInv
    BY <1>1, <1>2, <1>4, EmptyList
       DEF WalkInv, Untouched, Ascending, Probing, AttachedAsFiltered
  <1> QED BY <1>1, <1>3, <1>5 DEF FruInv, TargetReset

Probe ==
    Excluded \/ SetTarget \/ ReadProperties \/ ReadColor \/ NoSuchLed
    \/ ResetTarget \/ ProbeFails

(* Reading the LEDs does not touch the lists.                              *)
LEMMA ProbeStep ==
  ASSUME FruInv, Probe
  PROVE  FruInv'
PROOF
  <1>1. /\ TypeOK /\ TargetReset /\ WalkInv
        /\ FruCount \in Nat \ {0}
    BY CountsAssumption DEF FruInv
  <1>2. /\ UNCHANGED <<frus, sensors, orphans, itr, sensor_records>>
        /\ pc \in Probing
        /\ \/ pc' \in Probing /\ fru' \in Frus
           \/ pc' = "attach" /\ fru' = 1
    <2>1. /\ fru \in 1 .. FruCount /\ fru + 1 \in Nat
          /\ fru < FruCount => fru + 1 \in Frus
      BY <1>1 DEF TypeOK, Frus
    <2>2. CASE Excluded \/ ResetTarget \/ ProbeFails
      <3>1. ToNext("record", "attach") /\ UNCHANGED sdr /\ UNCHANGED lists
        BY <2>2 DEF Excluded, ResetTarget, ProbeFails
      <3>2. pc \in Probing
        BY <2>2 DEF Excluded, ResetTarget, ProbeFails, Probing
      <3> QED BY <2>1, <3>1, <3>2 DEF ToNext, sdr, lists, Probing
    <2>3. CASE SetTarget \/ ReadProperties \/ ReadColor \/ NoSuchLed
      BY <2>1, <2>3 DEF SetTarget, ReadProperties, ReadColor, NoSuchLed,
                        sdr, lists, Probing, Frus
    <2> QED BY <2>2, <2>3 DEF Probe
  <1>3. TypeOK'
    <2>1. /\ led' \in 0 .. 4 /\ target' \in Frus \union {None}
          /\ m_StatusLeds' \in [Frus -> Seq(Leds)] /\ gaveUp' \in SUBSET Frus
      <3>1. CASE ReadColor
        <4>1. led \in Leds /\ led + 1 \in 0 .. 4 /\ led' = led + 1
          BY <1>1, <3>1 DEF ReadColor, MoreLeds, TypeOK, Leds
        <4>2. m_StatusLeds[fru] \in Seq(Leds)
          BY <1>1 DEF TypeOK
        <4>3. Append(m_StatusLeds[fru], led) \in Seq(Leds)
          BY <4>1, <4>2
        <4> QED BY <1>1, <3>1, <4>1, <4>3 DEF ReadColor, TypeOK
      <3>2. CASE ~ReadColor
        BY <1>1, <3>2 DEF Probe, Excluded, SetTarget, ReadProperties, NoSuchLed, MoreLeds,
                          ResetTarget, ProbeFails, GiveUp, probe, TypeOK
      <3> QED BY <3>1, <3>2
    <2>2. fru' \in Frus
      BY <1>1, <1>2 DEF Frus
    <2> QED BY <1>1, <1>2, <2>1, <2>2 DEF TypeOK, Probing
  <1>4. TargetReset'
    BY <1>1 DEF TargetReset, Probe, Excluded, SetTarget, ReadProperties, ReadColor,
                NoSuchLed, ResetTarget, ProbeFails, GiveUp, ToNext, probe
  <1>5. WalkInv'
    <2>1. Untouched
      BY <1>1, <1>2 DEF WalkInv
    <2>2. Untouched'
      BY <1>2, <2>1 DEF Untouched
    <2>3. ASSUME pc' = "attach" PROVE Walking'
      <3>1. /\ fru' = 1 /\ itr' = 1 /\ fru' \in Frus
            /\ LeftTo(1)' = Sensors
        BY <1>1, <1>2, <2>2, <2>3 DEF Untouched, LeftTo, Probing, Frus
      <3>2. /\ ToSet(sensor_records'[fru']) = {} /\ ToSet(orphans') = Sensors
            /\ \A f \in Frus : sensor_records'[f] = <<>>
        BY <2>2, <3>1, EmptyList DEF Untouched
      <3>3. \A g \in fru' + 1 .. FruCount : g \in Frus
        BY <1>1, <3>1 DEF Frus
      <3>4. 1 .. itr' - 1 = {} /\ 1 .. fru' - 1 = {}
        BY <3>1
      <3>5. LeftTo(fru)' = Sensors
        BY <3>4 DEF LeftTo
      <3> QED BY <3>2, <3>3, <3>4, <3>5 DEF Walking
    <2>4. pc' # "done"
      BY <1>2 DEF Probing
    <2>5. Ascending(orphans)' /\ \A f \in Frus : Ascending(sensor_records[f])'
      BY <1>1, <1>2 DEF WalkInv
    <2> QED BY <2>2, <2>3, <2>4, <2>5 DEF WalkInv, AttachedAsFiltered
  <1> QED BY <1>3, <1>4, <1>5 DEF FruInv

LEMMA WalkFacts ==
  ASSUME FruInv, pc = "attach"
  PROVE  /\ fru \in Frus /\ fru \in Nat /\ FruCount \in Nat \ {0} /\ fru <= FruCount
         /\ target = None /\ Walking
         /\ Len(orphans) \in Nat /\ itr \in 1 .. Len(orphans) + 1
         /\ \A n \in 1 .. Len(orphans) : orphans[n] \in Sensors
         /\ orphans \in Seq(Nat) /\ orphans \in Seq(Sensors) /\ Ascending(orphans)
         /\ sensor_records[fru] \in Seq(Nat) /\ sensor_records[fru] \in Seq(Sensors)
         /\ Ascending(sensor_records[fru])
         /\ ToSet(sensor_records[fru]) \subseteq Sensors
         /\ ToSet(orphans) = {orphans[n] : n \in 1 .. Len(orphans)}
         /\ Sensors \subseteq Nat
PROOF
  <1>1. TypeOK /\ TargetReset /\ WalkInv
    BY DEF FruInv
  <1>2. Sensors \subseteq Nat /\ Frus \subseteq Nat /\ FruCount \in Nat \ {0}
    BY CountsAssumption DEF Sensors, Frus
  <1>3. \A q \in Seq(Sensors) : q \in Seq(Nat)
    BY <1>2, SeqMonotonic
  <1>4. /\ fru \in Frus /\ orphans \in Seq(Sensors) /\ itr \in 1 .. Len(orphans) + 1
        /\ sensor_records[fru] \in Seq(Sensors)
    BY <1>1 DEF TypeOK
  <1>5. fru <= FruCount
    BY <1>4 DEF Frus
  <1>6. target = None /\ Walking
    BY <1>1 DEF TargetReset, WalkInv
  <1>7. Ascending(orphans) /\ Ascending(sensor_records[fru])
    BY <1>1, <1>4 DEF WalkInv
  <1> QED BY <1>2, <1>3, <1>4, <1>5, <1>6, <1>7, ToSetOfList, LenProperties, ElementOfSeq

(* erase() moves the sensor at the iterator, and the one behind it comes   *)
(* into its place.                                                         *)
LEMMA AttachStep ==
  ASSUME FruInv, Attach
  PROVE  FruInv'
PROOF
  <1> DEFINE x == orphans[itr]
             mine == sensor_records[fru]
  <1>1. /\ pc = "attach" /\ itr \in 1 .. Len(orphans)
        /\ Belongs(fru, x)
        /\ sensor_records' = [sensor_records EXCEPT ![fru] = Append(mine, x)]
        /\ orphans' = RemoveAt(orphans, itr) /\ itr' = itr
        /\ UNCHANGED <<frus, sensors, pc, fru, led, target, m_StatusLeds, gaveUp>>
    <2>1. Len(orphans) \in Nat /\ itr \in 1 .. Len(orphans) + 1
      BY WalkFacts DEF Attach
    <2> QED BY <2>1 DEF Attach, Erase, AtEnd, sdr, probe
  <1>2. /\ fru \in Frus /\ Walking /\ TypeOK /\ WalkInv /\ TargetReset
        /\ orphans \in Seq(Nat) /\ orphans \in Seq(Sensors) /\ Ascending(orphans)
        /\ mine \in Seq(Nat) /\ mine \in Seq(Sensors) /\ Ascending(mine)
        /\ x \in Sensors /\ x \in Nat /\ x \in ToSet(orphans)
        /\ Len(orphans) \in Nat
    BY <1>1, WalkFacts DEF FruInv
  <1>3. /\ Ascending(orphans') /\ ToSet(orphans') = ToSet(orphans) \ {x}
        /\ orphans' \in Seq(Sensors) /\ Len(orphans') = Len(orphans) - 1
        /\ \A n \in 1 .. Len(orphans) - 1 :
              orphans'[n] = IF n < itr THEN orphans[n] ELSE orphans[n + 1]
    BY <1>1, <1>2, ErasedAscending, Erased
  <1>4. \A y \in ToSet(mine) : y < x
    <2>1. itr \in itr .. Len(orphans)
      BY <1>1, <1>2
    <2> QED BY <1>2, <2>1 DEF Walking
  <1>5. /\ Ascending(Append(mine, x)) /\ ToSet(Append(mine, x)) = ToSet(mine) \union {x}
        /\ Append(mine, x) \in Seq(Sensors)
    <2>1. Append(mine, x) \in Seq(Sensors)
      BY <1>2
    <2> QED BY <1>2, <1>4, <2>1, AppendedAscending
  <1>6. /\ sensor_records'[fru] = Append(mine, x)
        /\ \A g \in Frus \ {fru} : sensor_records'[g] = sensor_records[g]
        /\ sensor_records' \in [Frus -> Seq(Sensors)]
    BY <1>1, <1>2, <1>5 DEF TypeOK
  <1> HIDE DEF x, mine
  <1>7. TypeOK'
    BY <1>1, <1>2, <1>3, <1>6 DEF TypeOK
  <1>8. /\ \A f, s : Belongs(f, s)' <=> Belongs(f, s)
        /\ \A f : LeftTo(f)' = LeftTo(f) /\ FirstOf(f)' = FirstOf(f)
    BY <1>1, SameSdr DEF sdr
  <1>9. LeftTo(fru)' = LeftTo(fru) /\ FirstOf(fru)' = FirstOf(fru)
    BY <1>1 DEF LeftTo, FirstOf, Belongs, CoolsWith
  <1>10. Walking'
    <2>1. ToSet(orphans') = LeftTo(fru) \ ToSet(sensor_records'[fru])
      BY <1>2, <1>3, <1>5, <1>6 DEF Walking, mine
    <2>2. ToSet(sensor_records'[fru]) \subseteq FirstOf(fru)
      <3>1. x \in LeftTo(fru)
        BY <1>2 DEF Walking
      <3> QED BY <1>1, <1>2, <1>5, <1>6, <3>1 DEF Walking, FirstOf, mine
    <2>3. \A n \in 1 .. itr' - 1 : ~Belongs(fru, orphans'[n])
      <3>1. \A n \in 1 .. itr - 1 : n \in 1 .. Len(orphans) - 1 /\ orphans'[n] = orphans[n]
        BY <1>1, <1>2, <1>3
      <3> QED BY <1>1, <1>2, <3>1 DEF Walking
    <2>4. ASSUME NEW s \in ToSet(sensor_records'[fru]), NEW n \in itr' .. Len(orphans')
          PROVE  s < orphans'[n]
      <3>1. /\ n + 1 \in itr .. Len(orphans) /\ n + 1 \in 1 .. Len(orphans)
            /\ itr < n + 1 /\ orphans'[n] = orphans[n + 1]
        BY <1>1, <1>2, <1>3
      <3>2. CASE s = x
        BY <1>1, <1>2, <3>1, <3>2 DEF Ascending, x
      <3>3. CASE s \in ToSet(mine)
        BY <1>2, <3>1, <3>3 DEF Walking, mine
      <3> QED BY <1>5, <1>6, <3>2, <3>3
    <2>5. /\ \A g \in 1 .. fru - 1 : ToSet(sensor_records'[g]) = FirstOf(g)'
          /\ \A g \in fru + 1 .. FruCount : sensor_records'[g] = <<>>
      <3>1. /\ \A g \in 1 .. fru - 1 : g \in Frus \ {fru}
            /\ \A g \in fru + 1 .. FruCount : g \in Frus \ {fru}
        BY <1>2, CountsAssumption DEF Frus
      <3>2. \A g \in 1 .. fru - 1 : FirstOf(g)' = FirstOf(g)
        BY <1>8
      <3> QED BY <1>2, <1>6, <3>1, <3>2 DEF Walking
    <2> QED BY <1>1, <1>8, <1>9, <2>1, <2>2, <2>3, <2>4, <2>5 DEF Walking
  <1>11. WalkInv'
    BY <1>1, <1>2, <1>3, <1>5, <1>6, <1>10 DEF WalkInv, AttachedAsFiltered, Probing
  <1> QED BY <1>1, <1>2, <1>7, <1>11 DEF FruInv, TargetReset

LEMMA SkipStep ==
  ASSUME FruInv, Skip
  PROVE  FruInv'
PROOF
  <1>1. /\ pc = "attach" /\ itr \in 1 .. Len(orphans) /\ itr' = itr + 1
        /\ ~Belongs(fru, orphans[itr])
        /\ UNCHANGED <<frus, sensors, pc, fru, led, target, m_StatusLeds, gaveUp,
                       orphans, sensor_records>>
    <2>1. Len(orphans) \in Nat /\ itr \in 1 .. Len(orphans) + 1
      BY WalkFacts DEF Skip
    <2> QED BY <2>1 DEF Skip, Advance, AtEnd, sdr, probe
  <1>2. Walking /\ Len(orphans) \in Nat /\ TypeOK /\ TargetReset /\ WalkInv
    BY <1>1, WalkFacts DEF FruInv
  <1>3. TypeOK'
    BY <1>1, <1>2 DEF TypeOK
  <1>4. Walking'
    <2>1. /\ \A f, s : Belongs(f, s)' <=> Belongs(f, s)
          /\ \A f : LeftTo(f)' = LeftTo(f) /\ FirstOf(f)' = FirstOf(f)
      BY <1>1, SameSdr DEF sdr
    <2>2. LeftTo(fru)' = LeftTo(fru) /\ FirstOf(fru)' = FirstOf(fru)
      BY <1>1 DEF LeftTo, FirstOf, Belongs, CoolsWith
    <2>3. \A n \in 1 .. itr' - 1 : ~Belongs(fru, orphans[n])
      BY <1>1, <1>2 DEF Walking
    <2>4. \A n \in itr' .. Len(orphans) : n \in itr .. Len(orphans)
      BY <1>1, <1>2
    <2>5. \A n \in 1 .. itr' - 1 : ~Belongs(fru, orphans[n])'
      BY <1>1, <2>3 DEF Belongs, CoolsWith
    <2> QED BY <1>1, <1>2, <2>1, <2>2, <2>4, <2>5 DEF Walking
  <1> QED BY <1>1, <1>2, <1>3, <1>4
          DEF FruInv, TargetReset, WalkInv, AttachedAsFiltered, Probing

(* At the end of the list nothing is left that belongs to the FRU.         *)
LEMMA FruDoneStep ==
  ASSUME FruInv, FruDone
  PROVE  FruInv'
PROOF
  <1>1. /\ pc = "attach" /\ itr' = 1
        /\ UNCHANGED <<frus, sensors, led, target, m_StatusLeds, gaveUp,
                       orphans, sensor_records>>
        /\ fru' = IF fru < FruCount THEN fru + 1 ELSE 1
        /\ pc' = IF fru < FruCount THEN "attach" ELSE "done"
    BY DEF FruDone, ToNext, sdr, probe
  <1>2. /\ Walking /\ Len(orphans) \in Nat /\ TypeOK /\ TargetReset /\ WalkInv
        /\ fru \in Frus /\ fru \in Nat /\ FruCount \in Nat \ {0} /\ fru <= FruCount
        /\ ToSet(orphans) = {orphans[n] : n \in 1 .. Len(orphans)}
        /\ itr = Len(orphans) + 1
    <2>1. itr \in 1 .. Len(orphans) + 1 /\ Len(orphans) \in Nat
      BY <1>1, WalkFacts
    <2>2. itr = Len(orphans) + 1
      BY <2>1 DEF FruDone, AtEnd
    <2> QED BY <1>1, <2>2, WalkFacts DEF FruInv
  <1>3. /\ \A s \in ToSet(orphans) : ~Belongs(fru, s)
        /\ ToSet(sensor_records[fru]) = FirstOf(fru)
        /\ ToSet(orphans) = LeftTo(fru) \ FirstOf(fru)
    <2>1. \A s \in ToSet(orphans) : ~Belongs(fru, s)
      BY <1>2 DEF Walking
    <2>2. FirstOf(fru) \subseteq LeftTo(fru) /\ \A s \in FirstOf(fru) : Belongs(fru, s)
      BY DEF FirstOf
    <2> QED BY <1>2, <2>1, <2>2 DEF Walking
  <1>4. \A g \in 1 .. fru : ToSet(sensor_records[g]) = FirstOf(g)
    BY <1>2, <1>3 DEF Walking
  <1>5. ToSet(orphans) = {s \in Sensors : \A g \in 1 .. fru : ~Belongs(g, s)}
    <2>1. 1 .. fru = (1 .. fru - 1) \union {fru}
      BY <1>2 DEF Frus
    <2> QED BY <1>3, <2>1 DEF LeftTo, FirstOf
  <1>6. /\ \A f, s : Belongs(f, s)' <=> Belongs(f, s)
        /\ \A f : LeftTo(f)' = LeftTo(f) /\ FirstOf(f)' = FirstOf(f)
    BY <1>1, SameSdr DEF sdr
  <1>7. TypeOK'
    BY <1>1, <1>2 DEF TypeOK, Frus
  <1>8. CASE fru < FruCount
    <2>1. /\ pc' = "attach" /\ fru' = fru + 1 /\ fru' - 1 = fru /\ 1 .. itr' - 1 = {}
          /\ fru + 1 \in fru + 1 .. FruCount
          /\ \A g \in fru' + 1 .. FruCount : g \in fru + 1 .. FruCount
      BY <1>1, <1>2, <1>8
    <2>2. /\ sensor_records[fru + 1] = <<>> /\ ToSet(sensor_records'[fru']) = {}
          /\ \A g \in fru' + 1 .. FruCount : sensor_records'[g] = <<>>
      BY <1>1, <1>2, <2>1, EmptyList DEF Walking
    <2>3. LeftTo(fru)' = {s \in Sensors : \A g \in 1 .. fru : ~Belongs(g, s)}
      BY <1>6, <2>1 DEF LeftTo
    <2>4. Walking'
      BY <1>1, <1>4, <1>5, <1>6, <2>1, <2>2, <2>3 DEF Walking
    <2> QED BY <1>1, <1>2, <1>7, <2>1, <2>4
            DEF FruInv, TargetReset, WalkInv, AttachedAsFiltered, Probing
  <1>9. CASE ~(fru < FruCount)
    <2>1. pc' = "done" /\ fru = FruCount /\ 1 .. fru = Frus
      BY <1>1, <1>2, <1>9 DEF Frus
    <2>2. AttachedAsFiltered'
      BY <1>1, <1>2, <1>4, <1>5, <1>6, <2>1 DEF AttachedAsFiltered, WalkInv
    <2> QED BY <1>1, <1>2, <1>7, <2>1, <2>2 DEF FruInv, TargetReset, WalkInv, Probing
  <1> QED BY <1>8, <1>9

LEMMA FruStep == FruInv /\ [Next]_vars => FruInv'
PROOF
  <1> SUFFICES ASSUME FruInv, [Next]_vars PROVE FruInv'
    OBVIOUS
  <1>1. CASE UNCHANGED vars
    <2>1. /\ UNCHANGED <<frus, sensors, pc, fru, led, target, m_StatusLeds, gaveUp,
                         orphans, itr, sensor_records>>
          /\ UNCHANGED sdr
      BY <1>1 DEF vars, sdr, probe, lists
    <2>2. /\ \A f, s : Belongs(f, s)' <=> Belongs(f, s)
          /\ \A f : LeftTo(f)' = LeftTo(f) /\ FirstOf(f)' = FirstOf(f)
          /\ LeftTo(fru)' = LeftTo(fru) /\ FirstOf(fru)' = FirstOf(fru)
      BY <2>1, SameSdr DEF LeftTo, FirstOf, Belongs, CoolsWith
    <2>3. TypeOK' /\ TargetReset' /\ (Untouched' <=> Untouched)
      BY <2>1 DEF FruInv, TypeOK, TargetReset, Untouched
    <2>4. Walking => Walking'
      BY <2>1, <2>2 DEF Walking, Belongs, CoolsWith
    <2>5. AttachedAsFiltered => AttachedAsFiltered'
      BY <2>1, <2>2 DEF AttachedAsFiltered
    <2> QED BY <2>1, <2>3, <2>4, <2>5 DEF FruInv, WalkInv
  <1>2. CASE Next
    BY <1>2, ProbeStep, AttachStep, SkipStep, FruDoneStep DEF Next, Probe
  <1> QED BY <1>1, <1>2

LEMMA FruAlways == Spec => []FruInv
PROOF BY FruInit, FruStep, PTL DEF Spec

-----------------------------------------------------------------------------
(* The LEDs.                                                               *)

(* The LEDs of a FRU that has been asked.                                  *)
Reported(f) ==
    /\ \E n \in 0 .. 4 : ToSet(m_StatusLeds[f]) = {l \in frus[f].leds : l < n}
    /\ \/ ToSet(m_StatusLeds[f]) = frus[f].leds
       \/ f \in gaveUp \/ frus[f].excluded

(* A FRU that has not been asked yet has no LEDs; one that is being asked  *)
(* has those before the i of the loop.                                     *)
LedInv ==
    /\ \A f \in Frus : Ascending(m_StatusLeds[f])
    /\ \A f \in Frus : Probed(f) => Reported(f)
    /\ pc \in Probing => \A f \in Frus : f > fru => m_StatusLeds[f] = <<>>
    /\ pc \in {"record", "properties"} => m_StatusLeds[fru] = <<>>
    /\ pc = "colors" =>
          ToSet(m_StatusLeds[fru]) = {l \in frus[fru].leds : l < led}

LEMMA LedInit == Init => LedInv
PROOF
  <1> SUFFICES ASSUME Init PROVE LedInv
    OBVIOUS
  <1>1. /\ pc = "record" /\ fru = 1 /\ 1 \in Frus
        /\ \A f \in Frus : m_StatusLeds[f] = <<>> /\ ~(f < 1)
    BY CountsAssumption DEF Init, Frus
  <1> QED BY <1>1, EmptyList DEF LedInv, Probed, Probing

LEMMA LedFacts ==
  ASSUME TypeOK
  PROVE  /\ fru \in Frus /\ fru \in Nat /\ FruCount \in Nat \ {0} /\ fru <= FruCount
         /\ Frus \subseteq Nat /\ led \in 0 .. 4
         /\ \A f \in Frus : /\ frus[f].leds \subseteq 0 .. 3
                            /\ m_StatusLeds[f] \in Seq(Leds)
                            /\ m_StatusLeds[f] \in Seq(Nat)
PROOF
  <1>1. Leds \subseteq Nat
    BY DEF Leds
  <1>2. \A q \in Seq(Leds) : q \in Seq(Nat)
    BY <1>1, SeqMonotonic
  <1> QED BY <1>2, KindsAssumption, CountsAssumption DEF TypeOK, Frus, Leds

(* On to the next FRU when the LEDs of this one are as reported.           *)
LEMMA NextFruStep ==
  ASSUME TypeOK, LedInv, pc \in Probing, ToNext("record", "attach"),
         UNCHANGED <<frus, m_StatusLeds>>, gaveUp \subseteq gaveUp',
         NEW e \in Frus, e = fru, Reported(e)'
  PROVE  LedInv'
PROOF
  <1>1. ASSUME NEW f \in Frus, Probed(f)' PROVE Reported(f)'
    <2>1. CASE f < fru
      <3>1. Reported(f)
        BY <2>1 DEF LedInv, Probed
      <3> QED BY <3>1 DEF Reported
    <2>2. CASE f = fru
      BY <2>2
    <2>3. CASE f > fru
      <3>1. FALSE
        BY <1>1, <2>3, LedFacts DEF ToNext, Probed, Frus
      <3> QED BY <3>1
    <2> QED BY <2>1, <2>2, <2>3, LedFacts
  <1>2. pc' \in Probing => pc' = "record" /\ fru' = fru + 1 /\ fru' \in Frus
    BY LedFacts DEF ToNext, Probing, Frus
  <1>3. pc' \in Probing => \A f \in Frus : f >= fru' => m_StatusLeds[f] = <<>>
    BY <1>2, LedFacts DEF LedInv
  <1>4. \A f \in Frus : Ascending(m_StatusLeds[f])'
    BY DEF LedInv
  <1>5. pc' \notin {"properties", "colors"}
    BY DEF ToNext
  <1> QED BY <1>1, <1>2, <1>3, <1>4, <1>5, LedFacts DEF LedInv, Probing

LEMMA LedStep == TypeOK /\ LedInv /\ [Next]_vars => LedInv'
PROOF
  <1> SUFFICES ASSUME TypeOK, LedInv, [Next]_vars PROVE LedInv'
    OBVIOUS
  <1> DEFINE Below(f, n) == {l \in frus[f].leds : l < n}
  <1>1. /\ ToSet(<<>>) = {}
        /\ \A f \in Frus : Below(f, 0) = {} /\ Below(f, 4) = frus[f].leds
    <2>1. ASSUME NEW f \in Frus PROVE Below(f, 0) = {} /\ Below(f, 4) = frus[f].leds
      <3>1. \A l \in frus[f].leds : l \in 0 .. 3
        BY LedFacts
      <3> QED BY <3>1
    <2> QED BY <2>1, EmptyList
  <1>2. CASE Excluded
    <2>1. /\ pc = "record" /\ ToNext("record", "attach") /\ frus[fru].excluded
          /\ UNCHANGED <<frus, m_StatusLeds, gaveUp>>
      BY <1>2 DEF Excluded, sdr, probe
    <2>2. PICK e \in Frus : e = fru
      BY LedFacts
    <2>3. Reported(e)'
      <3>1. ToSet(m_StatusLeds[e]) = Below(e, 0)
        BY <1>1, <2>1, <2>2 DEF LedInv
      <3> QED BY <2>1, <2>2, <3>1 DEF Reported
    <2> QED BY <2>1, <2>2, <2>3, NextFruStep DEF Probing
  <1>3. CASE ProbeFails
    <2>1. /\ pc \in Probing /\ ToNext("record", "attach")
          /\ UNCHANGED <<frus, m_StatusLeds>> /\ gaveUp' = gaveUp \union {fru}
      BY <1>3 DEF ProbeFails, GiveUp, sdr, Probing
    <2>2. PICK e \in Frus : e = fru
      BY LedFacts
    <2>3. Reported(e)'
      <3>1. \E n \in 0 .. 4 : ToSet(m_StatusLeds[e]) = Below(e, n)
        <4>1. CASE pc = "colors"
          BY <2>2, <4>1, LedFacts DEF LedInv
        <4>2. CASE pc \in {"record", "properties"}
          <5>1. ToSet(m_StatusLeds[e]) = Below(e, 0)
            BY <1>1, <2>2, <4>2 DEF LedInv
          <5> QED BY <5>1
        <4> QED BY <2>1, <4>1, <4>2 DEF Probing
      <3> QED BY <2>1, <2>2, <3>1 DEF Reported
    <2> QED BY <2>1, <2>2, <2>3, NextFruStep
  <1>4. CASE ResetTarget
    <2>1. /\ pc = "colors" /\ ToNext("record", "attach") /\ led = 4
          /\ UNCHANGED <<frus, m_StatusLeds, gaveUp>>
      BY <1>4, LedFacts DEF ResetTarget, MoreLeds, sdr
    <2>2. PICK e \in Frus : e = fru
      BY LedFacts
    <2>3. Reported(e)'
      <3>1. ToSet(m_StatusLeds[e]) = Below(e, 4)
        BY <2>1, <2>2 DEF LedInv
      <3> QED BY <1>1, <2>1, <2>2, <3>1 DEF Reported
    <2> QED BY <2>1, <2>2, <2>3, NextFruStep DEF Probing
  <1>5. CASE SetTarget \/ ReadProperties
    <2>1. /\ pc \in Probing /\ pc \in {"record", "properties"}
          /\ pc' \in {"properties", "colors"} /\ (pc' = "colors" => led' = 0)
          /\ UNCHANGED <<frus, fru, m_StatusLeds, gaveUp>>
      BY <1>5 DEF SetTarget, ReadProperties, sdr, Probing
    <2>2. \A f \in Frus : Probed(f)' => Reported(f)'
      BY <2>1 DEF LedInv, Probed, Reported, Probing
    <2> QED BY <1>1, <2>1, <2>2, LedFacts DEF LedInv, Probing
  <1>6. CASE ReadColor \/ NoSuchLed
    <2>1. /\ pc = "colors" /\ led \in 0 .. 3 /\ led' = led + 1
          /\ UNCHANGED <<frus, pc, fru, gaveUp>>
      BY <1>6, LedFacts DEF ReadColor, NoSuchLed, MoreLeds, sdr
    <2>2. /\ \A f \in Frus \ {fru} : m_StatusLeds'[f] = m_StatusLeds[f]
          /\ Ascending(m_StatusLeds'[fru])
          /\ ToSet(m_StatusLeds'[fru]) = Below(fru, led + 1)
      <3>1. ToSet(m_StatusLeds[fru]) = Below(fru, led) /\ Ascending(m_StatusLeds[fru])
        BY <2>1, LedFacts DEF LedInv
      <3>2. CASE ReadColor
        <4>1. /\ led \in frus[fru].leds
              /\ m_StatusLeds' = [m_StatusLeds EXCEPT ![fru] = Append(@, led)]
          BY <3>2 DEF ReadColor
        <4>2. \A l \in ToSet(m_StatusLeds[fru]) : l < led
          BY <3>1
        <4>3. /\ Ascending(Append(m_StatusLeds[fru], led))
              /\ ToSet(Append(m_StatusLeds[fru], led)) = Below(fru, led) \union {led}
          BY <2>1, <3>1, <4>2, LedFacts, AppendedAscending
        <4>4. Below(fru, led + 1) = Below(fru, led) \union {led}
          BY <2>1, <4>1, LedFacts
        <4> QED BY <4>1, <4>3, <4>4, LedFacts DEF TypeOK
      <3>3. CASE NoSuchLed
        <4>1. led \notin frus[fru].leds /\ UNCHANGED m_StatusLeds
          BY <3>3 DEF NoSuchLed
        <4>2. Below(fru, led + 1) = Below(fru, led)
          BY <2>1, <4>1, LedFacts
        <4> QED BY <3>1, <4>1, <4>2
      <3> QED BY <1>6, <3>2, <3>3
    <2>3. \A f \in Frus : Ascending(m_StatusLeds'[f])
      BY <2>2 DEF LedInv
    <2>4. ASSUME NEW f \in Frus, Probed(f)' PROVE Reported(f)'
      <3>1. Probed(f) /\ f # fru
        BY <2>1, <2>4, LedFacts DEF Probed
      <3> QED BY <2>1, <2>2, <3>1 DEF LedInv, Reported
    <2>5. \A f \in Frus : f > fru => m_StatusLeds'[f] = <<>>
      BY <2>1, <2>2, LedFacts DEF LedInv, Probing
    <2> QED BY <2>1, <2>2, <2>3, <2>4, <2>5, LedFacts DEF LedInv, Probing
  <1>7. CASE Attach \/ Skip \/ FruDone
    <2>1. /\ pc = "attach" /\ pc' \in {"attach", "done"}
          /\ UNCHANGED <<frus, m_StatusLeds, gaveUp>>
      BY <1>7 DEF Attach, Skip, FruDone, ToNext, sdr, probe
    <2> QED BY <2>1 DEF LedInv, Probed, Reported, Probing
  <1>8. CASE UNCHANGED vars
    <2>1. UNCHANGED <<frus, pc, fru, led, m_StatusLeds, gaveUp>>
      BY <1>8 DEF vars, sdr, probe
    <2> QED BY <2>1 DEF LedInv, Probed, Reported
  <1> QED BY <1>2, <1>3, <1>4, <1>5, <1>6, <1>7, <1>8 DEF Next

-----------------------------------------------------------------------------
(* Every variable stays within its type: the iterator never passes the end *)
(* of the list that shrinks under it.                                      *)
THEOREM TypeCorrect == Spec => []TypeOK
PROOF
  <1>1. FruInv => TypeOK
    BY DEF FruInv
  <1> QED BY <1>1, FruAlways, PTL

(* However the LEDs of a FRU are given up, the IPMI context is back at the *)
(* BMC before anything else is asked.                                      *)
THEOREM TargetIsReset == Spec => []TargetReset
PROOF
  <1>1. FruInv => TargetReset
    BY DEF FruInv
  <1> QED BY <1>1, FruAlways, PTL

(* Erasing from the list while walking along it neither skips a sensor nor *)
(* takes one twice: at the end every sensor is at the first FRU that it    *)
(* belongs to, in the order in which the orphans were, or to none.         *)
THEOREM SensorsAttachedOnce == Spec => []AttachedAsFiltered
PROOF
  <1>1. FruInv => AttachedAsFiltered
    BY DEF FruInv, WalkInv
  <1> QED BY <1>1, FruAlways, PTL

(* Wherever the questions for the LEDs of a FRU end, its list has the LEDs *)
(* that the FRU reports up to there, each once and under its own number,   *)
(* in order, and all of them unless a command failed or the FRU was not    *)
(* asked.                                                                  *)
THEOREM LedsAreAsReported == Spec => []LedsAsReported
PROOF
  <1>1. LedInv => LedsAsReported
    BY DEF LedInv, LedsAsReported, Reported
  <1>2. FruInv => TypeOK
    BY DEF FruInv
  <1>3. Spec => []LedInv
    BY <1>2, FruAlways, LedInit, LedStep, PTL DEF Spec
  <1> QED BY <1>1, <1>3, PTL
=============================================================================
