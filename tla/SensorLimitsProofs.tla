-------------------------- MODULE SensorLimitsProofs --------------------------
(***************************************************************************)
(* Theorems about SensorLimits, for every decoding of a linear sensor that *)
(* fits an SDR record and every byte: the loops that select and scale the  *)
(* thresholds lose none and make none up, and the scaling keeps the order  *)
(* that the device has.                                                    *)
(***************************************************************************)
EXTENDS SensorLimits, TLAPS

-----------------------------------------------------------------------------
(* The numbers.                                                            *)

(* Of the three formats each gives the value that the byte stands for.     *)
LEMMA DecodedAsMeant ==
  ASSUME NEW format \in Analog, NEW raw \in 0 .. 255
  PROVE  /\ Decoded(format, raw) = Meant(format, raw)
         /\ Meant(format, raw) \in Int
PROOF
  <1>1. CASE format = "UNSIGNED"
    BY <1>1 DEF Decoded, Meant
  <1>2. CASE format = "1S_COMPLEMENT" /\ raw < 128
    BY <1>2 DEF Decoded, Meant, Char
  <1>3. CASE format = "1S_COMPLEMENT" /\ ~(raw < 128)
    <2>1. raw + 1 \in 129 .. 256
      BY <1>3
    <2>2. Char(raw + 1) = raw - 255
      <3>1. CASE raw = 255
        BY <3>1 DEF Char
      <3>2. CASE raw # 255
        BY <2>1, <3>2 DEF Char
      <3> QED BY <3>1, <3>2
    <2> QED BY <1>3, <2>2 DEF Decoded, Meant
  <1>4. CASE format = "2S_COMPLEMENT"
    BY <1>4 DEF Decoded, Meant, Char
  <1> QED BY <1>1, <1>2, <1>3, <1>4 DEF Analog

LEMMA DecodedType ==
  ASSUME NEW format \in Formats, NEW raw \in 0 .. 255
  PROVE  Decoded(format, raw) \in Int
PROOF
  <1>1. CASE format \in Analog
    BY <1>1, DecodedAsMeant
  <1>2. CASE format = "NOT_ANALOG"
    BY <1>2 DEF Decoded, Char
  <1> QED BY <1>1, <1>2 DEF Formats

LEMMA TenToPositive ==
  ASSUME NEW n \in 0 .. 18
  PROVE  TenTo(n) \in Nat \ {0}
PROOF
  <1>1. ASSUME NEW m \in 1 .. 10 PROVE PowersOfTen[m] \in Nat \ {0}
    <2>1. \/ m = 1 \/ m = 2 \/ m = 3 \/ m = 4 \/ m = 5
          \/ m = 6 \/ m = 7 \/ m = 8 \/ m = 9 \/ m = 10
      OBVIOUS
    <2> QED BY <2>1 DEF PowersOfTen
  <1>2. CASE n < 10
    BY <1>1, <1>2 DEF TenTo
  <1>3. CASE ~(n < 10)
    <2>1. PowersOfTen[10] = 1000000000
      BY DEF PowersOfTen
    <2>2. PowersOfTen[n - 8] \in Nat \ {0}
      BY <1>1, <1>3
    <2> QED BY <1>3, <2>1, <2>2 DEF TenTo
  <1> QED BY <1>2, <1>3

LEMMA ProductOrder ==
  ASSUME NEW k \in Nat, NEW x \in Int, NEW y \in Int, x <= y
  PROVE  k * x \in Int /\ k * y \in Int /\ k * x <= k * y
PROOF
  <1>1. PICK z \in Nat : y = x + z
    <2>1. y - x \in Nat /\ y = x + (y - x)
      OBVIOUS
    <2> QED BY <2>1
  <1>2. k * z \in Nat
    OBVIOUS
  <1>3. k * (x + z) = k * x + k * z
    OBVIOUS
  <1> QED BY <1>1, <1>2, <1>3

LEMMA QuotientOrder ==
  ASSUME NEW n \in Nat \ {0}, NEW x \in Int, NEW y \in Int, x <= y
  PROVE  x \div n \in Int /\ y \div n \in Int /\ x \div n <= y \div n
PROOF
  <1> DEFINE low == x \div n
             high == y \div n
  <1>1. low \in Int /\ x % n \in 0 .. n - 1 /\ x = n * low + (x % n)
    OBVIOUS
  <1>2. high \in Int /\ y % n \in 0 .. n - 1 /\ y = n * high + (y % n)
    OBVIOUS
  <1> HIDE DEF low, high
  <1>3. ASSUME high < low PROVE FALSE
    <2>1. high + 1 \in Int /\ high + 1 <= low
      BY <1>1, <1>2, <1>3
    <2>2. n * (high + 1) <= n * low /\ n * low \in Int /\ n * high \in Int
      BY <1>1, <1>2, <2>1, ProductOrder
    <2>3. n * (high + 1) = n * high + n
      BY <1>2
    <2> QED BY <1>1, <1>2, <2>2, <2>3
  <1>4. low <= high
    BY <1>1, <1>2, <1>3
  <1> QED BY <1>1, <1>2, <1>4 DEF low, high

(* Rounding may make two values equal but does not swap them.              *)
LEMMA RoundedOrder ==
  ASSUME NEW unit \in Nat \ {0}, NEW x \in Int, NEW y \in Int, x <= y
  PROVE  /\ Rounded(x, unit) \in Int /\ Rounded(y, unit) \in Int
         /\ Rounded(x, unit) <= Rounded(y, unit)
PROOF
  <1>1. /\ 2 * unit \in Nat \ {0}
        /\ 2 * x + unit \in Int /\ 2 * y + unit \in Int
        /\ 2 * x + unit <= 2 * y + unit
    OBVIOUS
  <1> QED BY <1>1, QuotientOrder DEF Rounded

(* The exponents of an SDR record stay within the powers of ten.           *)
LEMMA ExponentsFit ==
  ASSUME NEW d \in Decodings
  PROVE  /\ d.m \in Int /\ d.b \in Int /\ d.format \in Formats
         /\ Decimals(d) \in 0 .. 8
         /\ d.b_exponent + Decimals(d) \in 0 .. 7
         /\ Shift(d) \in -14 .. 9
PROOF
  <1>1. /\ d.m \in Int /\ d.b \in Int /\ d.format \in Formats
        /\ d.b_exponent \in -8 .. 7 /\ d.r_exponent \in -8 .. 7
    BY DecodingsAssumption DEF Exponents
  <1>2. Decimals(d) \in 0 .. 8 /\ d.b_exponent + Decimals(d) \in 0 .. 7
    BY <1>1 DEF Decimals
  <1> QED BY <1>1, <1>2 DEF Shift

LEMMA LinearType ==
  ASSUME NEW d \in Decodings, NEW raw \in 0 .. 255
  PROVE  Linear(d, raw) \in Int
PROOF
  <1> DEFINE tens == TenTo(Decimals(d))
             offset == TenTo(d.b_exponent + Decimals(d))
             reading == Decoded(d.format, raw)
  <1>1. d.m \in Int /\ d.b \in Int
    BY ExponentsFit
  <1>2. tens \in Int /\ offset \in Int
    BY ExponentsFit, TenToPositive
  <1>3. reading \in Int
    BY ExponentsFit, DecodedType
  <1> HIDE DEF tens, offset, reading
  <1>4. d.m * reading \in Int
    BY <1>1, <1>3
  <1>5. d.m * reading * tens \in Int /\ d.b * offset \in Int
    BY <1>1, <1>2, <1>4
  <1>6. d.m * reading * tens + d.b * offset \in Int
    BY <1>5
  <1> QED BY <1>6 DEF Linear, tens, offset, reading

LEMMA ScaleType ==
  ASSUME NEW d \in Decodings, NEW raw \in 0 .. 255
  PROVE  scale_threshold(d, raw) \in Int
PROOF
  <1>1. Linear(d, raw) \in Int /\ Shift(d) \in -14 .. 9
    BY LinearType, ExponentsFit
  <1>2. CASE Shift(d) >= 0
    <2>1. TenTo(Shift(d)) \in Int
      BY <1>1, <1>2, TenToPositive
    <2> QED BY <1>1, <1>2, <2>1 DEF scale_threshold
  <1>3. CASE ~(Shift(d) >= 0)
    <2>1. TenTo(-Shift(d)) \in Nat \ {0}
      BY <1>1, <1>3, TenToPositive
    <2> QED BY <1>1, <1>3, <2>1, RoundedOrder DEF scale_threshold
  <1> QED BY <1>2, <1>3

(* A sensor with a factor that is not negative has an increasing scale.    *)
LEMMA LinearIncreases ==
  ASSUME NEW d \in Decodings, d.m >= 0, d.format \in Analog,
         NEW raw \in 0 .. 255, NEW other \in 0 .. 255,
         Meant(d.format, raw) <= Meant(d.format, other)
  PROVE  Linear(d, raw) <= Linear(d, other)
PROOF
  <1> DEFINE low == Decoded(d.format, raw)
             high == Decoded(d.format, other)
             tens == TenTo(Decimals(d))
             offset == d.b * TenTo(d.b_exponent + Decimals(d))
  <1>1. d.m \in Nat /\ d.b \in Int
    BY ExponentsFit
  <1>2. low \in Int /\ high \in Int /\ low <= high
    BY DecodedAsMeant
  <1>3. d.m * low \in Int /\ d.m * high \in Int /\ d.m * low <= d.m * high
    BY <1>1, <1>2, ProductOrder
  <1>4. tens \in Nat /\ TenTo(d.b_exponent + Decimals(d)) \in Int
    BY ExponentsFit, TenToPositive
  <1>5. offset \in Int
    BY <1>1, <1>4
  <1> HIDE DEF low, high, tens, offset
  <1>6. /\ tens * (d.m * low) \in Int /\ tens * (d.m * high) \in Int
        /\ tens * (d.m * low) <= tens * (d.m * high)
    BY <1>3, <1>4, ProductOrder
  <1>7. /\ d.m * low * tens = tens * (d.m * low)
        /\ d.m * high * tens = tens * (d.m * high)
    BY <1>3, <1>4
  <1>8. d.m * low * tens + offset <= d.m * high * tens + offset
    BY <1>5, <1>6, <1>7
  <1> QED BY <1>8 DEF Linear, low, high, tens, offset

LEMMA ScaleIncreases ==
  ASSUME NEW d \in Decodings, d.m >= 0, d.format \in Analog,
         NEW raw \in 0 .. 255, NEW other \in 0 .. 255,
         Meant(d.format, raw) <= Meant(d.format, other)
  PROVE  scale_threshold(d, raw) <= scale_threshold(d, other)
PROOF
  <1> DEFINE low == Linear(d, raw)
             high == Linear(d, other)
  <1>1. low \in Int /\ high \in Int /\ low <= high
    BY LinearType, LinearIncreases
  <1>2. Shift(d) \in -14 .. 9
    BY ExponentsFit
  <1> HIDE DEF low, high
  <1>3. CASE Shift(d) >= 0
    <2> DEFINE factor == TenTo(Shift(d))
    <2>1. factor \in Nat
      BY <1>2, <1>3, TenToPositive
    <2> HIDE DEF factor
    <2>2. factor * low <= factor * high
      BY <1>1, <2>1, ProductOrder
    <2>3. low * factor = factor * low /\ high * factor = factor * high
      BY <1>1, <2>1
    <2>4. low * factor <= high * factor
      BY <2>2, <2>3
    <2> QED BY <1>3, <2>4 DEF scale_threshold, low, high, factor
  <1>4. CASE ~(Shift(d) >= 0)
    <2>1. TenTo(-Shift(d)) \in Nat \ {0}
      BY <1>2, <1>4, TenToPositive
    <2>2. Rounded(low, TenTo(-Shift(d))) <= Rounded(high, TenTo(-Shift(d)))
      BY <1>1, <2>1, RoundedOrder
    <2> QED BY <1>4, <2>2 DEF scale_threshold, low, high
  <1> QED BY <1>3, <1>4

-----------------------------------------------------------------------------
(* The loops.                                                              *)

Thresholds == {mThresholdReadables[n] : n \in 1 .. 6}
Fields == {"LOLO", "LOW", "HIGH", "HIHI", "HYST"}

(* The thresholds still to be scaled.                                      *)
Waiting(t) == \E n \in 1 .. Len(threshold_list) : threshold_list[n] = t

Limit(t) == scale_threshold(decoding, threshold[t])

(* Of the first n thresholds at most this many are limits of EPICS.        *)
Room(n) == IF n < 3 THEN n ELSE IF n = 3 THEN 2 ELSE IF n = 4 THEN 3 ELSE 4

(* While the loop over the bits runs, the list has the thresholds of the   *)
(* bits so far, and no field is set.                                       *)
ListFollows ==
    pc = "readable" =>
        /\ Len(threshold_list) <= Room(i)
        /\ \A n \in 1 .. 6 : mThresholdReadables[n] \in Mapped =>
              (Waiting(mThresholdReadables[n])
                   <=> n <= i /\ mThresholdReadables[n] \in readable)
        /\ \A t \in Mapped : entity[mThresholdsMap[t]] = Unset

(* Afterwards a readable threshold waits or is in its field.               *)
WaitsOrIsSet ==
    pc \in {"scale", "hysteresis", "done"} =>
        \A t \in Mapped :
            /\ t \in readable => Waiting(t) \/ entity[mThresholdsMap[t]] = Limit(t)
            /\ t \notin readable =>
                  ~Waiting(t) /\ entity[mThresholdsMap[t]] = Unset

AllScaled == pc \in {"hysteresis", "done"} => threshold_list = <<>>

LimitsInv == TypeOK /\ ListFollows /\ WaitsOrIsSet /\ AllScaled

LEMMA TablesFit ==
  /\ Mapped = {"lower_critical_threshold", "lower_non_critical_threshold",
               "upper_non_critical_threshold", "upper_critical_threshold"}
  /\ Mapped \subseteq Thresholds
  /\ \A t \in Mapped : mThresholdsMap[t] \in Fields \ {"HYST"}
  /\ \A s, t \in Mapped : mThresholdsMap[s] = mThresholdsMap[t] => s = t
PROOF
  <1>1. Mapped = {"lower_critical_threshold", "lower_non_critical_threshold",
                  "upper_non_critical_threshold", "upper_critical_threshold"}
    BY DEF Mapped, mThresholdsMap
  <1>2. /\ "lower_critical_threshold" = mThresholdReadables[2]
        /\ "lower_non_critical_threshold" = mThresholdReadables[1]
        /\ "upper_non_critical_threshold" = mThresholdReadables[4]
        /\ "upper_critical_threshold" = mThresholdReadables[5]
    BY DEF mThresholdReadables
  <1>3. /\ mThresholdsMap["lower_critical_threshold"] = "LOLO"
        /\ mThresholdsMap["lower_non_critical_threshold"] = "LOW"
        /\ mThresholdsMap["upper_non_critical_threshold"] = "HIGH"
        /\ mThresholdsMap["upper_critical_threshold"] = "HIHI"
    BY DEF mThresholdsMap
  <1> QED BY <1>1, <1>2, <1>3 DEF Thresholds, Fields

LEMMA LimitType ==
  ASSUME TypeOK, NEW t \in Mapped
  PROVE  Limit(t) \in Int
BY ScaleType, RawValuesAssumption DEF TypeOK, Limit

LEMMA InitLimits == Init => LimitsInv
PROOF
  <1> SUFFICES ASSUME Init PROVE LimitsInv
    OBVIOUS
  <1>1. TypeOK
    BY DEF Init, TypeOK
  <1>2. \A t \in Mapped : entity[mThresholdsMap[t]] = Unset /\ ~Waiting(t)
    BY TablesFit DEF Init, Waiting, Fields
  <1> QED BY <1>1, <1>2 DEF Init, LimitsInv, ListFollows, WaitsOrIsSet, AllScaled, Room

LEMMA NextLimits == LimitsInv /\ [Next]_vars => LimitsInv'
PROOF
  <1> SUFFICES ASSUME LimitsInv, [Next]_vars PROVE LimitsInv'
    OBVIOUS
  <1> USE DEF LimitsInv
  <1>1. CASE ReadReadable
    <2> DEFINE t == mThresholdReadables[i + 1]
    <2>1. i \in 0 .. 5 /\ i' = i + 1 /\ t \in Thresholds
      BY <1>1 DEF ReadReadable, TypeOK, Thresholds
    <2>2. CASE Listed(t)
      <3>1. threshold_list' = Append(threshold_list, t) /\ t \in Mapped /\ t \in readable
        BY <1>1, <2>2 DEF ReadReadable, Listed
      <3>2. /\ Len(threshold_list') = Len(threshold_list) + 1
            /\ threshold_list' \in Seq(Mapped)
            /\ \A n \in 1 .. Len(threshold_list) : threshold_list'[n] = threshold_list[n]
            /\ threshold_list'[Len(threshold_list) + 1] = t
        BY <3>1 DEF TypeOK
      <3>3. \A s : Waiting(s)' <=> Waiting(s) \/ s = t
        <4>1. Len(threshold_list) \in Nat
          BY DEF TypeOK
        <4>2. 1 .. Len(threshold_list') = 1 .. Len(threshold_list)
                                            \union {Len(threshold_list) + 1}
          BY <3>2, <4>1
        <4> QED BY <3>2, <4>2 DEF Waiting
      <3>4. i \notin {2, 5}
        BY <2>1, <3>1, TablesFit DEF mThresholdReadables
      <3>5. Len(threshold_list) <= Room(i) /\ Room(i) + 1 <= Room(i + 1) /\ Room(i + 1) <= 4
        BY <1>1, <2>1, <3>4 DEF ReadReadable, ListFollows, Room
      <3>6. TypeOK'
        BY <1>1, <2>1, <3>2, <3>5 DEF ReadReadable, TypeOK, answer, Room
      <3>7. \A m, n \in 1 .. 6 : mThresholdReadables[m] = mThresholdReadables[n] => m = n
        BY DEF mThresholdReadables
      <3>8. \A n \in 1 .. 6 : mThresholdReadables[n] \in Mapped =>
               (Waiting(mThresholdReadables[n])'
                    <=> n <= i + 1 /\ mThresholdReadables[n] \in readable)
        BY <1>1, <2>1, <3>1, <3>3, <3>7 DEF ReadReadable, ListFollows
      <3>9. ListFollows'
        BY <1>1, <2>1, <3>2, <3>5, <3>8 DEF ReadReadable, ListFollows, TypeOK, answer, Room
      <3> QED BY <1>1, <3>6, <3>9 DEF ReadReadable, WaitsOrIsSet, AllScaled
    <2>3. CASE ~Listed(t)
      <3>1. threshold_list' = threshold_list
        BY <1>1, <2>3 DEF ReadReadable
      <3>2. Room(i) <= Room(i + 1)
        BY <2>1 DEF Room
      <3>3. TypeOK'
        BY <1>1, <2>1, <3>1 DEF ReadReadable, TypeOK, answer
      <3>4. \A n \in 1 .. 6 : mThresholdReadables[n] \in Mapped =>
               (Waiting(mThresholdReadables[n])'
                    <=> n <= i + 1 /\ mThresholdReadables[n] \in readable)
        BY <1>1, <2>1, <2>3, <3>1 DEF ReadReadable, ListFollows, Waiting, Listed
      <3>5. ListFollows'
        BY <1>1, <2>1, <3>1, <3>2, <3>4 DEF ReadReadable, ListFollows, TypeOK, answer, Room
      <3> QED BY <1>1, <3>3, <3>5 DEF ReadReadable, WaitsOrIsSet, AllScaled
    <2> QED BY <2>2, <2>3
  <1>2. CASE ReadableDone
    <2>1. TypeOK'
      BY <1>2 DEF ReadableDone, TypeOK, answer
    <2>2. \A t \in Mapped : /\ Waiting(t) <=> t \in readable
                            /\ entity[mThresholdsMap[t]] = Unset
      <3> SUFFICES ASSUME NEW t \in Mapped PROVE Waiting(t) <=> t \in readable
        BY <1>2 DEF ReadableDone, ListFollows
      <3>1. PICK n \in 1 .. 6 : t = mThresholdReadables[n]
        BY TablesFit DEF Thresholds
      <3> QED BY <1>2, <3>1 DEF ReadableDone, ListFollows
    <2> QED BY <1>2, <2>1, <2>2
            DEF ReadableDone, ListFollows, WaitsOrIsSet, AllScaled, Waiting, answer
  <1>3. CASE ScaleLimit
    <2> DEFINE t == Head(threshold_list)
    <2>1. /\ threshold_list \in Seq(Mapped) /\ threshold_list # <<>> /\ t \in Mapped
          /\ threshold_list' = Tail(threshold_list)
      BY <1>3 DEF ScaleLimit, TypeOK
    <2>2. /\ threshold_list' \in Seq(Mapped)
          /\ Len(threshold_list') = Len(threshold_list) - 1
          /\ \A n \in 1 .. Len(threshold_list') : threshold_list'[n] = threshold_list[n + 1]
      BY <2>1
    <2>3. \A s : Waiting(s) => s = t \/ Waiting(s)'
      <3> SUFFICES ASSUME NEW s, NEW n \in 1 .. Len(threshold_list), threshold_list[n] = s,
                          s # t
                   PROVE  Waiting(s)'
        BY DEF Waiting
      <3>1. n # 1 /\ n - 1 \in 1 .. Len(threshold_list')
        BY <2>1, <2>2
      <3>2. threshold_list'[n - 1] = s
        BY <2>2, <3>1
      <3> QED BY <3>1, <3>2 DEF Waiting
    <2>4. \A s : Waiting(s)' => Waiting(s)
      BY <2>1, <2>2 DEF Waiting
    <2>5. Waiting(t)
      BY <2>1 DEF Waiting
    <2>6. t \in readable
      BY <1>3, <2>1, <2>5 DEF ScaleLimit, WaitsOrIsSet
    <2>7. entity' = [entity EXCEPT ![mThresholdsMap[t]] = Limit(t)]
      BY <1>3 DEF ScaleLimit, Limit
    <2>8. Limit(t) \in Int /\ DOMAIN entity = Fields
      BY <2>1, LimitType DEF TypeOK, Fields
    <2>9. TypeOK'
      <3>1. entity' \in [Fields -> Int \union {Unset}]
        BY <2>7, <2>8 DEF TypeOK, Fields
      <3> QED BY <1>3, <2>2, <3>1 DEF ScaleLimit, TypeOK, answer, Fields
    <2>10. \A s \in Mapped : entity'[mThresholdsMap[s]] =
                                 IF s = t THEN Limit(t) ELSE entity[mThresholdsMap[s]]
      BY <2>1, <2>7, <2>8, TablesFit
    <2>11. \A s : Limit(s)' = Limit(s)
      BY <1>3 DEF ScaleLimit, Limit, answer
    <2>12. WaitsOrIsSet'
      BY <1>3, <2>3, <2>4, <2>6, <2>10, <2>11 DEF ScaleLimit, WaitsOrIsSet, answer
    <2> QED BY <1>3, <2>9, <2>12 DEF ScaleLimit, ListFollows, AllScaled
  <1>4. CASE LimitsDone
    BY <1>4 DEF LimitsDone, TypeOK, ListFollows, WaitsOrIsSet, AllScaled, Waiting, Limit, answer
  <1>5. CASE ScaleHysteresis
    <2>1. fabs(scale_threshold(decoding, hysteresis)) \in Int
      <3>1. scale_threshold(decoding, hysteresis) \in Int
        BY ScaleType, RawValuesAssumption DEF TypeOK
      <3> QED BY <3>1 DEF fabs
    <2>2. \A t \in Mapped : entity'[mThresholdsMap[t]] = entity[mThresholdsMap[t]]
      BY <1>5, TablesFit DEF ScaleHysteresis, TypeOK, Fields
    <2>3. TypeOK'
      BY <1>5, <2>1 DEF ScaleHysteresis, TypeOK, answer
    <2> QED BY <1>5, <2>2, <2>3 DEF ScaleHysteresis, ListFollows, WaitsOrIsSet, AllScaled,
                                   Waiting, Limit, answer
  <1>6. CASE Fails
    BY <1>6 DEF Fails, TypeOK, ListFollows, WaitsOrIsSet, AllScaled, answer
  <1>7. CASE UNCHANGED vars
    BY <1>7 DEF vars, answer, TypeOK, ListFollows, WaitsOrIsSet, AllScaled, Waiting, Limit
  <1> QED BY <1>1, <1>2, <1>3, <1>4, <1>5, <1>6, <1>7 DEF Next

-----------------------------------------------------------------------------
(* The fields of the entity, the index of the loop and the list stay       *)
(* within their types: the list never has more than the four limits.       *)
THEOREM TypeCorrect == Spec => []TypeOK
PROOF
  <1>1. LimitsInv => TypeOK
    BY DEF LimitsInv
  <1> QED BY <1>1, InitLimits, NextLimits, PTL DEF Spec

(* A reading comes with exactly the limits whose thresholds are readable.  *)
THEOREM LimitsAsReadable == Spec => []LimitsIfReadable
PROOF
  <1>1. ASSUME LimitsInv PROVE LimitsIfReadable
    <2> SUFFICES ASSUME pc = "done", NEW t \in Mapped
                 PROVE  entity[mThresholdsMap[t]] # Unset <=> t \in readable
      BY DEF LimitsIfReadable
    <2>1. ~Waiting(t)
      BY <1>1 DEF LimitsInv, AllScaled, Waiting
    <2>2. Limit(t) # Unset
      BY <1>1, LimitType, UnsetAssumption DEF LimitsInv
    <2> QED BY <1>1, <2>1, <2>2 DEF LimitsInv, WaitsOrIsSet
  <1> QED BY <1>1, InitLimits, NextLimits, PTL DEF Spec

(* The limits of EPICS are in the order of the thresholds in the device,   *)
(* for every byte and every linear decoding of an analog format with a     *)
(* factor that is not negative, all exponents of four bits included, with  *)
(* the rounding to hundredths and without errors of double arithmetic.     *)
THEOREM LimitsKeepOrder == Spec => []LimitsInOrder
PROOF
  <1>1. ASSUME LimitsInv PROVE LimitsInOrder
    <2> SUFFICES ASSUME pc = "done", decoding.m >= 0, decoding.format \in Analog,
                        NEW s \in Mapped, NEW t \in Mapped,
                        entity[mThresholdsMap[s]] # Unset,
                        entity[mThresholdsMap[t]] # Unset,
                        Meant(decoding.format, threshold[s])
                            <= Meant(decoding.format, threshold[t])
                 PROVE  entity[mThresholdsMap[s]] <= entity[mThresholdsMap[t]]
      BY DEF LimitsInOrder
    <2>1. ~Waiting(s) /\ ~Waiting(t)
      BY <1>1 DEF LimitsInv, AllScaled, Waiting
    <2>2. entity[mThresholdsMap[s]] = Limit(s) /\ entity[mThresholdsMap[t]] = Limit(t)
      BY <1>1, <2>1 DEF LimitsInv, WaitsOrIsSet
    <2>3. /\ decoding \in Decodings
          /\ threshold[s] \in 0 .. 255 /\ threshold[t] \in 0 .. 255
      BY <1>1, RawValuesAssumption DEF LimitsInv, TypeOK
    <2> QED BY <2>2, <2>3, ScaleIncreases DEF Limit
  <1> QED BY <1>1, InitLimits, NextLimits, PTL DEF Spec
=============================================================================
