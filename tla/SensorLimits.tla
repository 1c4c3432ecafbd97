----------------------------- MODULE SensorLimits -----------------------------
(***************************************************************************)
(* The alarm limits and the hysteresis that come with the reading of a     *)
(* threshold sensor: getSensorThresholds() and getSensorHysteresis() of    *)
(* IpmiConnectionManager.cpp, with the scaling of IpmiSdrRec.cpp.          *)
(*                                                                         *)
(* Values are in hundredths, to which they are rounded.  The sensors are   *)
(* linear; the other linearizations are functions of the C library.  What  *)
(* is computed with doubles in the code is exact here until it is rounded. *)
(***************************************************************************)
EXTENDS Integers, Sequences

CONSTANTS
    Decodings,       \* [format, m, b, b_exponent, r_exponent] of sensors
    RawValues,       \* the bytes a device answers with
    Unset            \* the field is not in the entity

Analog == {"UNSIGNED", "1S_COMPLEMENT", "2S_COMPLEMENT"}

Formats == Analog \union {"NOT_ANALOG"}

(* A signed number of four bits.                                           *)
Exponents == -8 .. 7

ASSUME DecodingsAssumption ==
    \A d \in Decodings :
        /\ d.format \in Formats
        /\ d.m \in Int /\ d.b \in Int
        /\ d.b_exponent \in Exponents /\ d.r_exponent \in Exponents

ASSUME RawValuesAssumption == RawValues \subseteq 0 .. 255

ASSUME UnsetAssumption == Unset \notin Int

mThresholdReadables ==
    << "lower_non_critical_threshold", "lower_critical_threshold",
       "lower_non_recoverable_threshold", "upper_non_critical_threshold",
       "upper_critical_threshold", "upper_non_recoverable_threshold" >>

(* EPICS has limits for four of them.                                      *)
mThresholdsMap ==
    [lower_critical_threshold |-> "LOLO",
     lower_non_critical_threshold |-> "LOW",
     upper_non_critical_threshold |-> "HIGH",
     upper_critical_threshold |-> "HIHI"]

Mapped == DOMAIN mThresholdsMap

VARIABLES
    decoding,        \* the decoding data in the SDR record of the sensor
    readable,        \* the thresholds the device says are readable
    threshold,       \* the bytes of its answers
    hysteresis,
    pc, i,           \* the loop the code is in
    thresh_readable, \* the bits that are set
    threshold_list,  \* thresholds to scale
    entity           \* what the reading brings along

answer == <<decoding, readable, threshold, hysteresis>>

vars == <<answer, pc, i, thresh_readable, threshold_list, entity>>

TypeOK ==
    /\ decoding \in Decodings
    /\ readable \subseteq {mThresholdReadables[n] : n \in 1 .. 6}
    /\ threshold \in [Mapped -> RawValues]
    /\ hysteresis \in RawValues
    /\ pc \in {"readable", "scale", "hysteresis", "done", "failed"}
    /\ i \in 0 .. 6
    /\ thresh_readable \subseteq 0 .. 5
    /\ threshold_list \in Seq(Mapped) /\ Len(threshold_list) <= 4
    /\ entity \in [{"LOLO", "LOW", "HIGH", "HIHI", "HYST"} -> Int \union {Unset}]

Init ==
    /\ decoding \in Decodings
    /\ readable \in SUBSET {mThresholdReadables[n] : n \in 1 .. 6}
    /\ threshold \in [Mapped -> RawValues]
    /\ hysteresis \in RawValues
    /\ pc = "readable" /\ i = 0
    /\ thresh_readable = {} /\ threshold_list = <<>>
    /\ entity = [f \in {"LOLO", "LOW", "HIGH", "HIHI", "HYST"} |-> Unset]

-----------------------------------------------------------------------------
(* Mistakes the properties are checked against.                            *)

DecodedNoOnes(format, raw) ==
    IF format = "UNSIGNED" \/ raw < 128 THEN raw ELSE raw - 256

ListedByMask(t) ==
    t \in Mapped /\ (t \in readable \/ thresh_readable # {})

-----------------------------------------------------------------------------
(* A char of the platforms the IOC runs on: eight bits, signed.            *)
Char(v) == IF v % 256 < 128 THEN v % 256 ELSE (v % 256) - 256

(* The raw value is wider than a byte: the increment does not wrap.  What  *)
(* is not analog is taken for 2's complement.                              *)
Decoded(format, raw) ==
    CASE format = "UNSIGNED" -> raw
      [] format = "1S_COMPLEMENT" -> Char(IF raw < 128 THEN raw ELSE raw + 1)
      [] OTHER -> Char(raw)

PowersOfTen == <<1, 10, 100, 1000, 10000, 100000, 1000000, 10000000, 100000000,
                 1000000000>>

(* pow(10, n), for what the exponents of an SDR record add up to.          *)
TenTo(n) ==
    IF n < 10 THEN PowersOfTen[n + 1] ELSE PowersOfTen[10] * PowersOfTen[n - 8]

(* The decimals that the offset b adds to the product with m.              *)
Decimals(d) == IF d.b_exponent < 0 THEN -d.b_exponent ELSE 0

(* m times the reading plus the offset, in units of the last decimal.      *)
Linear(d, raw) ==
    d.m * Decoded(d.format, raw) * TenTo(Decimals(d))
        + d.b * TenTo(d.b_exponent + Decimals(d))

(* The exponent that turns these units into hundredths.                    *)
Shift(d) == d.r_exponent + 2 - Decimals(d)

(* x / unit, rounded to the nearest; a half is rounded up.                 *)
Rounded(x, unit) == (2 * x + unit) \div (2 * unit)

scale_threshold(d, raw) ==
    IF Shift(d) >= 0 THEN Linear(d, raw) * TenTo(Shift(d))
    ELSE Rounded(Linear(d, raw), TenTo(-Shift(d)))

fabs(x) == IF x < 0 THEN -x ELSE x

-----------------------------------------------------------------------------
(* The bits of the six thresholds, of which EPICS has a limit for four.    *)
Listed(t) == t \in readable /\ t \in Mapped

ReadReadable ==
    /\ pc = "readable"
    /\ i < 6
    /\ LET t == mThresholdReadables[i + 1]
       IN  /\ thresh_readable' =
                  IF t \in readable THEN thresh_readable \union {i} ELSE thresh_readable
           /\ threshold_list' =
                  IF Listed(t) THEN Append(threshold_list, t) ELSE threshold_list
    /\ i' = i + 1
    /\ UNCHANGED <<answer, pc, entity>>

ReadableDone ==
    /\ pc = "readable"
    /\ i = 6
    /\ pc' = "scale"
    /\ UNCHANGED <<answer, i, thresh_readable, threshold_list, entity>>

ScaleLimit ==
    /\ pc = "scale"
    /\ threshold_list # <<>>
    /\ LET t == Head(threshold_list)
       IN  entity' = [entity EXCEPT ![mThresholdsMap[t]] =
                         scale_threshold(decoding, threshold[t])]
    /\ threshold_list' = Tail(threshold_list)
    /\ UNCHANGED <<answer, pc, i, thresh_readable>>

LimitsDone ==
    /\ pc = "scale"
    /\ threshold_list = <<>>
    /\ pc' = "hysteresis"
    /\ UNCHANGED <<answer, i, thresh_readable, threshold_list, entity>>

(* Of the two values the positive going one is taken.                      *)
ScaleHysteresis ==
    /\ pc = "hysteresis"
    /\ entity' = [entity EXCEPT !["HYST"] = fabs(scale_threshold(decoding, hysteresis))]
    /\ pc' = "done"
    /\ UNCHANGED <<answer, i, thresh_readable, threshold_list>>

(* One of the two commands fails, or a field or the decoding data cannot   *)
(* be read: readSensor() is left and the reading is lost with the limits.  *)
Fails ==
    /\ pc \in {"readable", "scale", "hysteresis"}
    /\ pc' = "failed"
    /\ entity' = [f \in DOMAIN entity |-> Unset]
    /\ UNCHANGED <<answer, i, thresh_readable, threshold_list>>

Next ==
    \/ ReadReadable \/ ReadableDone
    \/ ScaleLimit \/ LimitsDone
    \/ ScaleHysteresis
    \/ Fails

Spec == Init /\ [][Next]_vars

-----------------------------------------------------------------------------
(* What a byte stands for in the IPMI specification.                       *)
Meant(format, raw) ==
    IF format = "UNSIGNED" \/ raw < 128 THEN raw
    ELSE IF format = "1S_COMPLEMENT" THEN raw - 255 ELSE raw - 256

(* If the sensor's scale is increasing, the limits are in the order of the *)
(* thresholds of the device: an alarm that the device would give first is  *)
(* never the later one in EPICS, whatever format the bytes have, and       *)
(* however much of them the rounding to hundredths leaves.                 *)
LimitsInOrder ==
    pc = "done" /\ decoding.m >= 0 /\ decoding.format \in Analog =>
        \A s, t \in Mapped :
            LET low == entity[mThresholdsMap[s]]
                high == entity[mThresholdsMap[t]]
            IN  /\ low # Unset /\ high # Unset
                /\ Meant(decoding.format, threshold[s])
                       <= Meant(decoding.format, threshold[t])
                => low <= high

(* A limit comes with a reading exactly if the device lets its threshold   *)
(* be read: neither is an alarm missing nor one made up.                   *)
LimitsIfReadable ==
    pc = "done" =>
        \A t \in Mapped : entity[mThresholdsMap[t]] # Unset <=> t \in readable
=============================================================================
