--------------------------- MODULE MCSensorLimits ---------------------------
(* SensorLimits with a voltage, a temperature and a current, one that has  *)
(* to be rounded and one that has no number.                               *)
EXTENDS SensorLimits

Sensor(format, m, b, b_exponent, r_exponent) ==
    [format |-> format, m |-> m, b |-> b,
     b_exponent |-> b_exponent, r_exponent |-> r_exponent]

SomeSensors ==
    { Sensor("UNSIGNED", 6, 0, 0, -2), Sensor("2S_COMPLEMENT", 1, 0, 0, 0),
      Sensor("1S_COMPLEMENT", 2, -5, 1, -1),
      Sensor("2S_COMPLEMENT", 37, 125, -5, -4), Sensor("NOT_ANALOG", 1, 0, 0, 0) }
=============================================================================
