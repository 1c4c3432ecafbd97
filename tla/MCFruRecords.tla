---------------------------- MODULE MCFruRecords ----------------------------
(* FruRecords with FRUs and sensors of two entities and two instances.     *)
EXTENDS FruRecords

Cooling == 30

Fru(id, instance, excluded, leds) ==
    [id |-> id, instance |-> instance, excluded |-> excluded, leds |-> leds]

Sensor(id, instance, fan) == [id |-> id, instance |-> instance, fan |-> fan]

SomeFrus ==
    { Fru(10, 1, FALSE, {0, 2, 3}), Fru(10, 2, TRUE, {1}),
      Fru(Cooling, 1, FALSE, {}),   Fru(Cooling, 2, FALSE, {3}) }

SomeSensors ==
    { Sensor(10, 1, FALSE), Sensor(10, 2, TRUE), Sensor(29, 1, TRUE),
      Sensor(Cooling, 2, FALSE) }
=============================================================================
