---------------------------- MODULE MCSdrManager ----------------------------
(* SdrManager with editions that share a sensor.                           *)
EXTENDS SdrManager

CONSTANTS e1, e2, e3, k1, k2, k3, t1, t2

(* Two editions; the second one has lost a sensor and got another one.     *)
TwoEditions == (e1 :> <<k1, k2>>) @@ (e2 :> <<k2, k3>>)

(* ... and a third one, of a device that uses the key of a sensor twice.   *)
ThreeEditions == TwoEditions @@ (e3 :> <<k3, k3>>)
=============================================================================
