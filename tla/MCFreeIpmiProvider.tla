-------------------------- MODULE MCFreeIpmiProvider --------------------------
(* FreeIpmiProvider with a few links and two editions of the SDR.          *)
EXTENDS FreeIpmiProvider

CONSTANTS e1, e2, k1, k2, t1

(* The second edition has lost a sensor.                                   *)
TwoEditions == (e1 :> <<k1, k2>>) @@ (e2 :> <<k2>>)

Numbers == ("3" :> 3) @@ ("300" :> 300)

Power(text) == [vendor |-> "vadatech", command |-> "set-power-state",
                text |-> text]

Reboot == [vendor |-> "vt", command |-> "reboot", text |-> <<>>]

(* Links as a database may have them: arguments apart by two blanks or by  *)
(* a tab, a number with something in front or behind, one argument too     *)
(* many or too few, a site that does not exist; and links that are refused *)
(* when the record is initialised.  VAL is 1, or what a byte cannot hold.  *)
SwitchOn ==
    {Power(<<" ", "mch", " ", "\t", "3", "_", "x">>),
     Power(<<" ", "pm", "\t", "3">>),
     Reboot}

Refused ==
    {Power(<<" ", "3">>), Power(<<" ", " ", "amc", " ", "3">>),
     [Reboot EXCEPT !.command = "shutdown"]}

SomeLinks ==
    {[link |-> l, val |-> 1] : l \in {m \in SwitchOn \union Refused : ValidLink(m)}}
    \union {[link |-> Power(<<" ", "cu", " ", " ", Dash, "300", " ", "pm">>),
             val |-> 256],
            [link |-> Reboot, val |-> 256]}
=============================================================================
