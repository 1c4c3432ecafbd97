------------------------------ MODULE OemCommands ------------------------------
(***************************************************************************)
(* The OEM commands of the connection manager (IpmiConnectionManager.cpp): *)
(* what a bo record may name, the request that is made of the link and of  *)
(* VAL, and which replies count as success.                                *)
(***************************************************************************)
EXTENDS Links

CONSTANTS
    Value,           \* the number that a piece of text begins with, if any
    Single           \* the pieces that are one character long

SET_CHASSIS_POWER_STATE == 158
COMMAND_SUCCESS == 0

Vendors == {"vadatech", "vt"}
Commands == {"reboot", "set-power-state"}

VADATECH_SITE_TYPES ==
    (<<"mch">> :> 10) @@ (<<"amc">> :> 7) @@ (<<"cu">> :> 4) @@ (<<"pm">> :> 11)

(* A link is refused when it is parsed, or when the provider does not know *)
(* the command.                                                            *)
ValidLink(link) ==
    /\ ArgumentsMatch(link.text, Single)
    /\ link.vendor \in Vendors
    /\ link.command \in Commands

-----------------------------------------------------------------------------
(* std::stoi(): it skips white space, takes a sign, reads on to the first  *)
(* character that is no digit, and throws if there was none.               *)
Stoi(word) ==
    LET i == SelectInSubSeq(word, 1, Len(word), LAMBDA c : c # Tab)
        at(j) == j \in DOMAIN word /\ word[j] \in DOMAIN Value
    IN  IF at(i) THEN {Value[word[i]]}
        ELSE IF i > 0 /\ word[i] = Dash /\ at(i + 1) THEN {-Value[word[i + 1]]}
        ELSE {}

-----------------------------------------------------------------------------
(* Mistakes the properties are checked against.                            *)

RequestsSiteSwapped(args, val) ==
    IF Len(args) < 2 \/ args[1] \notin DOMAIN VADATECH_SITE_TYPES THEN {}
    ELSE {<<SET_CHASSIS_POWER_STATE, Byte(val),
            Byte(id), VADATECH_SITE_TYPES[args[1]]>> : id \in Stoi(args[2])}

ReplyLengthOnly(link, reply) == link.command = "reboot" \/ Len(reply) = 2

-----------------------------------------------------------------------------
(* The bytes that vadatech_set_power_state() sends, if it does not throw.  *)
PowerRequests(args, val) ==
    IF Len(args) < 2 \/ args[1] \notin DOMAIN VADATECH_SITE_TYPES THEN {}
    ELSE {<<SET_CHASSIS_POWER_STATE, Byte(val),
            VADATECH_SITE_TYPES[args[1]], Byte(id)>> : id \in Stoi(args[2])}

(* vadatech_reboot_chassis() sends nothing for a VAL of zero; as VAL is    *)
(* 16 bits wide, that of 256 is one.                                       *)
RebootRequests(val) ==
    IF Byte(val) < 1 THEN {} ELSE {<<SET_CHASSIS_POWER_STATE, 0, 255, 255>>}

Requests(link, val) ==
    IF link.command = "reboot" THEN RebootRequests(val)
    ELSE PowerRequests(SplitAtBlanks(link.text), val)

(* The handler that has nothing to send throws.                            *)
Malformed(link, requests) ==
    link.command = "set-power-state" /\ requests = {}

(* A reply of two bytes that has the command and a good completion code.   *)
(* The reply to a reboot is not looked at.                                 *)
Accepted(link, reply) ==
    \/ link.command = "reboot"
    \/ reply = <<SET_CHASSIS_POWER_STATE, COMMAND_SUCCESS>>
=============================================================================
