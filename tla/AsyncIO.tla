------------------------------ MODULE AsyncIO ------------------------------
(***************************************************************************)
(* What a connection promises to the records that use it, as dispatcher.h  *)
(* and provider.h word it: a request that has been accepted is answered,   *)
(* eventually and exactly once, in the order the requests were accepted,   *)
(* for as long as the connection is open.  The caller then consumes the    *)
(* answer.  Nothing is promised to the requests that are still waiting     *)
(* when the connection closes.                                             *)
(***************************************************************************)
EXTENDS Sequences, SequencesExt

CONSTANT Records     \* the parties that may have one request each

VARIABLES
    order,           \* accepted requests, oldest first
    answered,        \* requests answered and not consumed yet
    open             \* the connection accepts requests

vars == <<order, answered, open>>

TypeOK ==
    /\ order \in Seq(Records)
    /\ answered \in SUBSET Records
    /\ open \in BOOLEAN

Init ==
    /\ order = <<>>
    /\ answered = {}
    /\ open = TRUE

Request(r) ==
    /\ open
    /\ r \notin ToSet(order) \union answered
    /\ order' = Append(order, r)
    /\ UNCHANGED <<answered, open>>

Answer ==
    /\ order # <<>>
    /\ order' = Tail(order)
    /\ answered' = answered \union {Head(order)}
    /\ UNCHANGED open

Consume(r) ==
    /\ r \in answered
    /\ answered' = answered \ {r}
    /\ UNCHANGED <<order, open>>

Close ==
    /\ open
    /\ open' = FALSE
    /\ UNCHANGED <<order, answered>>

Next ==
    \/ \E r \in Records : Request(r) \/ Consume(r)
    \/ Answer
    \/ Close

Spec ==
    /\ Init
    /\ [][Next]_vars
    /\ WF_vars(open /\ Answer)
    /\ \A r \in Records : WF_vars(Consume(r))
=============================================================================
