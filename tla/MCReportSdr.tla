------------------------------ MODULE MCReportSdr ------------------------------
(* ReportSdr with two hosts and command lines in order and in disorder.    *)
EXTENDS ReportSdr

CONSTANTS r1, r2

Record(kind, id, instance, text) ==
    [kind |-> kind, id |-> id, instance |-> instance, text |-> text,
     fan |-> id = 29, decodable |-> TRUE]

Unreadable == Record("unreadable", 0, 0, <<>>)

(* A cooling unit with a fan, whose name has a quote; a board with a full  *)
(* sensor; two FRUs of one entity; a record of another kind; records that  *)
(* cannot be decoded behind a sensor and behind a FRU.                     *)
Board ==
    <<Record("fru", 10, 1, <<"cu">>), Record("fru", 10, 1, <<"cu">>),
      Record("compact", 29, 1, <<"fan", Quote, "1">>),
      Record("full", 10, 1, <<"temp", Dash, "1">>), Unreadable,
      Record("other", 0, 0, <<>>)>>

CoolingUnit ==
    <<Record("full", 7, 1, <<"vt", " ", "post", " ">>),
      [Record("compact", 10, 1, <<"temp">>) EXCEPT !.decodable = FALSE],
      Record("compact", 29, 1, <<"fan", ".", "1">>),
      Record("fru", 30, 1, <<"cooling">>), Unreadable>>

TwoHosts == ("h1" :> Board) @@ ("h2" :> CoolingUnit)

(* What may belong to an FRU, be an FRU, or neither.                       *)
SomeGarbage ==
    {[id |-> 10, instance |-> 1, fan |-> FALSE],
     [id |-> 255, instance |-> 1, fan |-> TRUE],
     [id |-> 0, instance |-> 0, fan |-> FALSE]}

Switches == {"-H", "-u", "-p", "--auth-type", "--privilege-level", "--help",
             "--create-report-file", "--create-db-file"}

User == <<"-u", "admin", "-p", "secret">>

CommandLines ==
    {<<"-H", "h1">> \o User \o <<"--create-db-file", "a.db">>,
     <<"--create-db-file", "b.db", "--create-report-file", "--auth-type", "md5",
       "-H", "h2", "-H", "h1">> \o User,
     User \o <<"stray", "--create-report-file", "r.txt", "-H", "h2",
               "--create-db-file">>,
     User \o <<"--privilege-level", "root", "-H", "h2">>,
     User \o <<"-H", "h3">>,
     <<"-H", "h1", "--help">>}
=============================================================================
