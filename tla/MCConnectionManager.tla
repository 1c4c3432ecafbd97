------------------------ MODULE MCConnectionManager ------------------------
(* ConnectionManager with a small number of failures.                      *)
EXTENDS ConnectionManager
=============================================================================
