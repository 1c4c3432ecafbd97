---------------------------- MODULE MCDispatcher ----------------------------
(* Dispatcher with a few ids, shells and record threads.                   *)
EXTENDS Dispatcher
=============================================================================
