--------------------------- MODULE MCEpicsDevice ---------------------------
(* A small instance of EpicsDevice: which records there are, by link type. *)
EXTENDS EpicsDevice

CONSTANTS s1, b1, l1
=============================================================================
