---------------------------- MODULE MCCloseRace ----------------------------
(* Three threads closing one LocalConduit, for TLC. *)
EXTENDS CloseRace

CONSTANTS t1, t2, t3
=============================================================================
