---------------------------- MODULE MCHeartbeat ----------------------------
(* The times of params.h: a pulse every 5 seconds, of which 4 are left for *)
(* sleep, and 6 to be missed.  A period of 5 seconds of processor time may *)
(* be over after 1 where other threads spin, and last 6.  At 7 seconds, or *)
(* with a Shortest of 1, DriftAssumption does not hold, and without it     *)
(* LiveSidesKept is violated.                                              *)
EXTENDS Heartbeat
=============================================================================
