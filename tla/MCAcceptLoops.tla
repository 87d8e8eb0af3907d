--------------------------- MODULE MCAcceptLoops ---------------------------
(* Three requests and the connection for the pulses on three descriptors:   *)
(* a thread can be overtaken twice, a descriptor is handed out again while  *)
(* another thread still has its number, and the descriptors can run out.    *)
EXTENDS AcceptLoops

=============================================================================
