--------------------------- MODULE MCFileTransfer ---------------------------
(* Files of up to three pieces and a stdio buffer of two: a file that fits  *)
(* into one buffer, one that is refilled on the way, a read that comes back *)
(* to where it was (and is cut off by MaxSent), a write that overflows its  *)
(* buffer.                                                                  *)
EXTENDS FileTransfer
=============================================================================
