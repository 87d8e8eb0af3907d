----------------------------- MODULE MCFileLock -----------------------------
(* Four request threads on one file: enough for two overlapping writers, a  *)
(* reader that slips in between them and one more session after it.         *)
EXTENDS FileLock
=============================================================================
