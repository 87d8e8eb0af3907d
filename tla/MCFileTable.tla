---------------------------- MODULE MCFileTable ----------------------------
(* Three threads on a server that starts with up to two files: enough to    *)
(* delete the last one, create another and read it, and for two appends to  *)
(* cross around a removal.                                                  *)
EXTENDS FileTable

CONSTANTS t1, t2, t3

MCPathsFile == <<"a", "b", "a">>

MCRequests == <<
  [op |-> "CREATE_FILE", path |-> "a"], [op |-> "DELETE_FILE", path |-> "a"],
  [op |-> "READ_FILE",   path |-> "a"], [op |-> "CREATE_FILE", path |-> "b"],
  [op |-> "DELETE_FILE", path |-> "b"], [op |-> "READ_FILE",   path |-> "b"],
  [op |-> "WRITE_FILE",  path |-> "b"], [op |-> "CREATE_FILE", path |-> "c"],
  [op |-> "COPY_FILES",  path |-> "b"]>>

\* Each choice of three of these requests once.
MCWorkloads ==
  {w \in [{t1, t2, t3} -> ToSet(MCRequests)] :
     \E i, j, k \in DOMAIN MCRequests :
       /\ i <= j /\ j <= k
       /\ w[t1] = MCRequests[i] /\ w[t2] = MCRequests[j] /\ w[t3] = MCRequests[k]}
=============================================================================
