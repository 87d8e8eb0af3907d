---------------------------- MODULE MCNameServer ----------------------------
(* Two clients at once, two storage servers, a path q in a directory and    *)
(* the path p that a copy of q is stored under, both in one bucket.         *)
EXTENDS NameServer

CONSTANTS t1, t2, ss1, ss2, p, q

MCServerList == <<ss2, ss1>>

MCBaseName == (p :> p) @@ (q :> p)
MCBucket   == (p :> 0) @@ (q :> 0)

Stored(files1, files2) ==
  (ss1 :> [x \in {p, q} |-> IF x \in files1 THEN "file" ELSE "none"]) @@
  (ss2 :> [x \in {p, q} |-> IF x \in files2 THEN "file" ELSE "none"])

\* A file on one server, one path on both, and a directory.
MCInitialDisks ==
  {Stored({p}, {}), Stored({p}, {p, q}),
   [Stored({p}, {}) EXCEPT ![ss2][q] = "dir"]}

\* The pairs with one of the first three requests, two creations of one
\* directory, and the copy of a file that is being created; which thread makes
\* which is immaterial.  COPY_DIRECTORY only writes NS_Msg: the first two are
\* enough beside it.
MCRequests == <<
  [op |-> "CREATE_FILE",      path |-> p, path2 |-> p],
  [op |-> "DELETE_FILE",      path |-> p, path2 |-> p],
  [op |-> "READ_FILE",        path |-> p, path2 |-> p],
  [op |-> "CREATE_DIRECTORY", path |-> p, path2 |-> p],
  [op |-> "DELETE_DIRECTORY", path |-> p, path2 |-> p],
  [op |-> "CREATE_FILE",      path |-> q, path2 |-> p],
  [op |-> "COPY_FILES",       path |-> q, path2 |-> p],
  [op |-> "COPY_DIRECTORY",   path |-> q, path2 |-> p]>>

MCWorkloads ==
  {w \in [{t1, t2} -> ToSet(MCRequests)] :
     \E i, j \in DOMAIN MCRequests :
       /\ i <= j
       /\ (i <= 3 /\ j < 8) \/ (i <= 2 /\ j = 8) \/ <<i, j>> \in {<<4, 4>>, <<6, 7>>}
       /\ w[t1] = MCRequests[i]
       /\ w[t2] = MCRequests[j]}

\* Two clients that read q, which may be stored nowhere.
MCReaders == {[t \in {t1, t2} |-> [op |-> "READ_FILE", path |-> q, path2 |-> p]]}
=============================================================================
