------------------------------- MODULE RWLock -------------------------------
(***************************************************************************)
(* What the lock of one stored file promises its sessions: any number of   *)
(* readers, or one writer, never both.  The error codes                    *)
(* A_CLIENT_ALREADY_READING_THE_FILE and A_CLIENT_ALREADY_WRITING_TO_FILE  *)
(* (error_codes.h) name the two reasons to turn a session away; a session  *)
(* that is turned away leaves this state alone.                            *)
(***************************************************************************)
EXTENDS FiniteSets

CONSTANT Sessions

VARIABLES
  readers,   \* the sessions that may read the file
  writers    \* the sessions that may write it

lockVars == <<readers, writers>>

RWTypeOK ==
  /\ readers \subseteq Sessions
  /\ writers \subseteq Sessions

LockInit ==
  /\ readers = {}
  /\ writers = {}

BeginRead(s) ==
  /\ s \notin readers
  /\ writers = {}
  /\ readers' = readers \cup {s}
  /\ UNCHANGED writers

EndRead(s) ==
  /\ s \in readers
  /\ readers' = readers \ {s}
  /\ UNCHANGED writers

BeginWrite(s) ==
  /\ readers = {}
  /\ writers = {}
  /\ writers' = {s}
  /\ UNCHANGED readers

EndWrite(s) ==
  /\ s \in writers
  /\ writers' = writers \ {s}
  /\ UNCHANGED readers

LockNext ==
  \E s \in Sessions : BeginRead(s) \/ EndRead(s) \/ BeginWrite(s) \/ EndWrite(s)

LockSpec == LockInit /\ [][LockNext]_lockVars

\* Readers and a writer never hold the file together, and never two writers.
Exclusive ==
  /\ readers # {} => writers = {}
  /\ \A s, t \in writers : s = t
=============================================================================
