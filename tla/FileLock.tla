------------------------------ MODULE FileLock ------------------------------
(***************************************************************************)
(* The lock a storage server keeps for one stored file: the fields         *)
(* read_write and reader_count of a File struct, the two mutexes that      *)
(* guard them, and the client-request threads that take the lock in        *)
(* validateFilePath and give it back in decreaseReaderCount or             *)
(* openWriteLock.  handleClients starts one thread per accepted            *)
(* connection and a thread serves one request, so a member of Sessions is  *)
(* one thread, from the operation number it received to its end.           *)
(*                                                                         *)
(* The struct itself stays in the list for the whole of a behaviour; its   *)
(* insertion and removal are the subject of module FileTable.              *)
(***************************************************************************)
EXTENDS Integers, FiniteSets

CONSTANTS
  Sessions,   \* the request threads that name this file
  NoSession   \* the owner of a free mutex

ASSUME SessionsAssumption == IsFiniteSet(Sessions) /\ NoSession \notin Sessions

VARIABLES
  op,                     \* the operation each session was asked for
  pc,                     \* where each session's thread stands
  valid,                  \* the result of validateFilePath
  read_write,             \* -1 free, 0 open for reading, 1 open for writing
  reader_count,
  read_write_lock,        \* owner of the mutex of read_write
  get_reader_count_lock,  \* owner of the mutex of reader_count
  overlapped              \* history: a writer was admitted beside another one

vars == <<op, pc, valid, read_write, reader_count, read_write_lock,
          get_reader_count_lock, overlapped>>

Free    == -1
Reading == 0
Writing == 1

Ops   == {"READ", "WRITE", "META"}
Codes == {"none", "VALID", "ALREADY_READING", "ALREADY_WRITING"}

(* "abandoned" is the end of a thread that leaves the lock as it took it. *)
Steps == {"recv", "lock", "check", "lockCount", "count", "reply", "transfer",
          "relock", "release", "relockCount", "uncount", "done", "abandoned"}

Init ==
  /\ op \in [Sessions -> Ops]
  /\ pc = [s \in Sessions |-> "recv"]
  /\ valid = [s \in Sessions |-> "none"]
  /\ read_write = Free
  /\ reader_count = 0
  /\ read_write_lock = NoSession
  /\ get_reader_count_lock = NoSession
  /\ overlapped = FALSE

Goto(s, step) == pc' = [pc EXCEPT ![s] = step]

Decide(s, code, step) ==
  /\ valid' = [valid EXCEPT ![s] = code]
  /\ Goto(s, step)

----------------------------------------------------------------------------
(* Slips the code could have had; none is part of Next.  Each property     *)
(* below fails when one of them stands in for the action it resembles.     *)

(* The reader is turned away without unlocking. *)
RejectReaderKeepsMutex(s) ==
  /\ pc[s] = "check"
  /\ op[s] = "READ"
  /\ read_write = Writing
  /\ Decide(s, "ALREADY_WRITING", "reply")
  /\ UNCHANGED <<op, read_write, reader_count, read_write_lock,
                 get_reader_count_lock, overlapped>>

(* A reader opens the file without asking whether it is being written. *)
OpenForReadingUnchecked(s) ==
  /\ pc[s] = "check"
  /\ op[s] = "READ"
  /\ read_write' = Reading
  /\ Goto(s, "lockCount")
  /\ UNCHANGED <<op, valid, reader_count, read_write_lock,
                 get_reader_count_lock, overlapped>>

Uncount(s, newReadWrite) ==
  /\ pc[s] = "uncount"
  /\ IF read_write = Writing
       THEN UNCHANGED <<read_write, reader_count>>
       ELSE /\ reader_count' = reader_count - 1
            /\ read_write' = newReadWrite
  /\ get_reader_count_lock' = NoSession
  /\ read_write_lock' = NoSession
  /\ Goto(s, "done")
  /\ UNCHANGED <<op, valid, overlapped>>

(* reader_count-- == 0 where the code has --reader_count == 0. *)
DecreaseReaderCountLate(s) ==
  Uncount(s, IF reader_count = 0 THEN Free ELSE read_write)

(* The count is stored in the wrong field. *)
DecreaseReaderCountMisassigned(s) == Uncount(s, reader_count - 1)

(* The write lock's release also resets the count. *)
OpenWriteLockResetsCount(s) ==
  /\ pc[s] = "release"
  /\ read_write' = Free
  /\ reader_count' = 0
  /\ read_write_lock' = NoSession
  /\ Goto(s, "done")
  /\ UNCHANGED <<op, valid, get_reader_count_lock, overlapped>>

----------------------------------------------------------------------------
(* receive_ValidateFilePath: the path arrives, or the wait for it fails.   *)
(* A metadata request is valid without touching the lock.                  *)

ReceivePath(s) ==
  /\ pc[s] = "recv"
  /\ IF op[s] = "META" THEN Decide(s, "VALID", "reply")
                       ELSE Decide(s, "none", "lock")
  /\ UNCHANGED <<op, read_write, reader_count, read_write_lock,
                 get_reader_count_lock, overlapped>>

PathNotReceived(s) ==
  /\ pc[s] = "recv"
  /\ Goto(s, "done")
  /\ UNCHANGED <<op, valid, read_write, reader_count, read_write_lock,
                 get_reader_count_lock, overlapped>>

(* validateFilePath under read_write_lock.  Unlocking is the end of the    *)
(* step that decides.                                                      *)

LockToValidate(s) ==
  /\ pc[s] = "lock"
  /\ read_write_lock = NoSession
  /\ read_write_lock' = s
  /\ Goto(s, "check")
  /\ UNCHANGED <<op, valid, read_write, reader_count, get_reader_count_lock,
                 overlapped>>

RejectReader(s) ==
  /\ pc[s] = "check"
  /\ op[s] = "READ"
  /\ read_write = Writing
  /\ Decide(s, "ALREADY_WRITING", "reply")
  /\ read_write_lock' = NoSession
  /\ UNCHANGED <<op, read_write, reader_count, get_reader_count_lock, overlapped>>

OpenForReading(s) ==
  /\ pc[s] = "check"
  /\ op[s] = "READ"
  /\ read_write # Writing
  /\ read_write' = Reading
  /\ Goto(s, "lockCount")
  /\ UNCHANGED <<op, valid, reader_count, read_write_lock,
                 get_reader_count_lock, overlapped>>

LockToCount(s) ==
  /\ pc[s] = "lockCount"
  /\ get_reader_count_lock = NoSession
  /\ get_reader_count_lock' = s
  /\ Goto(s, "count")
  /\ UNCHANGED <<op, valid, read_write, reader_count, read_write_lock, overlapped>>

CountReader(s) ==
  /\ pc[s] = "count"
  /\ reader_count' = reader_count + 1
  /\ get_reader_count_lock' = NoSession
  /\ read_write_lock' = NoSession
  /\ Decide(s, "VALID", "reply")
  /\ UNCHANGED <<op, read_write, overlapped>>

RejectWriter(s) ==
  /\ pc[s] = "check"
  /\ op[s] = "WRITE"
  /\ read_write = Reading
  /\ Decide(s, "ALREADY_READING", "reply")
  /\ read_write_lock' = NoSession
  /\ UNCHANGED <<op, read_write, reader_count, get_reader_count_lock, overlapped>>

(* Only an open reader turns a writer away: a file that is already being   *)
(* written admits another writer.                                          *)
OpenForWriting(s) ==
  /\ pc[s] = "check"
  /\ op[s] = "WRITE"
  /\ read_write # Reading
  /\ read_write' = Writing
  /\ overlapped' = (overlapped \/ read_write = Writing)
  /\ read_write_lock' = NoSession
  /\ Decide(s, "VALID", "reply")
  /\ UNCHANGED <<op, reader_count, get_reader_count_lock>>

----------------------------------------------------------------------------
(* The reply to the path, and the transfer.  When sendData fails the       *)
(* handler skips the transfer and the call that gives the lock back.       *)

SendReply(s) ==
  /\ pc[s] = "reply"
  /\ Goto(s, IF valid[s] = "VALID" THEN "transfer" ELSE "done")
  /\ UNCHANGED <<op, valid, read_write, reader_count, read_write_lock,
                 get_reader_count_lock, overlapped>>

LoseReply(s) ==
  /\ pc[s] = "reply"
  /\ Goto(s, IF valid[s] = "VALID" /\ op[s] # "META" THEN "abandoned" ELSE "done")
  /\ UNCHANGED <<op, valid, read_write, reader_count, read_write_lock,
                 get_reader_count_lock, overlapped>>

(* UploadFile, DownloadFile or getFileMetaData, whatever their outcome.    *)
Transfer(s) ==
  /\ pc[s] = "transfer"
  /\ Goto(s, IF op[s] = "META" THEN "done" ELSE "relock")
  /\ UNCHANGED <<op, valid, read_write, reader_count, read_write_lock,
                 get_reader_count_lock, overlapped>>

----------------------------------------------------------------------------
(* decreaseReaderCount and openWriteLock                                   *)

LockToRelease(s) ==
  /\ pc[s] = "relock"
  /\ read_write_lock = NoSession
  /\ read_write_lock' = s
  /\ Goto(s, IF op[s] = "READ" THEN "relockCount" ELSE "release")
  /\ UNCHANGED <<op, valid, read_write, reader_count, get_reader_count_lock,
                 overlapped>>

LockToUncount(s) ==
  /\ pc[s] = "relockCount"
  /\ get_reader_count_lock = NoSession
  /\ get_reader_count_lock' = s
  /\ Goto(s, "uncount")
  /\ UNCHANGED <<op, valid, read_write, reader_count, read_write_lock, overlapped>>

(* The decrement is the second operand of &&: it does not happen while     *)
(* the file is open for writing.                                           *)
DecreaseReaderCount(s) ==
  /\ pc[s] = "uncount"
  /\ IF read_write = Writing
       THEN UNCHANGED <<read_write, reader_count>>
       ELSE /\ reader_count' = reader_count - 1
            /\ read_write' = IF reader_count - 1 = 0 THEN Free ELSE read_write
  /\ get_reader_count_lock' = NoSession
  /\ read_write_lock' = NoSession
  /\ Goto(s, "done")
  /\ UNCHANGED <<op, valid, overlapped>>

OpenWriteLock(s) ==
  /\ pc[s] = "release"
  /\ read_write' = Free
  /\ read_write_lock' = NoSession
  /\ Goto(s, "done")
  /\ UNCHANGED <<op, valid, reader_count, get_reader_count_lock, overlapped>>

----------------------------------------------------------------------------
Ended(s) == pc[s] \in {"done", "abandoned"}

(* Every thread has ended: the lock waits for the next connection. *)
AllEnded ==
  /\ \A s \in Sessions : Ended(s)
  /\ UNCHANGED vars

Validate(s) ==
  \/ ReceivePath(s) \/ PathNotReceived(s)
  \/ LockToValidate(s)
  \/ RejectReader(s) \/ OpenForReading(s) \/ LockToCount(s) \/ CountReader(s)
  \/ RejectWriter(s) \/ OpenForWriting(s)

Serve(s) == SendReply(s) \/ LoseReply(s) \/ Transfer(s)

Release(s) ==
  LockToRelease(s) \/ LockToUncount(s) \/ DecreaseReaderCount(s) \/ OpenWriteLock(s)

Thread(s) == Validate(s) \/ Serve(s) \/ Release(s)

Next == (\E s \in Sessions : Thread(s)) \/ AllEnded

Spec == Init /\ [][Next]_vars

(* The scheduler runs every thread that can run, and every wait of a       *)
(* thread for its client is bounded by RECEIVE_THREAD_RUNNING_TIME.  The   *)
(* transfer of a read has no bound: UploadFile may send the same lines     *)
(* again and again (see FileTransfer).                                     *)
Unending(s) == op[s] = "READ" /\ pc[s] = "transfer"

FairSpec == Spec /\ \A s \in Sessions : WF_vars(~Unending(s) /\ Thread(s))

----------------------------------------------------------------------------
(* Properties *)

TypeOK ==
  /\ op \in [Sessions -> Ops]
  /\ pc \in [Sessions -> Steps]
  /\ valid \in [Sessions -> Codes]
  /\ read_write \in {Free, Reading, Writing}
  /\ reader_count \in Int
  /\ read_write_lock \in Sessions \cup {NoSession}
  /\ get_reader_count_lock \in Sessions \cup {NoSession}
  /\ overlapped \in BOOLEAN

(* The sessions that passed the check and have not given the lock back.   *)
Admitted(s) ==
  /\ valid[s] = "VALID"
  /\ op[s] # "META"
  /\ pc[s] # "done"

CountedReaders == {s \in Sessions : Admitted(s) /\ op[s] = "READ"}
OpenWriters    == {s \in Sessions : Admitted(s) /\ op[s] = "WRITE"}
EnteringReaders == {s \in Sessions : pc[s] \in {"lockCount", "count"}}

\* reader_count never falls below the number of sessions that were counted in
\* and have not been counted out (file.c:50, file.c:92), whatever writers and
\* lost replies do: a file is never handed to a writer because the count ran
\* out under a reader.
CountCoversReaders == reader_count >= Cardinality(CountedReaders)

\* As long as no writer was admitted beside another one, the two fields say
\* exactly who holds the file: the count is the number of readers, read_write
\* is 1 exactly while its one writer holds it and 0 exactly while a reader
\* does, so nothing stays locked once every session gave its lock back.
FieldsMatchHolders ==
  ~overlapped =>
    /\ reader_count = Cardinality(CountedReaders)
    /\ read_write = Writing <=> OpenWriters # {}
    /\ read_write = Reading <=> CountedReaders \cup EnteringReaders # {}
    /\ \A s, t \in OpenWriters : s = t

RW == INSTANCE RWLock WITH
        readers <- CountedReaders \cup EnteringReaders,
        writers <- OpenWriters

\* Up to the first admission of a second writer, every step of the threads is
\* a step of the readers-writer lock RWLock or changes none of its state: the
\* checks of validateFilePath and the two release functions implement it.
ImplementsRWLock ==
  /\ RW!LockInit
  /\ [][~overlapped' => RW!LockNext \/ UNCHANGED RW!lockVars]_vars

\* Every request thread ends, unless it reads the file without end: no thread
\* waits for ever on the two mutexes, and none keeps one while it transfers or
\* once it has ended (file.c:39-70, file.c:87-96, file.c:177-179).
EveryThreadEnds == <>[](\A s \in Sessions : Ended(s) \/ Unending(s))

\* No session reads the file's bytes while another one writes them: what the
\* check behind ERROR_A_CLIENT_ALREADY_WRITING_TO_FILE is for (file.c:41).
NoReadDuringWrite ==
  \A r, w \in Sessions :
    ~ /\ op[r] = "READ"  /\ pc[r] = "transfer"
      /\ op[w] = "WRITE" /\ pc[w] = "transfer"
=============================================================================
