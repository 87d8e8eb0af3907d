--------------------------- MODULE FileLock_proofs ---------------------------
(***************************************************************************)
(* Proofs about FileLock, for any finite set of sessions.                  *)
(*                                                                         *)
(* The inductive invariant adds to the properties of FileLock that the     *)
(* threads inside the critical sections are exactly the owner of           *)
(* read_write_lock (Mutex), and which operation and result a thread at     *)
(* each step can have (Stages).  The effect lemmas then say how each       *)
(* action changes the sets of holders; the counting argument and the       *)
(* refinement both rest on them.                                           *)
(***************************************************************************)
EXTENDS FileLock, FiniteSetTheorems, TLAPS

Guarded == {"check", "lockCount", "count", "release", "relockCount", "uncount"}

\* The owner of read_write_lock is the one thread inside a critical section.
Mutex == \A s \in Sessions : pc[s] \in Guarded <=> read_write_lock = s

\* What a thread has decided by the time it reaches each step.
Stages ==
  \A s \in Sessions :
    /\ pc[s] \in {"recv", "lock", "check", "lockCount", "count"} => valid[s] = "none"
    /\ pc[s] \in {"transfer", "relock", "release", "relockCount", "uncount",
                  "abandoned"} => valid[s] = "VALID"
    /\ pc[s] \in {"lock", "check", "relock", "release", "abandoned"} => op[s] # "META"
    /\ pc[s] \in {"lockCount", "count", "relockCount", "uncount"} => op[s] = "READ"
    /\ pc[s] = "release" => op[s] = "WRITE"

Shape == TypeOK /\ Mutex /\ Stages

IInv == Shape /\ CountCoversReaders /\ FieldsMatchHolders

----------------------------------------------------------------------------
(* Types, the mutex and the stages *)

LEMMA ShapeInit == Init => Shape
  <1> SUFFICES ASSUME Init PROVE Shape
    OBVIOUS
  <1>1. \A s \in Sessions : pc[s] = "recv" /\ valid[s] = "none"
    BY DEF Init
  <1>2. TypeOK
    <2>1. pc \in [Sessions -> Steps]
      BY DEF Init, Steps
    <2>2. valid \in [Sessions -> Codes]
      BY DEF Init, Codes
    <2>3. overlapped \in BOOLEAN
      BY Zenon DEF Init
    <2>4. read_write = Free /\ reader_count \in Int
      BY DEF Init
    <2>5. QED
      BY <2>1, <2>2, <2>3, <2>4 DEF Init, TypeOK
  <1>3. Mutex
    BY <1>1, SessionsAssumption DEF Init, Mutex, Guarded
  <1>4. Stages
    BY <1>1 DEF Stages
  <1>5. QED
    BY <1>2, <1>3, <1>4 DEF Shape

LEMMA ShapeStep == Shape /\ [Next]_vars => Shape'
  <1> SUFFICES ASSUME Shape, [Next]_vars PROVE Shape'
    OBVIOUS
  <1> USE SessionsAssumption
      DEF Shape, TypeOK, Mutex, Stages, Guarded, Ops, Codes, Steps, Free,
          Reading, Writing, Goto, Decide
  <1>1. ASSUME NEW s \in Sessions, ReceivePath(s) PROVE Shape'
    BY <1>1 DEF ReceivePath
  <1>2. ASSUME NEW s \in Sessions, PathNotReceived(s) PROVE Shape'
    BY <1>2 DEF PathNotReceived
  <1>3. ASSUME NEW s \in Sessions, LockToValidate(s) PROVE Shape'
    BY <1>3 DEF LockToValidate
  <1>4. ASSUME NEW s \in Sessions, RejectReader(s) PROVE Shape'
    BY <1>4 DEF RejectReader
  <1>5. ASSUME NEW s \in Sessions, OpenForReading(s) PROVE Shape'
    BY <1>5 DEF OpenForReading
  <1>6. ASSUME NEW s \in Sessions, LockToCount(s) PROVE Shape'
    BY <1>6 DEF LockToCount
  <1>7. ASSUME NEW s \in Sessions, CountReader(s) PROVE Shape'
    BY <1>7 DEF CountReader
  <1>8. ASSUME NEW s \in Sessions, RejectWriter(s) PROVE Shape'
    BY <1>8 DEF RejectWriter
  <1>9. ASSUME NEW s \in Sessions, OpenForWriting(s) PROVE Shape'
    BY <1>9 DEF OpenForWriting
  <1>10. ASSUME NEW s \in Sessions, SendReply(s) PROVE Shape'
    BY <1>10 DEF SendReply
  <1>11. ASSUME NEW s \in Sessions, LoseReply(s) PROVE Shape'
    BY <1>11 DEF LoseReply
  <1>12. ASSUME NEW s \in Sessions, Transfer(s) PROVE Shape'
    BY <1>12 DEF Transfer
  <1>13. ASSUME NEW s \in Sessions, LockToRelease(s) PROVE Shape'
    BY <1>13 DEF LockToRelease
  <1>14. ASSUME NEW s \in Sessions, LockToUncount(s) PROVE Shape'
    BY <1>14 DEF LockToUncount
  <1>15. ASSUME NEW s \in Sessions, DecreaseReaderCount(s) PROVE Shape'
    BY <1>15 DEF DecreaseReaderCount
  <1>16. ASSUME NEW s \in Sessions, OpenWriteLock(s) PROVE Shape'
    BY <1>16 DEF OpenWriteLock
  <1>17. CASE UNCHANGED vars
    BY <1>17 DEF vars
  <1>18. QED
    BY <1>1, <1>2, <1>3, <1>4, <1>5, <1>6, <1>7, <1>8, <1>9, <1>10, <1>11,
       <1>12, <1>13, <1>14, <1>15, <1>16, <1>17
    DEF Next, AllEnded, Thread, Validate, Serve, Release

----------------------------------------------------------------------------
(* What each action does to the sets of holders *)

\* The steps that neither admit a session nor let one go.
Quiet(s) ==
  \/ ReceivePath(s) \/ PathNotReceived(s) \/ LockToValidate(s)
  \/ RejectReader(s) \/ LockToCount(s) \/ RejectWriter(s)
  \/ SendReply(s) \/ LoseReply(s) \/ Transfer(s)
  \/ LockToRelease(s) \/ LockToUncount(s)

LEMMA QuietEffect ==
  ASSUME Shape, NEW s \in Sessions, Quiet(s)
  PROVE  UNCHANGED <<CountedReaders, OpenWriters, EnteringReaders,
                     read_write, reader_count, overlapped>>
  <1>1. UNCHANGED <<op, read_write, reader_count, overlapped>>
    BY DEF Quiet, ReceivePath, PathNotReceived, LockToValidate, RejectReader,
           LockToCount, RejectWriter, SendReply, LoseReply, Transfer,
           LockToRelease, LockToUncount
  <1>2. ASSUME NEW t \in Sessions
        PROVE  /\ Admitted(t)' <=> Admitted(t)
               /\ (pc[t] \in {"lockCount", "count"})'
                    <=> (pc[t] \in {"lockCount", "count"})
    <2> USE DEF Shape, TypeOK, Stages, Admitted, Goto, Decide, Quiet
    <2>1. CASE ReceivePath(s) \/ PathNotReceived(s)
      BY <2>1 DEF ReceivePath, PathNotReceived
    <2>2. CASE LockToValidate(s) \/ LockToCount(s)
      BY <2>2 DEF LockToValidate, LockToCount
    <2>3. CASE RejectReader(s) \/ RejectWriter(s)
      BY <2>3 DEF RejectReader, RejectWriter
    <2>4. CASE SendReply(s) \/ LoseReply(s)
      BY <2>4 DEF SendReply, LoseReply
    <2>5. CASE Transfer(s)
      BY <2>5 DEF Transfer
    <2>6. CASE LockToRelease(s) \/ LockToUncount(s)
      BY <2>6 DEF LockToRelease, LockToUncount
    <2>7. QED
      BY <2>1, <2>2, <2>3, <2>4, <2>5, <2>6
  <1>3. QED
    BY <1>1, <1>2 DEF CountedReaders, OpenWriters, EnteringReaders

LEMMA OpenForReadingEffect ==
  ASSUME Shape, NEW s \in Sessions, OpenForReading(s)
  PROVE  /\ EnteringReaders' = EnteringReaders \cup {s}
         /\ s \notin CountedReaders \cup EnteringReaders
         /\ UNCHANGED <<CountedReaders, OpenWriters>>
  <1> USE DEF Shape, TypeOK, Stages, OpenForReading, Goto, Admitted
  <1>1. ASSUME NEW t \in Sessions
        PROVE  /\ Admitted(t)' <=> Admitted(t)
               /\ (pc[t] \in {"lockCount", "count"})'
                    <=> (t = s \/ pc[t] \in {"lockCount", "count"})
    OBVIOUS
  <1>2. valid[s] = "none" /\ pc[s] = "check" /\ op' = op
    OBVIOUS
  <1>3. QED
    BY <1>1, <1>2 DEF CountedReaders, OpenWriters, EnteringReaders

LEMMA CountReaderEffect ==
  ASSUME Shape, NEW s \in Sessions, CountReader(s)
  PROVE  /\ EnteringReaders' = EnteringReaders \ {s}
         /\ CountedReaders' = CountedReaders \cup {s}
         /\ s \in EnteringReaders \ CountedReaders
         /\ UNCHANGED OpenWriters
  <1> USE DEF Shape, TypeOK, Stages, CountReader, Goto, Decide, Admitted
  <1>1. ASSUME NEW t \in Sessions
        PROVE  /\ Admitted(t)' <=> (t = s \/ Admitted(t))
               /\ (pc[t] \in {"lockCount", "count"})'
                    <=> (t # s /\ pc[t] \in {"lockCount", "count"})
    OBVIOUS
  <1>2. valid[s] = "none" /\ pc[s] = "count" /\ op[s] = "READ" /\ op' = op
    OBVIOUS
  <1>3. QED
    BY <1>1, <1>2 DEF CountedReaders, OpenWriters, EnteringReaders

LEMMA OpenForWritingEffect ==
  ASSUME Shape, NEW s \in Sessions, OpenForWriting(s)
  PROVE  /\ OpenWriters' = OpenWriters \cup {s}
         /\ s \notin OpenWriters
         /\ UNCHANGED <<CountedReaders, EnteringReaders>>
  <1> USE DEF Shape, TypeOK, Stages, OpenForWriting, Goto, Decide, Admitted
  <1>1. ASSUME NEW t \in Sessions
        PROVE  /\ Admitted(t)' <=> (t = s \/ Admitted(t))
               /\ (pc[t] \in {"lockCount", "count"})'
                    <=> (pc[t] \in {"lockCount", "count"})
    OBVIOUS
  <1>2. valid[s] = "none" /\ op[s] = "WRITE" /\ op' = op
    OBVIOUS
  <1>3. QED
    BY <1>1, <1>2 DEF CountedReaders, OpenWriters, EnteringReaders

\* Nobody is between the check and the count while another thread owns the
\* mutex of read_write.
LEMMA DecreaseReaderCountEffect ==
  ASSUME Shape, NEW s \in Sessions, DecreaseReaderCount(s)
  PROVE  /\ CountedReaders' = CountedReaders \ {s}
         /\ s \in CountedReaders
         /\ EnteringReaders = {}
         /\ UNCHANGED <<OpenWriters, EnteringReaders>>
  <1> USE DEF Shape, TypeOK, Stages, DecreaseReaderCount, Goto, Admitted
  <1>1. ASSUME NEW t \in Sessions
        PROVE  /\ Admitted(t)' <=> (t # s /\ Admitted(t))
               /\ ~ (pc[t] \in {"lockCount", "count"})'
               /\ ~ pc[t] \in {"lockCount", "count"}
    BY DEF Mutex, Guarded
  <1>2. Admitted(s) /\ op[s] = "READ" /\ op' = op
    OBVIOUS
  <1>3. QED
    BY <1>1, <1>2 DEF CountedReaders, OpenWriters, EnteringReaders

LEMMA OpenWriteLockEffect ==
  ASSUME Shape, NEW s \in Sessions, OpenWriteLock(s)
  PROVE  /\ OpenWriters' = OpenWriters \ {s}
         /\ s \in OpenWriters
         /\ UNCHANGED <<CountedReaders, EnteringReaders>>
  <1> USE DEF Shape, TypeOK, Stages, OpenWriteLock, Goto, Admitted
  <1>1. ASSUME NEW t \in Sessions
        PROVE  /\ Admitted(t)' <=> (t # s /\ Admitted(t))
               /\ (pc[t] \in {"lockCount", "count"})'
                    <=> (pc[t] \in {"lockCount", "count"})
    OBVIOUS
  <1>2. Admitted(s) /\ op[s] = "WRITE" /\ op' = op
    OBVIOUS
  <1>3. QED
    BY <1>1, <1>2 DEF CountedReaders, OpenWriters, EnteringReaders

----------------------------------------------------------------------------
(* Counting *)

LEMMA HoldersFinite ==
  /\ IsFiniteSet(CountedReaders)
  /\ Cardinality(CountedReaders) \in Nat
  /\ Cardinality(CountedReaders) = 0 <=> CountedReaders = {}
  <1>1. CountedReaders \subseteq Sessions
    BY DEF CountedReaders
  <1>2. IsFiniteSet(CountedReaders)
    BY <1>1, SessionsAssumption, FS_Subset
  <1>3. QED
    BY <1>2, FS_CardinalityType, FS_EmptySet

LEMMA CountsInit == Init => CountCoversReaders /\ FieldsMatchHolders
  <1> SUFFICES ASSUME Init PROVE CountCoversReaders /\ FieldsMatchHolders
    OBVIOUS
  <1>1. \A s \in Sessions : pc[s] = "recv" /\ valid[s] = "none"
    BY DEF Init
  <1>2. CountedReaders = {} /\ OpenWriters = {} /\ EnteringReaders = {}
    BY <1>1 DEF CountedReaders, OpenWriters, EnteringReaders, Admitted
  <1>3. Cardinality(CountedReaders) = 0
    BY <1>2, FS_EmptySet
  <1>4. reader_count = 0 /\ read_write = -1
    BY DEF Init, Free
  <1>5. QED
    BY <1>2, <1>3, <1>4
    DEF CountCoversReaders, FieldsMatchHolders, Reading, Writing

LEMMA CountsStep == IInv /\ [Next]_vars => (CountCoversReaders /\ FieldsMatchHolders)'
  <1> SUFFICES ASSUME IInv, [Next]_vars
               PROVE  (CountCoversReaders /\ FieldsMatchHolders)'
    OBVIOUS
  <1> USE DEF IInv, CountCoversReaders, FieldsMatchHolders, Reading, Writing, Free
  <1>1. IsFiniteSet(CountedReaders) /\ Cardinality(CountedReaders) \in Nat
    BY HoldersFinite
  <1>2. reader_count \in Int
    BY DEF Shape, TypeOK
  <1>3. ASSUME NEW s \in Sessions, Quiet(s)
        PROVE  (CountCoversReaders /\ FieldsMatchHolders)'
    <2>1. UNCHANGED <<CountedReaders, OpenWriters, EnteringReaders,
                      read_write, reader_count, overlapped>>
      BY <1>3, QuietEffect
    <2>2. QED
      BY <2>1
  <1>4. ASSUME NEW s \in Sessions, OpenForReading(s)
        PROVE  (CountCoversReaders /\ FieldsMatchHolders)'
    <2>1. /\ EnteringReaders' = EnteringReaders \cup {s}
          /\ UNCHANGED <<CountedReaders, OpenWriters>>
      BY <1>4, OpenForReadingEffect
    <2>2. /\ read_write # 1 /\ read_write' = 0
          /\ UNCHANGED <<reader_count, overlapped>>
      BY <1>4 DEF OpenForReading
    <2>3. QED
      BY <2>1, <2>2
  <1>5. ASSUME NEW s \in Sessions, CountReader(s)
        PROVE  (CountCoversReaders /\ FieldsMatchHolders)'
    <2>1. /\ EnteringReaders' = EnteringReaders \ {s}
          /\ CountedReaders' = CountedReaders \cup {s}
          /\ s \in EnteringReaders /\ s \notin CountedReaders
          /\ UNCHANGED OpenWriters
      BY <1>5, CountReaderEffect
    <2>2. /\ reader_count' = reader_count + 1
          /\ UNCHANGED <<read_write, overlapped>>
      BY <1>5 DEF CountReader
    <2>3. Cardinality(CountedReaders)' = Cardinality(CountedReaders) + 1
      BY <2>1, <1>1, FS_AddElement
    <2>4. CountCoversReaders'
      BY <2>2, <2>3, <1>1, <1>2
    <2>5. CountedReaders' \cup EnteringReaders' = CountedReaders \cup EnteringReaders
      BY <2>1
    <2>6. FieldsMatchHolders'
      BY <2>1, <2>2, <2>3, <2>5, <1>1, <1>2
    <2>7. QED
      BY <2>4, <2>6
  <1>6. ASSUME NEW s \in Sessions, OpenForWriting(s)
        PROVE  (CountCoversReaders /\ FieldsMatchHolders)'
    <2>1. /\ OpenWriters' = OpenWriters \cup {s}
          /\ UNCHANGED <<CountedReaders, EnteringReaders>>
      BY <1>6, OpenForWritingEffect
    <2>2. /\ read_write # 0 /\ read_write' = 1
          /\ overlapped' = (overlapped \/ read_write = 1)
          /\ UNCHANGED reader_count
      BY <1>6 DEF OpenForWriting
    <2>3. CountCoversReaders'
      BY <2>1, <2>2
    <2>4. ASSUME ~overlapped' PROVE ~overlapped /\ OpenWriters = {}
      BY <2>2, <2>4
    <2>5. FieldsMatchHolders'
      BY <2>1, <2>2, <2>4
    <2>6. QED
      BY <2>3, <2>5
  <1>7. ASSUME NEW s \in Sessions, DecreaseReaderCount(s)
        PROVE  (CountCoversReaders /\ FieldsMatchHolders)'
    <2>1. /\ CountedReaders' = CountedReaders \ {s}
          /\ s \in CountedReaders
          /\ EnteringReaders = {} /\ EnteringReaders' = {}
          /\ UNCHANGED OpenWriters
      BY <1>7, DecreaseReaderCountEffect
    <2>2. Cardinality(CountedReaders)' = Cardinality(CountedReaders) - 1
      BY <2>1, <1>1, FS_RemoveElement
    <2>3. /\ Cardinality(CountedReaders)' \in Nat
          /\ Cardinality(CountedReaders)' = 0 <=> CountedReaders' = {}
      <3>1. IsFiniteSet(CountedReaders')
        BY <2>1, <1>1, FS_RemoveElement
      <3>2. QED
        BY <3>1, FS_CardinalityType, FS_EmptySet
    <2>4. CASE read_write = 1
      <3>1. UNCHANGED <<read_write, reader_count, overlapped>>
        BY <1>7, <2>4 DEF DecreaseReaderCount
      <3>2. overlapped
        BY <2>1, <2>4
      <3>3. QED
        BY <3>1, <3>2, <2>2, <1>1, <1>2
    <2>5. CASE read_write # 1
      <3>1. /\ reader_count' = reader_count - 1
            /\ read_write' = IF reader_count - 1 = 0 THEN -1 ELSE read_write
            /\ UNCHANGED overlapped
        BY <1>7, <2>5 DEF DecreaseReaderCount
      <3>2. CountCoversReaders'
        BY <3>1, <2>2, <1>1, <1>2
      <3>3. ASSUME ~overlapped
            PROVE  /\ reader_count' = Cardinality(CountedReaders)'
                   /\ read_write = 0 /\ OpenWriters = {}
        BY <3>1, <3>3, <2>1, <2>2, <2>5, <1>1, <1>2
      <3>4. FieldsMatchHolders'
        <4> SUFFICES ASSUME ~overlapped PROVE FieldsMatchHolders'
          BY <3>1
        <4>1. CASE CountedReaders' = {}
          <5>1. reader_count' = 0 /\ read_write' = -1
            BY <3>1, <3>3, <2>3, <4>1, <1>2
          <5>2. OpenWriters' = {} /\ CountedReaders' \cup EnteringReaders' = {}
            BY <3>3, <2>1, <4>1
          <5>3. QED
            BY <5>1, <5>2, <3>3
        <4>2. CASE CountedReaders' # {}
          BY <3>1, <3>3, <2>1, <2>3, <4>2
        <4>3. QED
          BY <4>1, <4>2
      <3>5. QED
        BY <3>2, <3>4
    <2>6. QED
      BY <2>4, <2>5
  <1>8. ASSUME NEW s \in Sessions, OpenWriteLock(s)
        PROVE  (CountCoversReaders /\ FieldsMatchHolders)'
    <2>1. /\ OpenWriters' = OpenWriters \ {s}
          /\ s \in OpenWriters
          /\ UNCHANGED <<CountedReaders, EnteringReaders>>
      BY <1>8, OpenWriteLockEffect
    <2>2. read_write' = -1 /\ UNCHANGED <<reader_count, overlapped>>
      BY <1>8 DEF OpenWriteLock
    <2>3. CountCoversReaders'
      BY <2>1, <2>2
    <2>4. FieldsMatchHolders'
      BY <2>1, <2>2
    <2>5. QED
      BY <2>3, <2>4
  <1>9. CASE UNCHANGED vars
    BY <1>9 DEF vars, CountedReaders, OpenWriters, EnteringReaders, Admitted
  <1>10. QED
    BY <1>3, <1>4, <1>5, <1>6, <1>7, <1>8, <1>9
    DEF Next, AllEnded, Thread, Validate, Serve, Release, Quiet

----------------------------------------------------------------------------
(* The theorems *)

LEMMA Inductive == Spec => []IInv
  <1>1. Init => IInv
    BY ShapeInit, CountsInit DEF IInv
  <1>2. IInv /\ [Next]_vars => IInv'
    BY ShapeStep, CountsStep DEF IInv
  <1>3. QED
    BY <1>1, <1>2, PTL DEF Spec

\* The two fields and the two mutexes of the lock keep their types for any
\* number of request threads (file.h, file.c:27-102 and 173-184).
THEOREM TypeCorrect == Spec => []TypeOK
  <1>1. IInv => TypeOK
    BY DEF IInv, Shape
  <1>2. QED
    BY <1>1, Inductive, PTL

\* For any number of request threads, reader_count covers the sessions counted
\* in by validateFilePath and not yet counted out by decreaseReaderCount.
THEOREM CountCovers == Spec => []CountCoversReaders
  <1>1. IInv => CountCoversReaders
    BY DEF IInv
  <1>2. QED
    BY <1>1, Inductive, PTL

\* For any number of request threads, read_write and reader_count describe
\* exactly the sessions that hold the file until validateFilePath first admits
\* a writer beside another one.
THEOREM FieldsMatch == Spec => []FieldsMatchHolders
  <1>1. IInv => FieldsMatchHolders
    BY DEF IInv
  <1>2. QED
    BY <1>1, Inductive, PTL

LEMMA RefinesStep ==
  ASSUME IInv, [Next]_vars, ~overlapped'
  PROVE  RW!LockNext \/ UNCHANGED RW!lockVars
  <1> USE DEF RW!LockNext, RW!lockVars, RW!BeginRead, RW!EndRead, RW!BeginWrite,
              RW!EndWrite, IInv, FieldsMatchHolders, Reading, Writing, Free
  <1>1. ASSUME NEW s \in Sessions, Quiet(s) PROVE UNCHANGED RW!lockVars
    BY <1>1, QuietEffect
  <1>2. ASSUME NEW s \in Sessions, OpenForReading(s) PROVE RW!BeginRead(s)
    <2>1. /\ EnteringReaders' = EnteringReaders \cup {s}
          /\ s \notin CountedReaders \cup EnteringReaders
          /\ UNCHANGED <<CountedReaders, OpenWriters>>
      BY <1>2, OpenForReadingEffect
    <2>2. read_write # 1 /\ overlapped' = overlapped
      BY <1>2 DEF OpenForReading
    <2>3. QED
      BY <2>1, <2>2
  <1>3. ASSUME NEW s \in Sessions, CountReader(s) PROVE UNCHANGED RW!lockVars
    BY <1>3, CountReaderEffect
  <1>4. ASSUME NEW s \in Sessions, OpenForWriting(s) PROVE RW!BeginWrite(s)
    <2>1. /\ OpenWriters' = OpenWriters \cup {s}
          /\ UNCHANGED <<CountedReaders, EnteringReaders>>
      BY <1>4, OpenForWritingEffect
    <2>2. read_write # 0 /\ overlapped' = (overlapped \/ read_write = 1)
      BY <1>4 DEF OpenForWriting
    <2>3. QED
      BY <2>1, <2>2
  <1>5. ASSUME NEW s \in Sessions, DecreaseReaderCount(s) PROVE RW!EndRead(s)
    BY <1>5, DecreaseReaderCountEffect
  <1>6. ASSUME NEW s \in Sessions, OpenWriteLock(s) PROVE RW!EndWrite(s)
    BY <1>6, OpenWriteLockEffect
  <1>7. CASE UNCHANGED vars
    BY <1>7 DEF vars, CountedReaders, OpenWriters, EnteringReaders, Admitted
  <1>8. QED
    BY <1>1, <1>2, <1>3, <1>4, <1>5, <1>6, <1>7
    DEF Next, AllEnded, Thread, Validate, Serve, Release, Quiet

\* For any number of request threads, the lock of file.c implements the
\* readers-writer lock until its first admission of a second writer.
THEOREM Refines == Spec => ImplementsRWLock
  <1>1. Init => RW!LockInit
    <2> SUFFICES ASSUME Init PROVE RW!LockInit
      OBVIOUS
    <2>1. \A s \in Sessions : pc[s] = "recv" /\ valid[s] = "none"
      BY DEF Init
    <2>2. QED
      BY <2>1 DEF RW!LockInit, CountedReaders, OpenWriters, EnteringReaders, Admitted
  <1>2. IInv /\ [Next]_vars
          => [~overlapped' => RW!LockNext \/ UNCHANGED RW!lockVars]_vars
    BY RefinesStep
  <1>3. QED
    BY <1>1, <1>2, Inductive, PTL DEF Spec, ImplementsRWLock
=============================================================================
