------------------------ MODULE FileTransfer_proofs ------------------------
(***************************************************************************)
(* Proofs about FileTransfer, for files and buffers of any size, any       *)
(* number of rewinds and of forks by other threads.                        *)
(*                                                                         *)
(* The inductive invariant describes the dialogue step by step.  Opening   *)
(* says what the two streams can hold before the first piece, whatever     *)
(* struck.  Window is the stop-and-wait discipline: as long as no byte     *)
(* beyond a chunk was sent, at most one item is under way in either        *)
(* direction.  Under it Progress bounds where the sender's file stands by  *)
(* what the receiver has confirmed, and Order equates the two as long as   *)
(* nothing moved the offset of the file back.  Carried relates what was    *)
(* confirmed to what was written, Stored what was written to the disk.     *)
(***************************************************************************)
EXTENDS FileTransfer, SequenceTheorems, TLAPS

FurthestOf(pieces) == Max(ToSet(pieces) \cup {0})
Furthest == FurthestOf(received)

Writing == receiver \in {"open", "receive", "write"}
Past    == receiver = "close" \/ ReceiverEnded

\* A sequence is the first part of another.
Begins(s, t) == Len(s) <= Len(t) /\ \A i \in 1..Len(s) : s[i] = t[i]

\* What the streams hold until the receiver has confirmed the status.
Opening ==
  /\ receiver = "path" =>
       /\ toSender = <<>>
       /\ sender \in {"reply", "status", "statusSent", "failed", "killed"}
       /\ toReceiver \in {<<>>, <<VALID>>, <<VALID, VALID>>, <<VALID, ERROR>>}
       /\ sender = "reply" => toReceiver = <<>>
       /\ sender = "status" => toReceiver = <<VALID>>
       /\ sender = "killed" => toReceiver = <<VALID, ERROR>>
  /\ receiver = "status" =>
       /\ toSender = <<>>
       /\ sender \in {"status", "statusSent", "failed", "killed"}
       /\ toReceiver \in {<<>>, <<VALID>>, <<ERROR>>}
       /\ sender = "status" => toReceiver = <<>>
       /\ sender = "killed" => toReceiver = <<ERROR>>
  /\ Writing =>
       /\ sender \in {"statusSent", "piece", "pieceSent", "sent", "failed"}
       /\ \A i \in DOMAIN toReceiver : toReceiver[i] \in Pieces \cup {Junk, COMPLETE}
       /\ sender = "statusSent" => toReceiver = <<>>
  /\ sender \in {"reply", "status"} => toSender = <<>>
  /\ sender \in {"reply", "status", "statusSent"} => received = <<>> /\ pos = 0
  /\ receiver \in {"path", "status", "open"} => received = <<>>

\* Stop and wait.
Window ==
  "junk" \notin faults =>
    /\ sender = "piece" => toReceiver = <<>> /\ toSender = <<>>
    /\ sender \in {"statusSent", "pieceSent"} =>
         Len(toSender) <= 1 /\ (toReceiver = <<>> \/ toSender = <<>>)
    /\ Writing =>
         /\ Len(toReceiver) + Len(toSender) <= 1
         /\ sender = "sent" => toReceiver = <<COMPLETE>>

\* The buffered part of the file lies before the offset, unless that moved.
Buffering ==
  /\ op = "WRITE_FILE" => end = size
  /\ Uploads => offset <= end
  /\ Uploads /\ "rewound" \notin faults => offset = end
  /\ sender = "sent" => pos = end /\ (Uploads => offset = size)

Misread == {"junk", "marker", "glued"}

\* The sender is at most one piece ahead of the receiver, and no piece that is
\* under way is beyond the next one.
Near ==
  /\ Furthest \in 0..size /\ Furthest \in ToSet(received) \cup {0}
  /\ \A i \in DOMAIN received : received[i] \in 1..Furthest
  /\ sender \in {"piece", "sent"} => pos <= Furthest
  /\ sender = "pieceSent" => pos <= Furthest + 1 /\ (toSender # <<>> => pos <= Furthest)
  /\ Writing /\ toReceiver # <<>> =>
       \/ toReceiver = <<COMPLETE>> /\ sender = "sent"
       \/ \E p \in 1..Furthest + 1 :
            /\ p <= size /\ toReceiver = <<p>>
            /\ sender = "pieceSent" => p = pos

Progress == faults \cap Misread = {} => Near

\* Without a rewind the pieces received are the first ones, and the next one to
\* be sent is the next one to be received.
InStep ==
  /\ \A i \in DOMAIN received : received[i] = i
  /\ sender \in {"piece", "sent"} => Len(received) = pos
  /\ sender = "pieceSent" => (toSender # <<>> => Len(received) = pos)
  /\ Writing /\ toReceiver # <<>> /\ toReceiver # <<COMPLETE>> =>
       toReceiver = <<Len(received) + 1>>

Order == faults \cap (Misread \cup {"rewound"}) = {} => InStep

\* What was confirmed and is not written yet is the chunk.
Carried ==
  "overrun" \notin faults =>
    /\ Begins(written \o chunk, received)
    /\ receiver = "write" => received = written \o chunk
    /\ receiver \notin {"write", "stopped"} /\ "unwritable" \notin faults => received = written

\* The chunk is at most one piece, and all pieces are there when the end was read.
OnePiece ==
  /\ receiver = "write" /\ chunk # <<>> =>
       \E p \in 1..FurthestOf(written) + 1 : p <= size /\ chunk = <<p>>
  /\ receiver = "close" => Furthest = size

Taken == faults \cap (Misread \cup {"overrun"}) = {} => OnePiece

\* What was written is on the disk or in the buffer, until a part of it is lost.
Stored ==
  /\ receiver \notin {"receive", "write", "close"} => buffered = <<>>
  /\ receiver # "write" => chunk = <<>>
  /\ faults \cap {"unwritable", "stopped"} # {} => ReceiverEnded
  /\ receiver = "stopped" => "stopped" \in faults
  /\ "flushedTwice" \notin faults => Begins(disk \o buffered, written)
  /\ faults \cap {"flushedTwice", "unwritable", "stopped"} = {} /\ receiver # "killed" =>
       disk \o buffered = written

\* Who has gone.
Gone ==
  /\ "hungUp" \in faults <=> sender = "failed"
  /\ reset => SenderEnded
  /\ reset /\ "junk" \notin faults => sender = "failed" \/ ~Writing

IInv ==
  /\ TypeOK /\ Opening /\ Window /\ Buffering /\ Progress /\ Order
  /\ Carried /\ Taken /\ Stored /\ Gone /\ KilledByLeaver

----------------------------------------------------------------------------
(* What a recv takes from a stream *)

LEMMA ReadsFirst ==
  ASSUME NEW S, NEW s \in Seq(S), NEW got \in Reads(s)
  PROVE  /\ got \in Seq(S) /\ Len(got) \in 1..Len(s)
         /\ \A i \in DOMAIN got : i \in DOMAIN s /\ got[i] = s[i]
         /\ Rest(s, got) \in Seq(S) /\ Len(Rest(s, got)) = Len(s) - Len(got)
         /\ \A i \in DOMAIN Rest(s, got) :
              i + Len(got) \in DOMAIN s /\ Rest(s, got)[i] = s[i + Len(got)]
  <1>1. PICK n \in 1..Len(s) : got = SubSeq(s, 1, n)
    BY DEF Reads
  <1>2. Len(s) \in Nat /\ DOMAIN s = 1..Len(s) /\ n \in 1..Len(s)
    BY LenProperties
  <1>3. \A i \in 1..Len(s) : s[i] \in S
    BY ElementOfSeq
  <1>4. got \in Seq(S) /\ Len(got) = n /\ \A i \in 1..n : got[i] = s[i]
    <2>1. /\ SubSeq(s, 1, n) \in Seq(S) /\ Len(SubSeq(s, 1, n)) = IF 1 <= n THEN n - 1 + 1 ELSE 0
          /\ \A i \in 1..n - 1 + 1 : SubSeq(s, 1, n)[i] = s[1 + i - 1]
      <3>1. \A i \in 1..n : s[i] \in S
        BY <1>2, <1>3
      <3>2. 1 \in Int /\ n \in Int
        BY <1>2
      <3>3. QED
        BY <3>1, <3>2, SubSeqProperties
    <2>2. QED
      BY <2>1, <1>1, <1>2
  <1>5. DOMAIN got = 1..n
    BY <1>4, LenProperties
  <1>6. /\ Rest(s, got) \in Seq(S) /\ Len(Rest(s, got)) = Len(s) - n
        /\ \A i \in 1..Len(s) - n : Rest(s, got)[i] = s[i + n]
    <2>1. \A i \in n + 1..Len(s) : s[i] \in S
      BY <1>2, <1>3
    <2>2. n + 1 \in Int /\ Len(s) \in Int
      BY <1>2
    <2>3. /\ SubSeq(s, n + 1, Len(s)) \in Seq(S)
          /\ Len(SubSeq(s, n + 1, Len(s))) =
               IF n + 1 <= Len(s) THEN Len(s) - (n + 1) + 1 ELSE 0
          /\ \A i \in 1..Len(s) - (n + 1) + 1 :
               SubSeq(s, n + 1, Len(s))[i] = s[n + 1 + i - 1]
      BY <2>1, <2>2, SubSeqProperties
    <2>4. Rest(s, got) = SubSeq(s, n + 1, Len(s))
      BY <1>4 DEF Rest
    <2>5. Len(Rest(s, got)) = Len(s) - n
      <3>1. Len(Rest(s, got)) = IF n + 1 <= Len(s) THEN Len(s) - (n + 1) + 1 ELSE 0
        BY <2>3, <2>4
      <3>2. PICK m \in Nat : m = Len(s)
        BY <1>2
      <3>3. n \in 1..m /\ Len(Rest(s, got)) = IF n + 1 <= m THEN m - (n + 1) + 1 ELSE 0
        BY <3>1, <3>2, <1>2
      <3>4. QED
        BY <3>2, <3>3
    <2>6. ASSUME NEW i \in 1..Len(s) - n PROVE Rest(s, got)[i] = s[i + n]
      <3>1. i \in 1..Len(s) - (n + 1) + 1 /\ n + 1 + i - 1 = i + n
        BY <1>2
      <3>2. QED
        BY <3>1, <2>3, <2>4
    <2>7. QED
      BY <2>3, <2>4, <2>5, <2>6
  <1>7. DOMAIN Rest(s, got) = 1..Len(s) - n
    BY <1>6, LenProperties
  <1>8. QED
    BY <1>2, <1>4, <1>5, <1>6, <1>7

LEMMA EmptyBySize ==
  ASSUME NEW S, NEW s \in Seq(S)
  PROVE  Len(s) \in Nat /\ (s = <<>> <=> Len(s) = 0) /\ DOMAIN s = 1..Len(s)
  BY EmptySeq, LenProperties

\* A stream of one item is read as a whole.
LEMMA ReadsAll ==
  ASSUME NEW S, NEW s \in Seq(S), Len(s) <= 1, NEW got \in Reads(s)
  PROVE  got = s /\ Len(s) = 1 /\ Rest(s, got) = <<>>
  <1>1. /\ got \in Seq(S) /\ Len(got) \in 1..Len(s)
        /\ \A i \in DOMAIN got : i \in DOMAIN s /\ got[i] = s[i]
        /\ Rest(s, got) \in Seq(S) /\ Len(Rest(s, got)) = Len(s) - Len(got)
    BY ReadsFirst
  <1>2. Len(s) = 1 /\ Len(got) = 1 /\ Len(Rest(s, got)) = 0
    <2>1. Len(s) \in Nat
      BY EmptyBySize
    <2>2. PICK m \in Nat : m = Len(s)
      BY <2>1
    <2>3. PICK n \in 1..m : n = Len(got)
      BY <1>1, <2>2
    <2>4. m = 1 /\ n = 1
      BY <2>2, <2>3
    <2>5. QED
      BY <1>1, <2>2, <2>3, <2>4
  <1>3. \A i \in 1..Len(got) : got[i] = s[i]
    BY <1>1, EmptyBySize
  <1>4. got = s
    BY <1>1, <1>2, <1>3, SeqEqual
  <1>5. QED
    BY <1>1, <1>2, <1>4, EmptyBySize

\* At the end of a closed stream nothing is left.
LEMMA RestOfNothing == Rest(<<>>, <<>>) = <<>>
  BY SubSeqEmpty, EmptySeq DEF Rest

LEMMA AfterChildBound ==
  ASSUME NEW off \in Nat, NEW unread \in Nat
  PROVE  AfterChild(off, unread) \in 0..off
  BY DEF AfterChild

----------------------------------------------------------------------------
(* Types *)

LEMMA SentTyped ==
  ASSUME TypeOK, NEW items \in Seq(Items), Sent(items)
  PROVE  toReceiver' \in Seq(Items)
  BY ConcatProperties DEF Sent, TypeOK

LEMMA TypeInit == Init => TypeOK
  <1> SUFFICES ASSUME Init PROVE TypeOK
    OBVIOUS
  <1>1. /\ toReceiver \in Seq(Items) /\ toSender \in Seq({VALID})
        /\ chunk \in Seq(Pieces \cup {Junk}) /\ buffered \in Seq(Pieces \cup {Junk})
        /\ disk \in Seq(Pieces \cup {Junk}) /\ received \in Seq(Pieces \cup {Junk})
        /\ written \in Seq(Pieces \cup {Junk})
    BY EmptySeq DEF Init
  <1>2. offset \in 0..size /\ end \in 0..size /\ pos \in 0..end /\ sent \in Nat
    BY BoundsAssumption DEF Init
  <1>3. sender \in SenderSteps /\ receiver \in ReceiverSteps
    BY DEF Init, SenderSteps, ReceiverSteps
  <1>4. faults \subseteq Faults /\ forks \in 0..MaxForks
    BY BoundsAssumption DEF Init
  <1>5. reset \in BOOLEAN
    BY Zenon DEF Init
  <1>6. QED
    BY <1>1, <1>2, <1>3, <1>4, <1>5 DEF Init, TypeOK

\* The types of what the sender's steps and the forks change.
SenderTyped ==
  /\ sender \in SenderSteps /\ toReceiver \in Seq(Items) /\ toSender \in Seq({VALID})
  /\ offset \in 0..size /\ end \in 0..size /\ pos \in 0..end
  /\ sent \in Nat /\ faults \subseteq Faults

LEMMA SenderTypeStep ==
  ASSUME TypeOK, UNCHANGED <<request, receiver, reset, output, forks>>, SenderTyped'
  PROVE  TypeOK'
  BY DEF TypeOK, SenderTyped, request, output

LEMMA SaidTyped ==
  <<VALID>> \in Seq(Items) /\ <<ERROR>> \in Seq(Items) /\ <<COMPLETE>> \in Seq(Items)
  BY DEF Items

LEMMA RewindTyped ==
  ASSUME TypeOK, NEW off \in 0..size, NEW unread \in Nat
  PROVE  AfterChild(off, unread) \in 0..size
  <1>1. size \in Nat
    BY BoundsAssumption DEF TypeOK
  <1>2. AfterChild(off, unread) \in 0..off
    BY <1>1, AfterChildBound
  <1>3. QED
    BY <1>1, <1>2

LEMMA SenderKeepsTypes ==
  ASSUME TypeOK, Sender \/ SenderLeaves \/ ForkAtSender
  PROVE  TypeOK'
  <1> DEFINE Talk == UNCHANGED <<request, receiver, reset, output, forks>>
  <1>0. /\ size \in Nat /\ offset \in 0..size /\ end \in 0..size /\ pos \in 0..end
        /\ sent \in Nat /\ faults \subseteq Faults /\ toReceiver \in Seq(Items)
        /\ toSender \in Seq({VALID}) /\ sender \in SenderSteps /\ Block \in Nat \ {0}
        /\ size <= MaxSize /\ MaxSize \in Nat
    BY BoundsAssumption DEF TypeOK
  <1>1. ASSUME SendReply \/ SendStatus PROVE TypeOK'
    <2>1. toReceiver' \in Seq(Items)
      BY <1>1, SentTyped, SaidTyped DEF SendReply, SendStatus
    <2>2. SenderTyped'
      BY <1>0, <1>1, <2>1 DEF SendReply, SendStatus, SenderTyped, SenderSteps, file, request
    <2>3. QED
      BY <1>1, <2>2, SenderTypeStep DEF SendReply, SendStatus
  <1>2. ASSUME FileNotOpened \/ SendComplete PROVE TypeOK'
    <2>1. toReceiver' \in Seq(Items)
      BY <1>2, SentTyped, SaidTyped DEF FileNotOpened, SendComplete
    <2>2. SenderTyped'
      BY <1>0, <1>2, <2>1 DEF FileNotOpened, SendComplete, SenderTyped, SenderSteps, file,
                             request
    <2>3. QED
      BY <1>2, <2>2, SenderTypeStep DEF FileNotOpened, SendComplete
  <1>3. ASSUME Confirmed PROVE TypeOK'
    <2>1. toSender' \in Seq({VALID})
      BY <1>0, <1>3, ReadsFirst DEF Confirmed
    <2>2. SenderTyped'
      BY <1>0, <1>3, <2>1 DEF Confirmed, SenderTyped, SenderSteps, file, request
    <2>3. QED
      BY <1>3, <2>2, SenderTypeStep DEF Confirmed
  <1>4. ASSUME NotConfirmed \/ SenderLeaves PROVE TypeOK'
    <2>1. faults' \subseteq Faults
      BY <1>0, <1>4 DEF NotConfirmed, SenderLeaves, Faults
    <2>2. SenderTyped'
      BY <1>0, <1>4, <2>1 DEF NotConfirmed, SenderLeaves, SenderTyped, SenderSteps, file,
                             request, streams
    <2>3. QED
      BY <1>4, <2>2, SenderTypeStep DEF NotConfirmed, SenderLeaves
  <1>5. ASSUME SendLine PROVE TypeOK'
    <2> DEFINE from   == IF pos < end THEN pos ELSE offset
               filled == IF pos < end THEN end
                         ELSE IF offset + Block < size THEN offset + Block ELSE size
               off    == IF pos < end THEN offset ELSE filled
    <2>1. /\ Sent(<<from + 1>>) /\ pos' = from + 1 /\ end' = filled
          /\ offset' = AfterChild(off, filled - (from + 1))
          /\ faults' = IF offset' # off THEN faults \cup {"rewound"} ELSE faults
          /\ sent' = sent + 1 /\ sender' = "pieceSent" /\ Talk /\ UNCHANGED toSender
      BY <1>5 DEF SendLine
    <2>2. pos < end \/ offset < size
      BY <1>5 DEF SendLine
    <2>3. /\ from + 1 \in 1..size /\ filled \in 0..size /\ off \in 0..size
          /\ filled - (from + 1) \in Nat
      BY <1>0, <2>2
    <2> HIDE DEF from, filled, off
    <2>4. toReceiver' \in Seq(Items)
      <3>1. from + 1 \in Pieces
        BY <1>0, <2>3 DEF Pieces
      <3>2. <<from + 1>> \in Seq(Items)
        BY <3>1 DEF Items
      <3>3. QED
        BY <2>1, <3>2, SentTyped
    <2>5. offset' \in 0..size
      BY <2>1, <2>3, RewindTyped
    <2>6. faults' \subseteq Faults
      BY <1>0, <2>1 DEF Faults
    <2>7. end' \in 0..size /\ pos' \in 0..end' /\ sent' \in Nat
      BY <1>0, <2>1, <2>3
    <2>8. SenderTyped'
      BY <1>0, <2>1, <2>4, <2>5, <2>6, <2>7 DEF SenderTyped, SenderSteps, request
    <2>9. QED
      BY <2>1, <2>8, SenderTypeStep
  <1>6. ASSUME SendChunk PROVE TypeOK'
    <2>1. pos + 1 \in Pieces
      BY <1>0, <1>6 DEF SendChunk, Pieces
    <2>2. <<pos + 1>> \in Seq(Items) /\ <<pos + 1, Junk>> \in Seq(Items)
      BY <2>1 DEF Items
    <2>3. toReceiver' \in Seq(Items) /\ faults' \subseteq Faults
      <3>1. CASE Sent(<<pos + 1>>) /\ UNCHANGED faults
        BY <1>0, <2>2, <3>1, SentTyped
      <3>2. CASE Sent(<<pos + 1, Junk>>) /\ faults' = faults \cup {"junk"}
        BY <1>0, <2>2, <3>2, SentTyped DEF Faults
      <3>3. QED
        BY <1>6, <3>1, <3>2 DEF SendChunk
    <2>4. pos' \in 0..end /\ sent' \in Nat
      BY <1>0, <1>6 DEF SendChunk
    <2>5. SenderTyped'
      BY <1>0, <1>6, <2>3, <2>4 DEF SendChunk, SenderTyped, SenderSteps, request
    <2>6. QED
      BY <1>6, <2>5, SenderTypeStep DEF SendChunk
  <1>7. ASSUME ForkAtSender PROVE TypeOK'
    <2>1. end - pos \in Nat
      BY <1>0
    <2>2. offset' \in 0..size
      BY <1>0, <1>7, <2>1, RewindTyped DEF ForkAtSender
    <2>3. faults' \subseteq Faults
      BY <1>0, <1>7 DEF ForkAtSender, Faults
    <2>4. forks' \in 0..MaxForks
      BY <1>7, BoundsAssumption DEF ForkAtSender, TypeOK
    <2>5. QED
      BY <1>7, <2>2, <2>3, <2>4 DEF ForkAtSender, TypeOK, request, output, streams
  <1>8. QED
    BY <1>1, <1>2, <1>3, <1>4, <1>5, <1>6, <1>7 DEF Sender

\* What the receiver takes is pieces, or bytes beyond a chunk.
LEMMA ChunkTyped ==
  ASSUME TypeOK, Opening, receiver = "receive",
         NEW got \in Seq(Items),
         \A i \in DOMAIN got : i \in DOMAIN toReceiver /\ got[i] = toReceiver[i],
         {i \in DOMAIN got : IsEnd(got[i])} = {}
  PROVE  got \in Seq(Pieces \cup {Junk})
  <1>1. \A i \in DOMAIN got : got[i] \in Pieces \cup {Junk}
    BY DEF Opening, Writing, IsEnd
  <1>2. got \in [1..Len(got) -> Pieces \cup {Junk}] /\ Len(got) \in Nat
    BY <1>1, LenProperties
  <1>3. QED
    BY <1>2, SeqDef

LEMMA WriteTyped ==
  ASSUME TypeOK, NEW got \in Seq(Pieces \cup {Junk}), Write(got)
  PROVE  /\ buffered' \in Seq(Pieces \cup {Junk}) /\ disk' \in Seq(Pieces \cup {Junk})
         /\ written' \in Seq(Pieces \cup {Junk})
  <1>1. /\ written \o got \in Seq(Pieces \cup {Junk})
        /\ buffered \o got \in Seq(Pieces \cup {Junk})
        /\ disk \o buffered \in Seq(Pieces \cup {Junk})
    BY ConcatProperties DEF TypeOK
  <1>2. QED
    BY <1>1 DEF Write, TypeOK

\* The first part of a sequence.
LEMMA PartIs ==
  ASSUME NEW S, NEW s \in Seq(S), NEW n \in 0..Len(s)
  PROVE  /\ SubSeq(s, 1, n) \in Seq(S) /\ Len(SubSeq(s, 1, n)) = n
         /\ \A i \in 1..n : SubSeq(s, 1, n)[i] = s[i]
  <1>1. Len(s) \in Nat /\ n \in Nat /\ n <= Len(s) /\ 1 \in Int /\ n \in Int
    BY LenProperties
  <1>2. \A i \in 1..n : s[i] \in S
    BY <1>1, ElementOfSeq
  <1>3. /\ SubSeq(s, 1, n) \in Seq(S) /\ Len(SubSeq(s, 1, n)) = IF 1 <= n THEN n - 1 + 1 ELSE 0
        /\ \A i \in 1..n - 1 + 1 : SubSeq(s, 1, n)[i] = s[1 + i - 1]
    BY <1>1, <1>2, SubSeqProperties
  <1>4. \A i \in 1..n : i \in 1..n - 1 + 1 /\ 1 + i - 1 = i
    BY <1>1
  <1>5. (IF 1 <= n THEN n - 1 + 1 ELSE 0) = n
    BY <1>1
  <1>6. QED
    BY <1>3, <1>4, <1>5

LEMMA PartTyped ==
  ASSUME TypeOK, NEW n \in 0..Len(buffered)
  PROVE  disk \o SubSeq(buffered, 1, n) \in Seq(Pieces \cup {Junk})
  BY PartIs, ConcatProperties DEF TypeOK

LEMMA FlushTyped ==
  ASSUME TypeOK, Flush
  PROVE  /\ buffered' \in Seq(Pieces \cup {Junk}) /\ disk' \in Seq(Pieces \cup {Junk})
         /\ faults' \subseteq faults \cup {"unwritable"}
  <1>1. disk \o buffered \in Seq(Pieces \cup {Junk}) /\ <<>> \in Seq(Pieces \cup {Junk})
    BY ConcatProperties, EmptySeq DEF TypeOK
  <1>2. Len(buffered) \in Nat
    BY LenProperties DEF TypeOK
  <1>3. CASE disk' = disk \o buffered /\ UNCHANGED faults
    BY <1>1, <1>3 DEF Flush
  <1>4. CASE \E n \in 0..Len(buffered) - 1 :
               /\ disk' = disk \o SubSeq(buffered, 1, n)
               /\ faults' = faults \cup {"unwritable"}
    <2>1. PICK n \in 0..Len(buffered) - 1 : disk' = disk \o SubSeq(buffered, 1, n)
      BY <1>4
    <2>2. n \in 0..Len(buffered)
      BY <1>2
    <2>3. disk' \in Seq(Pieces \cup {Junk})
      BY <2>1, <2>2, PartTyped
    <2>4. QED
      BY <1>1, <1>4, <2>3 DEF Flush
  <1>5. QED
    BY <1>3, <1>4 DEF Flush

\* What recv returns: some of the items under way, or nothing of a closed stream.
LEMMA GotTyped ==
  ASSUME TypeOK,
         NEW got \in Reads(toReceiver) \cup
                       (IF SenderEnded /\ toReceiver = <<>> THEN {<<>>} ELSE {})
  PROVE  /\ got \in Seq(Items) /\ Rest(toReceiver, got) \in Seq(Items)
         /\ \A i \in DOMAIN got : i \in DOMAIN toReceiver /\ got[i] = toReceiver[i]
         /\ \A i \in DOMAIN Rest(toReceiver, got) :
              /\ i + Len(got) \in DOMAIN toReceiver
              /\ Rest(toReceiver, got)[i] = toReceiver[i + Len(got)]
  <1>1. CASE got \in Reads(toReceiver)
    BY <1>1, ReadsFirst DEF TypeOK
  <1>2. CASE toReceiver = <<>> /\ got = <<>>
    <2>1. Rest(toReceiver, got) = <<>> /\ got = <<>>
      BY <1>2, RestOfNothing
    <2>2. <<>> \in Seq(Items) /\ DOMAIN <<>> = {}
      <3>1. <<>> \in Seq(Items) /\ Len(<<>>) = 0
        BY EmptySeq
      <3>2. DOMAIN <<>> = 1..Len(<<>>)
        BY <3>1, LenProperties
      <3>3. QED
        BY <3>1, <3>2
    <2>3. QED
      BY <2>1, <2>2
  <1>3. QED
    BY <1>1, <1>2

\* The step ReceivePieces with what it took.
Took(got) ==
  /\ toReceiver' = Rest(toReceiver, got)
  /\ IF SenderEnded /\ reset
       THEN /\ receiver' = "killed" /\ buffered' = <<>>
            /\ UNCHANGED <<chunk, received, toSender, reset, faults>>
       ELSE /\ toSender' = IF SenderEnded THEN toSender ELSE Append(toSender, VALID)
            /\ reset' = SenderEnded
            /\ LET ends == {i \in DOMAIN got : IsEnd(got[i])}
               IN  IF ends = {}
                     THEN /\ receiver' = "write"
                          /\ chunk' = got
                          /\ received' = received \o got
                          /\ UNCHANGED faults
                     ELSE /\ receiver' = "close"
                          /\ faults' = faults
                               \cup (IF \E i \in ends : got[i] # COMPLETE
                                       THEN {"marker"} ELSE {})
                               \cup (IF Len(got) > 1 THEN {"glued"} ELSE {})
                          /\ UNCHANGED <<chunk, received>>
            /\ UNCHANGED buffered

\* A chunk was taken, or the end was.
TookChunk(got) ==
  /\ receiver' = "write" /\ chunk' = got /\ received' = received \o got
  /\ UNCHANGED <<buffered, faults>>
TookEnd == receiver' = "close" /\ UNCHANGED <<chunk, received, buffered>>

LEMMA TookCases ==
  ASSUME ReceivePieces,
         NEW got \in Reads(toReceiver) \cup
                       (IF SenderEnded /\ toReceiver = <<>> THEN {<<>>} ELSE {}),
         Took(got)
  PROVE  /\ receiver = "receive"
         /\ UNCHANGED <<op, size, marked, sender, offset, pos, end, sent, disk, written, forks>>
         /\ SenderEnded /\ reset =>
              /\ receiver' = "killed" /\ buffered' = <<>>
              /\ UNCHANGED <<chunk, received, toSender, reset, faults>>
         /\ ~(SenderEnded /\ reset) =>
              /\ toSender' = IF SenderEnded THEN toSender ELSE Append(toSender, VALID)
              /\ reset' = SenderEnded
              /\ {i \in DOMAIN got : IsEnd(got[i])} = {} => TookChunk(got)
              /\ {i \in DOMAIN got : IsEnd(got[i])} # {} => TookEnd
         /\ faults' \subseteq faults \cup {"marker", "glued"}
  <1>1. /\ receiver = "receive"
        /\ UNCHANGED <<op, size, marked, sender, offset, pos, end, sent, disk, written, forks>>
    BY DEF ReceivePieces, request, file
  <1>2. CASE SenderEnded /\ reset
    BY <1>1, <1>2 DEF Took
  <1>3. CASE ~(SenderEnded /\ reset) /\ {i \in DOMAIN got : IsEnd(got[i])} = {}
    BY <1>1, <1>3 DEF Took, TookChunk
  <1>4. CASE ~(SenderEnded /\ reset) /\ {i \in DOMAIN got : IsEnd(got[i])} # {}
    BY <1>1, <1>4 DEF Took, TookEnd
  <1>5. QED
    BY <1>2, <1>3, <1>4

LEMMA ConfirmTyped ==
  ASSUME TypeOK
  PROVE  /\ Append(toSender, VALID) \in Seq({VALID})
         /\ Len(Append(toSender, VALID)) = Len(toSender) + 1
  <1>1. toSender \in Seq({VALID}) /\ VALID \in {VALID}
    BY DEF TypeOK
  <1>2. QED
    BY <1>1, AppendProperties

LEMMA ReceiverKeepsTypes ==
  ASSUME TypeOK, Opening, Receiver \/ ForkAtReceiver \/ ReceiverStops
  PROVE  TypeOK'
  <1>1. ASSUME ReceiveReply PROVE TypeOK'
    <2>1. toReceiver' \in Seq(Items)
      BY <1>1, ReadsFirst DEF ReceiveReply, TypeOK
    <2>2. QED
      BY <1>1, <2>1 DEF ReceiveReply, TypeOK, ReceiverSteps, request, file, output
  <1>2. ASSUME ReceiveStatus PROVE TypeOK'
    <2>1. PICK got \in Reads(toReceiver) :
            /\ toReceiver' = Rest(toReceiver, got)
            /\ IF got = <<VALID>>
                 THEN receiver' = "open" /\ toSender' = Append(toSender, VALID)
                 ELSE receiver' = "failed" /\ UNCHANGED toSender
      BY <1>2 DEF ReceiveStatus
    <2>2. toReceiver' \in Seq(Items)
      BY <2>1, ReadsFirst DEF TypeOK
    <2>3. toSender' \in Seq({VALID}) /\ receiver' \in ReceiverSteps
      BY <2>1, ConfirmTyped DEF TypeOK, ReceiverSteps
    <2>4. reset' \in BOOLEAN
      BY <1>2 DEF ReceiveStatus
    <2>5. QED
      BY <1>2, <2>2, <2>3, <2>4 DEF ReceiveStatus, TypeOK, request, file, output
  <1>3. ASSUME OpenFile PROVE TypeOK'
    BY <1>3 DEF OpenFile, TypeOK, ReceiverSteps, Faults, request, file, output, streams
  <1>4. ASSUME ReceivePieces PROVE TypeOK'
    <2>1. PICK got \in Reads(toReceiver) \cup
                         (IF SenderEnded /\ toReceiver = <<>> THEN {<<>>} ELSE {}) : Took(got)
      BY <1>4 DEF ReceivePieces, Took
    <2>2. /\ UNCHANGED <<op, size, marked, sender, offset, pos, end, sent, disk, written, forks>>
          /\ receiver = "receive" /\ faults' \subseteq faults \cup {"marker", "glued"}
      BY <1>4, <2>1, TookCases
    <2>3. toReceiver' \in Seq(Items) /\ got \in Seq(Items)
      BY <2>1, GotTyped DEF Took
    <2>4. faults' \subseteq Faults
      BY <2>2 DEF TypeOK, Faults
    <2>5. CASE SenderEnded /\ reset
      <3>1. /\ receiver' = "killed" /\ buffered' = <<>>
            /\ UNCHANGED <<chunk, received, toSender, reset>>
        BY <1>4, <2>1, <2>5, TookCases
      <3>2. buffered' \in Seq(Pieces \cup {Junk})
        BY <3>1, EmptySeq
      <3>3. QED
        BY <2>2, <2>3, <2>4, <3>1, <3>2 DEF TypeOK, ReceiverSteps
    <2>6. CASE ~(SenderEnded /\ reset)
      <3>1. toSender' \in Seq({VALID}) /\ reset' \in BOOLEAN
        <4>1. toSender' = IF SenderEnded THEN toSender ELSE Append(toSender, VALID)
          BY <1>4, <2>1, <2>6, TookCases
        <4>2. reset' = SenderEnded
          BY <1>4, <2>1, <2>6, TookCases
        <4>3. reset' \in BOOLEAN
          <5>1. SenderEnded \in BOOLEAN
            BY DEF SenderEnded
          <5>2. QED
            BY <4>2, <5>1
        <4>4. QED
          BY <4>1, <4>3, ConfirmTyped DEF TypeOK
      <3>2. CASE {i \in DOMAIN got : IsEnd(got[i])} = {}
        <4>1. got \in Seq(Pieces \cup {Junk})
          BY <2>1, <2>2, <3>2, GotTyped, ChunkTyped
        <4>2. /\ receiver' = "write" /\ chunk' = got /\ received' = received \o got
              /\ UNCHANGED buffered
          BY <1>4, <2>1, <2>6, <3>2, TookCases DEF TookChunk
        <4>3. received' \in Seq(Pieces \cup {Junk})
          BY <4>1, <4>2, ConcatProperties DEF TypeOK
        <4>4. QED
          BY <2>2, <2>3, <2>4, <3>1, <4>1, <4>2, <4>3 DEF TypeOK, ReceiverSteps
      <3>3. CASE {i \in DOMAIN got : IsEnd(got[i])} # {}
        <4>1. receiver' = "close" /\ UNCHANGED <<chunk, received, buffered>>
          BY <1>4, <2>1, <2>6, <3>3, TookCases DEF TookEnd
        <4>2. QED
          BY <2>2, <2>3, <2>4, <3>1, <4>1 DEF TypeOK, ReceiverSteps
      <3>4. QED
        BY <3>2, <3>3
    <2>7. QED
      BY <2>5, <2>6
  <1>5. ASSUME WritePieces PROVE TypeOK'
    <2>1. <<>> \in Seq(Pieces \cup {Junk}) /\ Append(chunk, Junk) \in Seq(Pieces \cup {Junk})
      BY EmptySeq, AppendProperties DEF TypeOK
    <2>2. /\ buffered' \in Seq(Pieces \cup {Junk}) /\ disk' \in Seq(Pieces \cup {Junk})
          /\ written' \in Seq(Pieces \cup {Junk}) /\ faults' \subseteq Faults
      <3>1. CASE Write(chunk) /\ UNCHANGED faults
        BY <3>1, WriteTyped DEF TypeOK
      <3>2. CASE Write(Append(chunk, Junk)) /\ faults' = faults \cup {"overrun"}
        <4>1. faults' \subseteq Faults
          BY <3>2 DEF TypeOK, Faults
        <4>2. QED
          BY <2>1, <3>2, <4>1, WriteTyped
      <3>3. QED
        BY <1>5, <3>1, <3>2 DEF WritePieces
    <2>3. /\ receiver' \in ReceiverSteps /\ chunk' \in Seq(Pieces \cup {Junk})
          /\ UNCHANGED <<op, size, marked, sender, toReceiver, toSender, offset, pos, end, sent,
                         reset, received, forks>>
      BY <1>5, <2>1 DEF WritePieces, ReceiverSteps, request, file, streams
    <2>4. QED
      BY <2>2, <2>3 DEF TypeOK
  <1>6. ASSUME WriteFails PROVE TypeOK'
    <2>1. PICK n \in 0..Len(buffered) : disk' = disk \o SubSeq(buffered, 1, n)
      BY <1>6 DEF WriteFails
    <2>2. disk' \in Seq(Pieces \cup {Junk}) /\ <<>> \in Seq(Pieces \cup {Junk})
      BY <2>1, PartTyped, EmptySeq
    <2>3. faults' \subseteq Faults /\ receiver' \in ReceiverSteps
      BY <1>6 DEF WriteFails, TypeOK, Faults, ReceiverSteps
    <2>4. QED
      BY <1>6, <2>2, <2>3 DEF WriteFails, TypeOK, request, file, streams
  <1>7. ASSUME CloseFile \/ ReceiveFails PROVE TypeOK'
    <2>1. /\ buffered' \in Seq(Pieces \cup {Junk}) /\ disk' \in Seq(Pieces \cup {Junk})
          /\ faults' \subseteq faults \cup {"unwritable"}
      BY <1>7, FlushTyped DEF CloseFile, ReceiveFails
    <2>2. receiver' \in ReceiverSteps /\ faults' \subseteq Faults
      BY <1>7, <2>1 DEF CloseFile, ReceiveFails, ReceiverSteps, TypeOK, Faults
    <2>3. QED
      BY <1>7, <2>1, <2>2 DEF CloseFile, ReceiveFails, TypeOK, request, file, streams
  <1>8. ASSUME ReceiverStops PROVE TypeOK'
    <2>1. <<>> \in Seq(Pieces \cup {Junk})
      BY EmptySeq
    <2>2. faults' \subseteq Faults /\ receiver' \in ReceiverSteps
      BY <1>8 DEF ReceiverStops, TypeOK, Faults, ReceiverSteps
    <2>3. QED
      BY <1>8, <2>1, <2>2 DEF ReceiverStops, TypeOK, request, file, streams
  <1>9. ASSUME ForkAtReceiver PROVE TypeOK'
    <2>1. disk' \in Seq(Pieces \cup {Junk})
      BY <1>9, ConcatProperties DEF ForkAtReceiver, TypeOK
    <2>2. forks' \in 0..MaxForks /\ faults' \subseteq Faults
      BY <1>9, BoundsAssumption DEF ForkAtReceiver, TypeOK, Faults
    <2>3. QED
      BY <1>9, <2>1, <2>2 DEF ForkAtReceiver, TypeOK, request, file, streams
  <1>10. QED
    BY <1>1, <1>2, <1>3, <1>4, <1>5, <1>6, <1>7, <1>8, <1>9 DEF Receiver

LEMMA TypeStep == TypeOK /\ Opening /\ [Next]_vars => TypeOK'
  <1> SUFFICES ASSUME TypeOK, Opening, [Next]_vars PROVE TypeOK'
    OBVIOUS
  <1>1. CASE Sender \/ SenderLeaves \/ ForkAtSender
    BY <1>1, SenderKeepsTypes
  <1>2. CASE Receiver \/ ForkAtReceiver \/ ReceiverStops
    BY <1>2, ReceiverKeepsTypes
  <1>3. CASE UNCHANGED vars
    BY <1>3 DEF TypeOK, vars, request, streams, file, output
  <1>4. QED
    BY <1>1, <1>2, <1>3 DEF Next, Over

----------------------------------------------------------------------------
(* The dialogue before the first piece *)

LEMMA ShortStreams ==
  /\ Len(<<>>) = 0 /\ Reads(<<>>) = {}
  /\ \A x : /\ <<>> \o <<x>> = <<x>> /\ Len(<<x>>) = 1 /\ <<x>> # <<>>
            /\ \A z : Rest(<<x>>, <<z>>) = <<>>
  /\ \A x, y : /\ <<x>> \o <<y>> = <<x, y>> /\ Len(<<x, y>>) = 2
               /\ <<x, y>> # <<>> /\ <<x, y>> # <<x>>
               /\ \A z : Rest(<<x, y>>, <<z>>) = <<y>>
  <1>1. Len(<<>>) = 0
    OBVIOUS
  <1>2. Reads(<<>>) = {}
    BY <1>1 DEF Reads
  <1>3. ASSUME NEW x
        PROVE  /\ <<>> \o <<x>> = <<x>> /\ Len(<<x>>) = 1 /\ <<x>> # <<>>
               /\ \A z : Rest(<<x>>, <<z>>) = <<>>
    <2>1. <<x>> \in Seq({x}) /\ Len(<<x>>) = 1
      OBVIOUS
    <2>2. <<>> \o <<x>> = <<x>>
      BY <2>1, ConcatEmptySeq
    <2>3. <<x>> # <<>>
      BY <2>1, <1>1
    <2>4. ASSUME NEW z PROVE Rest(<<x>>, <<z>>) = <<>>
      <3>1. Len(<<z>>) = 1
        OBVIOUS
      <3>2. Rest(<<x>>, <<z>>) = SubSeq(<<x>>, 2, 1)
        BY <2>1, <3>1 DEF Rest
      <3>3. QED
        BY <3>2, SubSeqEmpty
    <2>5. QED
      BY <2>1, <2>2, <2>3, <2>4
  <1>4. ASSUME NEW x, NEW y
        PROVE  /\ <<x>> \o <<y>> = <<x, y>> /\ Len(<<x, y>>) = 2
               /\ <<x, y>> # <<>> /\ <<x, y>> # <<x>>
               /\ \A z : Rest(<<x, y>>, <<z>>) = <<y>>
    <2>1. /\ <<x>> \in Seq({x, y}) /\ <<y>> \in Seq({x, y}) /\ <<x, y>> \in Seq({x, y})
          /\ Len(<<x>>) = 1 /\ Len(<<y>>) = 1 /\ Len(<<x, y>>) = 2
      OBVIOUS
    <2>2. <<x>> \o <<y>> = <<x, y>>
      <3>1. /\ <<x>> \o <<y>> \in Seq({x, y}) /\ Len(<<x>> \o <<y>>) = 2
            /\ \A i \in 1..1 + 1 : (<<x>> \o <<y>>)[i] = IF i <= 1 THEN <<x>>[i] ELSE <<y>>[i - 1]
        BY <2>1, ConcatProperties
      <3>2. \A i \in 1..Len(<<x>> \o <<y>>) : (<<x>> \o <<y>>)[i] = <<x, y>>[i]
        BY <3>1
      <3>3. QED
        BY <2>1, <3>1, <3>2, SeqEqual
    <2>3. <<x, y>> # <<>> /\ <<x, y>> # <<x>>
      BY <2>1, <1>1
    <2>4. ASSUME NEW z PROVE Rest(<<x, y>>, <<z>>) = <<y>>
      <3>1. Len(<<z>>) = 1
        OBVIOUS
      <3>2. Rest(<<x, y>>, <<z>>) = SubSeq(<<x, y>>, 2, 2)
        BY <2>1, <3>1 DEF Rest
      <3>3. /\ SubSeq(<<x, y>>, 2, 2) \in Seq({x, y}) /\ Len(SubSeq(<<x, y>>, 2, 2)) = 1
            /\ SubSeq(<<x, y>>, 2, 2)[1] = y
        <4>1. \A i \in 2..2 : <<x, y>>[i] \in {x, y}
          OBVIOUS
        <4>2. /\ SubSeq(<<x, y>>, 2, 2) \in Seq({x, y})
              /\ Len(SubSeq(<<x, y>>, 2, 2)) = IF 2 <= 2 THEN 2 - 2 + 1 ELSE 0
              /\ \A i \in 1..2 - 2 + 1 : SubSeq(<<x, y>>, 2, 2)[i] = <<x, y>>[2 + i - 1]
          BY <4>1, SubSeqProperties
        <4>3. <<x, y>>[2] = y /\ 2 + 1 - 1 = 2 /\ 1 \in 1..2 - 2 + 1 /\ 2 - 2 + 1 = 1
          OBVIOUS
        <4>4. SubSeq(<<x, y>>, 2, 2)[1] = <<x, y>>[2 + 1 - 1]
          BY <4>2, <4>3
        <4>5. QED
          BY <4>2, <4>3, <4>4
      <3>4. \A i \in 1..Len(SubSeq(<<x, y>>, 2, 2)) : SubSeq(<<x, y>>, 2, 2)[i] = <<y>>[i]
        BY <3>3
      <3>5. QED
        BY <2>1, <3>2, <3>3, <3>4, SeqEqual
    <2>5. QED
      BY <2>1, <2>2, <2>3, <2>4
  <1>5. QED
    BY <1>1, <1>2, <1>3, <1>4

LEMMA OpeningInit == Init => Opening
  BY DEF Init, Opening, Writing, Ops

\* Opening, of the steps that leave the streams alone.
LEMMA OpeningOf ==
  ASSUME Opening, UNCHANGED <<receiver, toReceiver, toSender, received, pos>>,
         sender' = sender \/ sender' = "failed"
  PROVE  Opening'
  BY DEF Opening, Writing

LEMMA OpeningBySender ==
  ASSUME TypeOK, Opening, Sender \/ SenderLeaves \/ ForkAtSender
  PROVE  Opening'
  <1>0. receiver \in {"path", "status"} \/ Writing \/ Past
    BY DEF TypeOK, ReceiverSteps, Writing, Past, ReceiverEnded
  <1>1. ASSUME SendReply PROVE Opening'
    <2>1. sender = "reply" /\ sender' = "status"
          /\ UNCHANGED <<receiver, toSender, pos, received>>
      BY <1>1 DEF SendReply, file, output
    <2>2. receiver = "path" \/ Past
      BY <1>0, <2>1 DEF Opening, Writing
    <2>3. receiver = "path" => toReceiver' = <<VALID>> /\ toSender = <<>>
      BY <1>1, <2>1, ShortStreams DEF SendReply, Sent, Opening, ReceiverEnded
    <2>4. received = <<>> /\ pos = 0
      BY <2>1 DEF Opening
    <2>5. QED
      BY <2>1, <2>2, <2>3, <2>4 DEF Opening, Writing, Past, ReceiverEnded
  <1>2. ASSUME SendStatus PROVE Opening'
    <2>1. sender = "status" /\ sender' = "statusSent"
          /\ UNCHANGED <<receiver, toSender, pos, received>>
      BY <1>2 DEF SendStatus, file, output
    <2>2. receiver \in {"path", "status"} \/ Past
      BY <1>0, <2>1 DEF Opening
    <2>3. receiver = "path" => toReceiver' = <<VALID, VALID>> /\ toSender = <<>>
      <3>1. <<VALID>> \o <<VALID>> = <<VALID, VALID>>
        BY ShortStreams, Zenon
      <3>2. QED
        BY <1>2, <2>1, <3>1 DEF SendStatus, Sent, Opening, ReceiverEnded
    <2>4. receiver = "status" => toReceiver' = <<VALID>> /\ toSender = <<>>
      BY <1>2, <2>1, ShortStreams DEF SendStatus, Sent, Opening, ReceiverEnded
    <2>5. received = <<>> /\ pos = 0
      BY <2>1 DEF Opening
    <2>6. QED
      BY <2>1, <2>2, <2>3, <2>4, <2>5 DEF Opening, Writing, Past, ReceiverEnded
  <1>3. ASSUME FileNotOpened PROVE Opening'
    <2>1. sender = "status" /\ sender' = "killed"
          /\ UNCHANGED <<receiver, toSender, pos, received>>
      BY <1>3 DEF FileNotOpened, file, output
    <2>2. receiver \in {"path", "status"} \/ Past
      BY <1>0, <2>1 DEF Opening
    <2>3. receiver = "path" => toReceiver' = <<VALID, ERROR>> /\ toSender = <<>>
      <3>1. <<VALID>> \o <<ERROR>> = <<VALID, ERROR>>
        BY ShortStreams, Zenon
      <3>2. QED
        BY <1>3, <2>1, <3>1 DEF FileNotOpened, Sent, Opening, ReceiverEnded
    <2>4. receiver = "status" => toReceiver' = <<ERROR>> /\ toSender = <<>>
      BY <1>3, <2>1, ShortStreams DEF FileNotOpened, Sent, Opening, ReceiverEnded
    <2>5. received = <<>> /\ pos = 0
      BY <2>1 DEF Opening
    <2>6. QED
      BY <2>1, <2>2, <2>3, <2>4, <2>5 DEF Opening, Writing, Past, ReceiverEnded
  <1>4. ASSUME Confirmed PROVE Opening'
    <2>1. sender' = "piece" /\ UNCHANGED <<receiver, toReceiver, pos, received>>
      BY <1>4 DEF Confirmed, file, output
    <2>2. toSender # <<>>
      BY <1>4, ShortStreams DEF Confirmed
    <2>3. Writing \/ Past
      BY <1>0, <2>2 DEF Opening
    <2>4. QED
      BY <2>1, <2>3 DEF Opening, Writing, Past, ReceiverEnded
  <1>5. ASSUME NotConfirmed \/ SenderLeaves \/ ForkAtSender PROVE Opening'
    BY <1>5, OpeningOf DEF NotConfirmed, SenderLeaves, ForkAtSender, streams, file, output
  <1>6. ASSUME NEW items \in Seq(Pieces \cup {Junk, COMPLETE}), Sent(items), sender = "piece",
               sender' \in {"pieceSent", "sent"}, UNCHANGED <<receiver, toSender, received>>
        PROVE  Opening'
    <2>1. Writing \/ Past
      BY <1>0, <1>6 DEF Opening
    <2>2. ASSUME Writing
          PROVE  \A i \in DOMAIN toReceiver' :
                   toReceiver'[i] \in Pieces \cup {Junk, COMPLETE}
      <3>1. toReceiver' = toReceiver \o items
        BY <1>6, <2>2 DEF Sent, ReceiverEnded, Writing
      <3>2. toReceiver \in Seq(Pieces \cup {Junk, COMPLETE})
        <4>1. toReceiver \in [1..Len(toReceiver) -> Pieces \cup {Junk, COMPLETE}]
              /\ Len(toReceiver) \in Nat
          BY <2>2, LenProperties DEF Opening, TypeOK
        <4>2. QED
          BY <4>1, SeqDef
      <3>3. toReceiver' \in Seq(Pieces \cup {Junk, COMPLETE})
        BY <1>6, <3>1, <3>2, ConcatProperties
      <3>4. QED
        BY <3>3, LenProperties
    <2>3. QED
      BY <1>6, <2>1, <2>2 DEF Opening, Writing, Past, ReceiverEnded
  <1>7. ASSUME SendLine PROVE Opening'
    <2> DEFINE p == (IF pos < end THEN pos ELSE offset) + 1
    <2>1. /\ Sent(<<p>>) /\ sender = "piece" /\ sender' = "pieceSent"
          /\ UNCHANGED <<receiver, toSender, received>>
      BY <1>7 DEF SendLine, output
    <2>2. p \in Pieces
      BY <1>7, BoundsAssumption DEF SendLine, TypeOK, Pieces
    <2> HIDE DEF p
    <2>3. <<p>> \in Seq(Pieces \cup {Junk, COMPLETE})
      BY <2>2
    <2>4. QED
      BY <1>6, <2>1, <2>3
  <1>8. ASSUME SendChunk PROVE Opening'
    <2>1. pos + 1 \in Pieces
      BY <1>8, BoundsAssumption DEF SendChunk, TypeOK, Pieces
    <2>2. <<pos + 1>> \in Seq(Pieces \cup {Junk, COMPLETE})
          /\ <<pos + 1, Junk>> \in Seq(Pieces \cup {Junk, COMPLETE})
      BY <2>1
    <2>3. /\ Sent(<<pos + 1>>) \/ Sent(<<pos + 1, Junk>>)
          /\ sender = "piece" /\ sender' = "pieceSent"
          /\ UNCHANGED <<receiver, toSender, received>>
      BY <1>8 DEF SendChunk, output
    <2>4. QED
      BY <1>6, <2>2, <2>3
  <1>9. ASSUME SendComplete PROVE Opening'
    <2>1. /\ Sent(<<COMPLETE>>) /\ sender = "piece" /\ sender' = "sent"
          /\ UNCHANGED <<receiver, toSender, received>>
      BY <1>9 DEF SendComplete, output
    <2>2. <<COMPLETE>> \in Seq(Pieces \cup {Junk, COMPLETE})
      OBVIOUS
    <2>3. QED
      BY <1>6, <2>1, <2>2
  <1>10. QED
    BY <1>1, <1>2, <1>3, <1>4, <1>5, <1>7, <1>8, <1>9 DEF Sender

LEMMA OpeningByReceiver ==
  ASSUME TypeOK, Opening, Receiver \/ ForkAtReceiver \/ ReceiverStops
  PROVE  Opening'
  <1>1. ASSUME ReceiveReply PROVE Opening'
    <2>1. PICK got \in Reads(toReceiver) :
            /\ toReceiver' = Rest(toReceiver, got)
            /\ receiver' = IF got = <<VALID>> THEN "status" ELSE "failed"
      BY <1>1 DEF ReceiveReply
    <2>2. receiver = "path" /\ UNCHANGED <<sender, toSender, pos, received>>
      BY <1>1 DEF ReceiveReply, file, output
    <2>3. toReceiver \in {<<VALID>>, <<VALID, VALID>>, <<VALID, ERROR>>}
      BY <2>1, <2>2, ShortStreams DEF Opening
    <2>4. CASE got # <<VALID>>
      BY <2>1, <2>2, <2>4 DEF Opening, Writing
    <2>5. CASE got = <<VALID>>
      <3>1. /\ toReceiver = <<VALID>> => toReceiver' = <<>>
            /\ toReceiver = <<VALID, VALID>> => toReceiver' = <<VALID>>
            /\ toReceiver = <<VALID, ERROR>> => toReceiver' = <<ERROR>>
        BY <2>1, <2>5, ShortStreams
      <3>2. receiver' = "status"
        BY <2>1, <2>5
      <3>3. sender \in {"status", "statusSent", "failed", "killed"}
        BY <2>2, <2>3, ShortStreams DEF Opening
      <3>4. sender = "status" => toReceiver' = <<>>
        BY <2>2, <3>1 DEF Opening
      <3>5. sender = "killed" => toReceiver' = <<ERROR>>
        BY <2>2, <3>1 DEF Opening
      <3>6. QED
        BY <2>2, <2>3, <3>1, <3>2, <3>3, <3>4, <3>5 DEF Opening, Writing
    <2>6. QED
      BY <2>4, <2>5
  <1>2. ASSUME ReceiveStatus PROVE Opening'
    <2>1. PICK got \in Reads(toReceiver) :
            /\ toReceiver' = Rest(toReceiver, got)
            /\ IF got = <<VALID>>
                 THEN receiver' = "open" /\ toSender' = Append(toSender, VALID)
                 ELSE receiver' = "failed" /\ UNCHANGED toSender
      BY <1>2 DEF ReceiveStatus
    <2>2. receiver = "status" /\ UNCHANGED <<sender, pos, received>> /\ received = <<>>
      BY <1>2 DEF ReceiveStatus, file, output, Opening
    <2>3. toReceiver \in {<<VALID>>, <<ERROR>>}
      BY <2>1, <2>2, ShortStreams DEF Opening
    <2>4. got = toReceiver /\ toReceiver' = <<>>
      <3>1. Len(<<VALID>>) = 1 /\ Len(<<ERROR>>) = 1
        BY ShortStreams, Zenon
      <3>2. Len(toReceiver) = 1
        BY <2>3, <3>1, Zenon
      <3>3. Len(toReceiver) <= 1
        BY <3>2
      <3>4. QED
        BY <2>1, <3>3, ReadsAll DEF TypeOK
    <2>5. CASE got # <<VALID>>
      BY <2>1, <2>2, <2>5 DEF Opening, Writing
    <2>6. CASE got = <<VALID>>
      <3>1. sender \in {"statusSent", "failed"}
        <4>1. toReceiver # <<>> /\ toReceiver # <<ERROR>>
          BY <2>4, <2>6, ShortStreams DEF VALID, ERROR
        <4>2. QED
          BY <2>2, <4>1 DEF Opening
      <3>2. DOMAIN toReceiver' = {}
        BY <2>4
      <3>3. receiver' = "open"
        BY <2>1, <2>6
      <3>4. QED
        BY <2>2, <2>4, <3>1, <3>2, <3>3 DEF Opening, Writing
    <2>7. QED
      BY <2>5, <2>6
  <1>3. ASSUME OpenFile PROVE Opening'
    BY <1>3 DEF OpenFile, Opening, Writing, streams, file, output
  <1>4. ASSUME ReceivePieces PROVE Opening'
    <2>1. PICK got \in Reads(toReceiver) \cup
                         (IF SenderEnded /\ toReceiver = <<>> THEN {<<>>} ELSE {}) :
            toReceiver' = Rest(toReceiver, got)
      BY <1>4 DEF ReceivePieces
    <2>2. /\ receiver = "receive" /\ receiver' \in {"write", "close", "killed"}
          /\ UNCHANGED <<sender, pos>>
      BY <1>4 DEF ReceivePieces, file
    <2>3. sender \in {"piece", "pieceSent", "sent", "failed"}
      BY <2>1, <2>2, ShortStreams DEF Opening, Writing, SenderEnded
    <2>4. \A i \in DOMAIN toReceiver' : toReceiver'[i] \in Pieces \cup {Junk, COMPLETE}
      BY <2>1, <2>2, GotTyped DEF Opening, Writing
    <2>5. QED
      BY <2>2, <2>3, <2>4 DEF Opening, Writing
  <1>5. ASSUME WriteFails \/ CloseFile \/ ReceiveFails \/ ReceiverStops PROVE Opening'
    <2>1. /\ receiver' \in {"failed", "complete", "stopped"}
          /\ UNCHANGED <<sender, toReceiver, toSender, pos, received>>
      BY <1>5 DEF WriteFails, CloseFile, ReceiveFails, ReceiverStops, streams, file
    <2>2. QED
      BY <2>1 DEF Opening, Writing
  <1>6. ASSUME ForkAtReceiver PROVE Opening'
    BY <1>6, OpeningOf DEF ForkAtReceiver, streams, file
  <1>7. ASSUME WritePieces PROVE Opening'
    <2>1. /\ receiver = "write" /\ receiver' = "receive"
          /\ UNCHANGED <<sender, toReceiver, toSender, pos, received>>
      BY <1>7 DEF WritePieces, streams, file
    <2>2. QED
      BY <2>1 DEF Opening, Writing
  <1>8. QED
    BY <1>1, <1>2, <1>3, <1>4, <1>5, <1>6, <1>7 DEF Receiver

LEMMA OpeningStep == TypeOK /\ Opening /\ [Next]_vars => Opening'
  <1> SUFFICES ASSUME TypeOK, Opening, [Next]_vars PROVE Opening'
    OBVIOUS
  <1>1. CASE UNCHANGED vars
    BY <1>1, OpeningOf DEF vars, streams, file, output
  <1>2. QED
    BY <1>1, OpeningBySender, OpeningByReceiver DEF Next, Over

----------------------------------------------------------------------------
(* Hazards are not forgotten *)

LEMMA FaultsGrow == [Next]_vars => faults \subseteq faults'
  BY DEF Next, Sender, Receiver, SendReply, SendStatus, FileNotOpened, Confirmed, NotConfirmed,
         SendLine, SendChunk, SendComplete, SenderLeaves, ReceiveReply, ReceiveStatus, OpenFile,
         ReceivePieces, WritePieces, WriteFails, CloseFile, ReceiveFails, ReceiverStops, Flush,
         ForkAtSender, ForkAtReceiver, Over, vars, output

----------------------------------------------------------------------------
(* Stop and wait *)

\* With at most one item under way a recv takes all there is.
LEMMA TakesAll ==
  ASSUME TypeOK, Opening, Window, "junk" \notin faults, ReceivePieces
  PROVE  /\ Len(toReceiver) <= 1 /\ toReceiver' = <<>> /\ Took(toReceiver)
         /\ toReceiver = <<>> => SenderEnded
  <1>1. PICK got \in Reads(toReceiver) \cup
                       (IF SenderEnded /\ toReceiver = <<>> THEN {<<>>} ELSE {}) :
          Took(got)
    BY DEF ReceivePieces, Took
  <1>2. Len(toReceiver) + Len(toSender) <= 1
    BY DEF ReceivePieces, Window, Writing
  <1>3. Len(toReceiver) \in Nat /\ Len(toSender) \in Nat
    BY LenProperties DEF TypeOK
  <1>4. Len(toReceiver) <= 1
    BY <1>2, <1>3
  <1>5. CASE got \in Reads(toReceiver)
    <2>1. got = toReceiver /\ Rest(toReceiver, got) = <<>> /\ Len(toReceiver) = 1
      BY <1>4, <1>5, ReadsAll DEF TypeOK
    <2>2. toReceiver # <<>>
      BY <2>1, ShortStreams
    <2>3. QED
      BY <1>1, <1>4, <2>1, <2>2 DEF Took
  <1>6. CASE SenderEnded /\ toReceiver = <<>> /\ got = <<>>
    BY <1>1, <1>4, <1>6, RestOfNothing DEF Took
  <1>7. QED
    BY <1>1, <1>5, <1>6

\* What SendReply, SendStatus, ... do, as far as the dialogue can tell.
LEMMA SendsOne ==
  ASSUME TypeOK, Window, "junk" \notin faults, sender = "piece", NEW item, Sent(<<item>>)
  PROVE  toReceiver' = IF ReceiverEnded THEN <<>> ELSE <<item>>
  <1>1. toReceiver = <<>>
    BY DEF Window
  <1>2. <<>> \o <<item>> = <<item>>
    BY ShortStreams, Zenon
  <1>3. QED
    BY <1>1, <1>2 DEF Sent

LEMMA WindowInit == Init => Window
  BY DEF Init, Window, Writing, Ops

LEMMA WindowStep == TypeOK /\ Opening /\ Window /\ [Next]_vars => Window'
  <1> SUFFICES ASSUME TypeOK, Opening, Window, [Next]_vars, "junk" \notin faults'
               PROVE  Window'
    BY DEF Window
  <1>0. "junk" \notin faults
    BY FaultsGrow
  <1>a. /\ sender = "piece" => toReceiver = <<>> /\ toSender = <<>>
        /\ sender \in {"statusSent", "pieceSent"} =>
             Len(toSender) <= 1 /\ (toReceiver = <<>> \/ toSender = <<>>)
        /\ Writing => Len(toReceiver) + Len(toSender) <= 1
        /\ Writing /\ sender = "sent" => toReceiver = <<COMPLETE>>
    BY <1>0 DEF Window
  <1>b. Len(toReceiver) \in Nat /\ Len(toSender) \in Nat
        /\ (toReceiver = <<>> <=> Len(toReceiver) = 0)
        /\ (toSender = <<>> <=> Len(toSender) = 0)
    BY EmptyBySize DEF TypeOK
  <1>c. Len(<<>>) = 0
    BY ShortStreams
  <1>d. receiver \in {"path", "status"} \/ Writing \/ Past
    BY DEF TypeOK, ReceiverSteps, Writing, Past, ReceiverEnded
  <1>1. ASSUME SendReply \/ SendStatus \/ FileNotOpened PROVE Window'
    <2>1. /\ sender \in {"reply", "status"} /\ sender' \in {"status", "statusSent", "killed"}
          /\ UNCHANGED <<receiver, toSender>>
      BY <1>1 DEF SendReply, SendStatus, FileNotOpened
    <2>2. ~Writing'
      BY <2>1 DEF Opening, Writing
    <2>3. sender' = "statusSent" => sender = "status"
      BY <1>1 DEF SendReply, SendStatus, FileNotOpened
    <2>4. toSender = <<>>
      BY <2>1 DEF Opening
    <2>5. QED
      BY <2>1, <2>2, <2>3, <2>4, <1>a, <1>b, <1>c DEF Window
  <1>2. ASSUME Confirmed PROVE Window'
    <2>1. PICK got \in Reads(toSender) : toSender' = Rest(toSender, got)
      BY <1>2 DEF Confirmed
    <2>2. /\ sender \in {"statusSent", "pieceSent"} /\ sender' = "piece"
          /\ UNCHANGED <<receiver, toReceiver>>
      BY <1>2 DEF Confirmed
    <2>3. toSender' = <<>> /\ Len(toSender) = 1
      BY <2>1, <2>2, <1>a, ReadsAll DEF TypeOK
    <2>4. toReceiver = <<>>
      BY <2>2, <2>3, <1>a, <1>b
    <2>5. QED
      BY <2>2, <2>3, <2>4, <1>c DEF Window
  <1>3. ASSUME NotConfirmed \/ SenderLeaves PROVE Window'
    <2>1. sender' = "failed" /\ UNCHANGED <<receiver, toReceiver, toSender>>
      BY <1>3 DEF NotConfirmed, SenderLeaves, streams
    <2>2. QED
      BY <2>1, <1>a DEF Window, Writing
  <1>4. ASSUME NEW item, Sent(<<item>>), sender = "piece", UNCHANGED <<receiver, toSender>>,
               sender' = "pieceSent" \/ (sender' = "sent" /\ item = COMPLETE)
        PROVE  Window'
    <2>1. toReceiver' = (IF ReceiverEnded THEN <<>> ELSE <<item>>) /\ toSender' = <<>>
      BY <1>0, <1>4, <1>a, SendsOne
    <2>2. Len(<<item>>) = 1
      BY ShortStreams, Zenon
    <2>3. Len(toReceiver') \in {0, 1} /\ Len(toSender') = 0
      BY <2>1, <2>2, <1>c
    <2>4. Writing' => toReceiver' = <<item>>
      BY <2>1, <1>4 DEF Writing, ReceiverEnded
    <2>5. QED
      BY <1>4, <2>1, <2>3, <2>4 DEF Window
  <1>5. ASSUME SendLine PROVE Window'
    <2>1. /\ Sent(<<(IF pos < end THEN pos ELSE offset) + 1>>) /\ sender = "piece"
          /\ UNCHANGED <<receiver, toSender>> /\ sender' = "pieceSent"
      BY <1>5 DEF SendLine
    <2>2. QED
      BY <1>4, <2>1
  <1>6. ASSUME SendChunk PROVE Window'
    <2>1. /\ Sent(<<pos + 1>>) /\ sender = "piece"
          /\ UNCHANGED <<receiver, toSender>> /\ sender' = "pieceSent"
      BY <1>6 DEF SendChunk
    <2>2. QED
      BY <1>4, <2>1
  <1>7. ASSUME SendComplete PROVE Window'
    <2>1. /\ Sent(<<COMPLETE>>) /\ sender = "piece"
          /\ UNCHANGED <<receiver, toSender>> /\ sender' = "sent"
      BY <1>7 DEF SendComplete
    <2>2. QED
      BY <1>4, <2>1
  <1>8. ASSUME ReceiveReply PROVE Window'
    <2>1. /\ receiver = "path" /\ receiver' \in {"status", "failed"}
          /\ UNCHANGED <<sender, toSender>>
      BY <1>8 DEF ReceiveReply
    <2>2. sender \notin {"piece", "pieceSent", "sent"} /\ toSender = <<>>
      BY <2>1 DEF Opening
    <2>3. QED
      BY <2>1, <2>2, <1>c DEF Window, Writing
  <1>9. ASSUME ReceiveStatus PROVE Window'
    <2>1. PICK got \in Reads(toReceiver) :
            /\ toReceiver' = Rest(toReceiver, got)
            /\ IF got = <<VALID>>
                 THEN receiver' = "open" /\ toSender' = Append(toSender, VALID)
                 ELSE receiver' = "failed" /\ UNCHANGED toSender
      BY <1>9 DEF ReceiveStatus
    <2>2. receiver = "status" /\ UNCHANGED sender
      BY <1>9 DEF ReceiveStatus
    <2>3. toSender = <<>> /\ sender \notin {"piece", "pieceSent", "sent"}
          /\ toReceiver \in {<<VALID>>, <<ERROR>>}
      BY <2>1, <2>2, ShortStreams DEF Opening
    <2>4. Len(<<VALID>>) = 1 /\ Len(<<ERROR>>) = 1
      BY ShortStreams, Zenon
    <2>5. Len(toReceiver) = 1
      BY <2>3, <2>4, Zenon
    <2>6. toReceiver' = <<>>
      <3>1. Len(toReceiver) <= 1
        BY <2>5
      <3>2. QED
        BY <2>1, <3>1, ReadsAll DEF TypeOK
    <2>7. Len(toSender') \in {0, 1}
      BY <2>1, <2>3, ConfirmTyped, <1>c
    <2>8. Len(toReceiver') = 0
      BY <2>6, <1>c
    <2>9. Len(toReceiver') + Len(toSender') <= 1 /\ Len(toSender') <= 1
      BY <2>7, <2>8
    <2>10. QED
      BY <2>2, <2>3, <2>6, <2>9 DEF Window
  <1>10. ASSUME OpenFile PROVE Window'
    <2>1. /\ receiver = "open" /\ receiver' \in {"receive", "failed"}
          /\ UNCHANGED <<sender, toSender, toReceiver>>
      BY <1>10 DEF OpenFile, streams
    <2>2. QED
      BY <2>1, <1>a DEF Window, Writing
  <1>11. ASSUME ReceivePieces PROVE Window'
    <2>1. /\ Len(toReceiver) <= 1 /\ toReceiver' = <<>> /\ Took(toReceiver)
          /\ toReceiver = <<>> => SenderEnded
      BY <1>0, <1>11, TakesAll
    <2>2. receiver = "receive" /\ UNCHANGED sender /\ Writing
      BY <1>11 DEF ReceivePieces, Writing
    <2>3. sender # "piece"
      BY <2>1, <1>a DEF SenderEnded
    <2>4. Len(toSender') <= 1
      <3>1. CASE SenderEnded
        <4>1. toSender' = toSender
          BY <2>1, <3>1 DEF Took
        <4>2. Len(toSender) <= 1
          BY <2>2, <1>a, <1>b
        <4>3. QED
          BY <4>1, <4>2
      <3>2. CASE ~SenderEnded
        <4>1. toSender' = Append(toSender, VALID)
          BY <2>1, <3>2 DEF Took
        <4>2. Len(toReceiver) # 0
          BY <2>1, <3>2, <1>b
        <4>3. QED
          BY <4>1, <4>2, <2>2, <1>a, <1>b, ConfirmTyped
      <3>3. QED
        BY <3>1, <3>2
    <2>5. sender = "sent" => ~Writing'
      <3>1. SUFFICES ASSUME sender = "sent" PROVE ~Writing'
        OBVIOUS
      <3>2. toReceiver = <<COMPLETE>>
        BY <2>2, <3>1, <1>a
      <3>3. {i \in DOMAIN toReceiver : IsEnd(toReceiver[i])} # {}
        <4>1. 1 \in DOMAIN toReceiver /\ toReceiver[1] = COMPLETE
          BY <3>2
        <4>2. QED
          BY <4>1 DEF IsEnd
      <3>4. receiver' \in {"killed", "close"}
        BY <2>1, <3>3 DEF Took
      <3>5. QED
        BY <3>4 DEF Writing
    <2>6. Len(toSender') \in Nat
      BY TypeStep, EmptyBySize DEF TypeOK
    <2>7. QED
      BY <2>1, <2>2, <2>3, <2>4, <2>5, <2>6, <1>c DEF Window
  <1>12. ASSUME WritePieces \/ WriteFails \/ CloseFile \/ ReceiveFails \/ ReceiverStops
         PROVE  Window'
    <2>1. /\ UNCHANGED <<sender, toSender, toReceiver>>
          /\ Writing' => Writing
      BY <1>12 DEF WritePieces, WriteFails, CloseFile, ReceiveFails, ReceiverStops, Writing, streams
    <2>2. QED
      BY <2>1, <1>a DEF Window
  <1>13. ASSUME ForkAtSender \/ ForkAtReceiver \/ UNCHANGED vars PROVE Window'
    <2>1. UNCHANGED <<sender, receiver, toSender, toReceiver>>
      BY <1>13 DEF ForkAtSender, ForkAtReceiver, vars, streams
    <2>2. QED
      BY <2>1, <1>a DEF Window, Writing
  <1>14. QED
    BY <1>1, <1>2, <1>3, <1>5, <1>6, <1>7, <1>8, <1>9, <1>10, <1>11, <1>12, <1>13
       DEF Next, Sender, Receiver, Over

----------------------------------------------------------------------------
(* The file being read *)

LEMMA BufferingInit == Init => Buffering
  BY DEF Init, Buffering, Uploads, Ops

LEMMA BufferingStep == TypeOK /\ Buffering /\ [Next]_vars => Buffering'
  <1> SUFFICES ASSUME TypeOK, Buffering, [Next]_vars PROVE Buffering'
    OBVIOUS
  <1>0. /\ size \in Nat /\ offset \in 0..size /\ end \in 0..size /\ pos \in 0..end
        /\ Block \in Nat \ {0} /\ faults \subseteq faults' /\ UNCHANGED <<op, size>>
    <2>1. UNCHANGED <<op, size>>
      BY DEF Next, Sender, Receiver, SendReply, SendStatus, FileNotOpened, Confirmed, NotConfirmed,
             SendLine, SendChunk, SendComplete, SenderLeaves, ReceiveReply, ReceiveStatus,
             OpenFile, ReceivePieces, WritePieces, WriteFails, CloseFile, ReceiveFails,
             ReceiverStops, ForkAtSender, ForkAtReceiver, Over, vars, request
    <2>2. QED
      BY <2>1, BoundsAssumption, FaultsGrow DEF TypeOK
  <1>1. ASSUME UNCHANGED file, sender' = sender \/ sender' # "sent" PROVE Buffering'
    BY <1>0, <1>1 DEF Buffering, Uploads, file
  <1>2. ASSUME SendReply \/ SendStatus \/ FileNotOpened \/ Confirmed \/ NotConfirmed \/ SenderLeaves
        PROVE  Buffering'
    BY <1>1, <1>2 DEF SendReply, SendStatus, FileNotOpened, Confirmed, NotConfirmed, SenderLeaves
  <1>3. ASSUME SendLine PROVE Buffering'
    <2> DEFINE from   == IF pos < end THEN pos ELSE offset
               filled == IF pos < end THEN end
                         ELSE IF offset + Block < size THEN offset + Block ELSE size
               off    == IF pos < end THEN offset ELSE filled
    <2>1. /\ Uploads /\ end' = filled /\ sender' = "pieceSent"
          /\ offset' = AfterChild(off, filled - (from + 1))
          /\ faults' = IF offset' # off THEN faults \cup {"rewound"} ELSE faults
      BY <1>3 DEF SendLine
    <2>2. pos < end \/ offset < size
      BY <1>3 DEF SendLine
    <2>3. filled \in Nat /\ off \in 0..filled /\ filled - (from + 1) \in Nat
      BY <1>0, <2>1, <2>2 DEF Buffering
    <2>4. "rewound" \notin faults => off = filled
      BY <1>0, <2>1 DEF Buffering
    <2> HIDE DEF from, filled, off
    <2>5. offset' \in 0..off
      BY <2>1, <2>3, AfterChildBound
    <2>6. offset' <= end'
      BY <2>1, <2>3, <2>5
    <2>7. "rewound" \notin faults' => offset' = end'
      BY <2>1, <2>4
    <2>8. QED
      BY <1>0, <2>1, <2>6, <2>7 DEF Buffering, Uploads
  <1>4. ASSUME SendChunk PROVE Buffering'
    BY <1>0, <1>4 DEF SendChunk, Buffering, Uploads
  <1>5. ASSUME SendComplete PROVE Buffering'
    BY <1>0, <1>5 DEF SendComplete, Buffering, Uploads, file
  <1>6. ASSUME ForkAtSender PROVE Buffering'
    <2>1. end - pos \in Nat
      BY <1>0
    <2>2. offset' \in 0..offset
      BY <1>0, <1>6, <2>1, AfterChildBound DEF ForkAtSender
    <2>3. offset' <= end
      BY <1>0, <1>6, <2>2 DEF ForkAtSender, Buffering
    <2>4. "rewound" \notin faults' => offset' = offset
      BY <1>6 DEF ForkAtSender
    <2>5. sender' # "sent"
      BY <1>6 DEF ForkAtSender, SenderEnded
    <2>6. UNCHANGED end
      BY <1>6 DEF ForkAtSender
    <2>7. QED
      BY <1>0, <2>3, <2>4, <2>5, <2>6 DEF Buffering, Uploads
  <1>7. ASSUME Receiver \/ ForkAtReceiver \/ ReceiverStops \/ UNCHANGED vars
        PROVE  Buffering'
    <2>1. UNCHANGED <<file, sender>>
      BY <1>7 DEF Receiver, ReceiveReply, ReceiveStatus, OpenFile, ReceivePieces, WritePieces,
                  WriteFails, CloseFile, ReceiveFails, ReceiverStops, ForkAtReceiver, vars
    <2>2. QED
      BY <1>1, <2>1
  <1>8. QED
    BY <1>2, <1>3, <1>4, <1>5, <1>6, <1>7 DEF Next, Sender, Over

----------------------------------------------------------------------------
(* What is written *)

\* Three facts about first parts.
LEMMA BeginsSelf ==
  ASSUME NEW S, NEW s \in Seq(S)
  PROVE  Begins(s, s)
  <1>1. Len(s) \in Nat
    BY LenProperties
  <1>2. QED
    BY <1>1 DEF Begins

LEMMA BeginsTrans ==
  ASSUME NEW S, NEW r \in Seq(S), NEW s \in Seq(S), NEW t \in Seq(S), Begins(r, s), Begins(s, t)
  PROVE  Begins(r, t)
  <1>1. PICK a \in Nat, b \in Nat, c \in Nat : a = Len(r) /\ b = Len(s) /\ c = Len(t)
    BY LenProperties
  <1>2. a <= b /\ b <= c
    BY <1>1 DEF Begins
  <1>3. ASSUME NEW i \in 1..a PROVE r[i] = t[i]
    <2>1. i \in 1..b
      BY <1>2
    <2>2. r[i] = s[i] /\ s[i] = t[i]
      BY <1>1, <2>1 DEF Begins
    <2>3. QED
      BY <2>2
  <1>4. a <= c
    BY <1>2
  <1>5. QED
    BY <1>1, <1>3, <1>4 DEF Begins

LEMMA BeginsConcat ==
  ASSUME NEW S, NEW s \in Seq(S), NEW t \in Seq(S)
  PROVE  Begins(s, s \o t)
  <1>1. PICK a \in Nat, b \in Nat : a = Len(s) /\ b = Len(t)
    BY LenProperties
  <1>2. Len(s \o t) = a + b /\ \A i \in 1..a + b : (s \o t)[i] = IF i <= a THEN s[i] ELSE t[i - a]
    BY <1>1, ConcatProperties
  <1>3. ASSUME NEW i \in 1..a PROVE s[i] = (s \o t)[i]
    <2>1. i \in 1..a + b /\ i <= a
      OBVIOUS
    <2>2. QED
      BY <1>2, <2>1
  <1>4. a <= a + b
    OBVIOUS
  <1>5. QED
    BY <1>1, <1>2, <1>3, <1>4 DEF Begins

\* The first part of what is added.
LEMMA BeginsPart ==
  ASSUME NEW S, NEW s \in Seq(S), NEW t \in Seq(S), NEW n \in 0..Len(t)
  PROVE  s \o SubSeq(t, 1, n) \in Seq(S) /\ Begins(s \o SubSeq(t, 1, n), s \o t)
  <1>1. PICK a \in Nat, b \in Nat : a = Len(s) /\ b = Len(t)
    BY LenProperties
  <1>2. PICK u \in Seq(S) : u = SubSeq(t, 1, n)
    BY PartIs
  <1>3. Len(u) = n /\ n \in 0..b /\ \A i \in 1..n : u[i] = t[i]
    BY <1>1, <1>2, PartIs
  <1>4. Len(s \o t) = a + b /\ \A i \in 1..a + b : (s \o t)[i] = IF i <= a THEN s[i] ELSE t[i - a]
    BY <1>1, ConcatProperties
  <1>5. /\ s \o u \in Seq(S) /\ Len(s \o u) = a + n
        /\ \A i \in 1..a + n : (s \o u)[i] = IF i <= a THEN s[i] ELSE u[i - a]
    BY <1>1, <1>3, ConcatProperties
  <1>6. a + n <= a + b
    BY <1>3
  <1>7. ASSUME NEW i \in 1..a + n PROVE (s \o u)[i] = (s \o t)[i]
    <2>1. i \in 1..a + b
      BY <1>3
    <2>2. CASE i <= a
      BY <2>1, <2>2, <1>4, <1>5
    <2>3. CASE ~(i <= a)
      <3>1. i - a \in 1..n
        BY <2>3, <1>3
      <3>2. (s \o u)[i] = u[i - a] /\ (s \o t)[i] = t[i - a]
        BY <2>1, <2>3, <1>4, <1>5
      <3>3. QED
        BY <3>1, <3>2, <1>3
    <2>4. QED
      BY <2>2, <2>3
  <1>8. Begins(s \o u, s \o t)
    BY <1>4, <1>5, <1>6, <1>7 DEF Begins
  <1>9. QED
    BY <1>2, <1>5, <1>8

LEMMA OutputAssociates ==
  ASSUME TypeOK, NEW items \in Seq(Pieces \cup {Junk})
  PROVE  (disk \o buffered) \o items = disk \o (buffered \o items)
  BY ConcatAssociative, SMTT(60) DEF TypeOK

\* fprintf adds to what the disk and the buffer hold.
LEMMA WriteStores ==
  ASSUME TypeOK, NEW items \in Seq(Pieces \cup {Junk}), Write(items)
  PROVE  disk' \o buffered' = (disk \o buffered) \o items /\ written' = written \o items
  BY OutputAssociates DEF Write

\* When the rest of the buffer is written out all of it is on the disk, or its first part.
LEMMA FlushStores ==
  ASSUME TypeOK, Flush
  PROVE  /\ buffered' = <<>> /\ disk' \o buffered' = disk'
         /\ "unwritable" \notin faults' => disk' = disk \o buffered
         /\ Begins(disk', disk \o buffered)
         /\ faults' \subseteq faults \cup {"unwritable"}
  <1> DEFINE S == Pieces \cup {Junk}
  <1>1. disk \in Seq(S) /\ buffered \in Seq(S) /\ Len(buffered) \in Nat
    BY LenProperties DEF TypeOK
  <1>2. disk \o buffered \in Seq(S)
    BY <1>1, ConcatProperties
  <1> HIDE DEF S
  <1>3. CASE disk' = disk \o buffered /\ UNCHANGED faults
    <2>1. Begins(disk', disk \o buffered)
      BY <1>2, <1>3, BeginsSelf
    <2>2. disk' \o <<>> = disk'
      BY <1>2, <1>3, ConcatEmptySeq
    <2>3. QED
      BY <1>3, <2>1, <2>2 DEF Flush
  <1>4. CASE \E n \in 0..Len(buffered) - 1 :
               /\ disk' = disk \o SubSeq(buffered, 1, n)
               /\ faults' = faults \cup {"unwritable"}
    <2>1. PICK n \in 0..Len(buffered) - 1 : disk' = disk \o SubSeq(buffered, 1, n)
      BY <1>4
    <2>2. n \in 0..Len(buffered)
      BY <1>1
    <2>3. disk' \in Seq(S) /\ Begins(disk', disk \o buffered)
      BY <1>1, <2>1, <2>2, BeginsPart
    <2>4. disk' \o <<>> = disk'
      BY <2>3, ConcatEmptySeq
    <2>5. QED
      BY <1>4, <2>3, <2>4 DEF Flush
  <1>5. QED
    BY <1>3, <1>4 DEF Flush

LEMMA StoredInit == Init => Stored
  <1> SUFFICES ASSUME Init PROVE Stored
    OBVIOUS
  <1>1. /\ <<>> \in Seq({Junk}) /\ buffered = <<>> /\ disk = <<>> /\ written = <<>>
        /\ chunk = <<>> /\ faults = {} /\ receiver \in {"path", "status"}
    BY EmptySeq DEF Init
  <1>2. disk \o buffered = written
    BY <1>1, ConcatEmptySeq
  <1>3. Begins(disk \o buffered, written)
    BY <1>1, <1>2, BeginsSelf
  <1>4. QED
    BY <1>1, <1>2, <1>3 DEF Stored

LEMMA StoredStep == TypeOK /\ Opening /\ Stored /\ [Next]_vars => Stored'
  <1> SUFFICES ASSUME TypeOK, Opening, Stored, [Next]_vars PROVE Stored'
    OBVIOUS
  <1> DEFINE S == Pieces \cup {Junk}
  <1>0. faults \subseteq faults'
    BY FaultsGrow
  <1>t. /\ disk \in Seq(S) /\ buffered \in Seq(S) /\ written \in Seq(S) /\ chunk \in Seq(S)
        /\ disk \o buffered \in Seq(S) /\ disk \o <<>> = disk
        /\ disk' \in Seq(S) /\ buffered' \in Seq(S) /\ disk' \o buffered' \in Seq(S)
        /\ disk' \o <<>> = disk'
    <2>1. TypeOK'
      BY TypeStep
    <2>2. QED
      BY <2>1, ConcatProperties, ConcatEmptySeq DEF TypeOK
  <1> HIDE DEF S
  <1>1. ASSUME UNCHANGED <<receiver, output>>,
               faults' \subseteq faults \cup {"hungUp", "rewound", "junk"}
        PROVE  Stored'
    BY <1>0, <1>1 DEF Stored, output, ReceiverEnded
  <1>2. ASSUME Sender \/ SenderLeaves \/ ForkAtSender \/ UNCHANGED vars PROVE Stored'
    <2>1. /\ UNCHANGED <<receiver, output>>
          /\ faults' \subseteq faults \cup {"hungUp", "rewound", "junk"}
      BY <1>2 DEF Sender, SendReply, SendStatus, FileNotOpened, Confirmed, NotConfirmed, SendLine,
                  SendChunk, SendComplete, SenderLeaves, ForkAtSender, vars
    <2>2. QED
      BY <1>1, <2>1
  <1>3. ASSUME ReceiveReply \/ ReceiveStatus \/ OpenFile PROVE Stored'
    <2>1. /\ UNCHANGED output /\ receiver \in {"path", "status", "open"}
          /\ receiver' \in {"status", "open", "receive", "failed"}
          /\ faults' \subseteq faults \cup {"unwritable"}
          /\ "unwritable" \in faults' => "unwritable" \in faults \/ receiver' = "failed"
      BY <1>3 DEF ReceiveReply, ReceiveStatus, OpenFile
    <2>2. faults \cap {"unwritable", "stopped"} = {}
      BY <2>1 DEF Stored, ReceiverEnded
    <2>3. QED
      BY <1>0, <2>1, <2>2 DEF Stored, output, ReceiverEnded
  <1>4. ASSUME ReceivePieces PROVE Stored'
    <2>1. PICK got \in Reads(toReceiver) \cup
                         (IF SenderEnded /\ toReceiver = <<>> THEN {<<>>} ELSE {}) : Took(got)
      BY <1>4 DEF ReceivePieces, Took
    <2>2. /\ receiver = "receive" /\ UNCHANGED <<disk, written>>
          /\ faults' \subseteq faults \cup {"marker", "glued"}
      BY <1>4, <2>1, TookCases
    <2>3. chunk = <<>> /\ faults \cap {"unwritable", "stopped"} = {}
      BY <2>2 DEF Stored, ReceiverEnded
    <2>4. CASE SenderEnded /\ reset
      <3>1. receiver' = "killed" /\ buffered' = <<>> /\ UNCHANGED <<chunk, faults>>
        BY <1>4, <2>1, <2>4, TookCases
      <3>2. "flushedTwice" \notin faults' => Begins(disk' \o buffered', written')
        <4>1. SUFFICES ASSUME "flushedTwice" \notin faults
                       PROVE  Begins(disk' \o buffered', written')
          BY <3>1
        <4>2. Begins(disk \o buffered, written) /\ Begins(disk, disk \o buffered)
          BY <4>1, <1>t, BeginsConcat DEF Stored
        <4>3. Begins(disk, written)
          BY <4>2, <1>t, BeginsTrans
        <4>4. QED
          BY <4>3, <3>1, <2>2, <1>t
      <3>3. QED
        BY <2>2, <2>3, <3>1, <3>2 DEF Stored
    <2>5. CASE ~(SenderEnded /\ reset)
      <3>1. TookChunk(got) \/ TookEnd
        BY <1>4, <2>1, <2>5, TookCases
      <3>2. receiver' \in {"write", "close"} /\ UNCHANGED buffered
            /\ (receiver' = "close" => UNCHANGED chunk)
        BY <3>1 DEF TookChunk, TookEnd
      <3>3. QED
        BY <1>0, <2>2, <2>3, <3>2 DEF Stored
    <2>6. QED
      BY <2>4, <2>5
  <1>5. ASSUME WritePieces PROVE Stored'
    <2>1. /\ receiver = "write" /\ receiver' = "receive" /\ chunk' = <<>>
          /\ faults' \subseteq faults \cup {"overrun"}
          /\ Write(chunk) \/ Write(Append(chunk, Junk))
      BY <1>5 DEF WritePieces
    <2>2. PICK items \in Seq(S) : Write(items)
      <3>1. Append(chunk, Junk) \in Seq(S)
        BY <1>t, AppendProperties DEF S
      <3>2. QED
        BY <3>1, <2>1, <1>t
    <2>3. disk' \o buffered' = (disk \o buffered) \o items /\ written' = written \o items
      BY <2>2, WriteStores DEF S
    <2>4. faults \cap {"unwritable", "stopped"} = {} /\ faults' \cap {"unwritable", "stopped"} = {}
      BY <2>1 DEF Stored, ReceiverEnded
    <2>5. "flushedTwice" \notin faults' => disk' \o buffered' = written'
      <3>1. SUFFICES ASSUME "flushedTwice" \notin faults PROVE disk' \o buffered' = written'
        BY <1>0
      <3>2. disk \o buffered = written
        BY <3>1, <2>1, <2>4 DEF Stored
      <3>3. QED
        BY <3>2, <2>3
    <2>6. Begins(disk' \o buffered', disk' \o buffered')
      BY <1>t, BeginsSelf
    <2>7. QED
      BY <2>1, <2>4, <2>5, <2>6 DEF Stored
  <1>6. ASSUME WriteFails PROVE Stored'
    <2>1. PICK n \in 0..Len(buffered) : disk' = disk \o SubSeq(buffered, 1, n)
      BY <1>6 DEF WriteFails
    <2>2. /\ receiver' = "failed" /\ chunk' = <<>> /\ buffered' = <<>> /\ UNCHANGED written
          /\ faults' = faults \cup {"unwritable"}
      BY <1>6 DEF WriteFails
    <2>3. "flushedTwice" \notin faults' => Begins(disk' \o buffered', written')
      <3>1. SUFFICES ASSUME "flushedTwice" \notin faults PROVE Begins(disk' \o buffered', written')
        BY <1>0
      <3>2. Begins(disk \o buffered, written) /\ Begins(disk', disk \o buffered)
        BY <3>1, <2>1, <1>t, BeginsPart DEF Stored
      <3>3. Begins(disk', written)
        BY <3>2, <1>t, BeginsTrans
      <3>4. QED
        BY <3>3, <2>2, <1>t
    <2>4. QED
      BY <2>2, <2>3 DEF Stored, ReceiverEnded
  <1>7. ASSUME CloseFile \/ ReceiveFails PROVE Stored'
    <2>1. /\ Flush /\ UNCHANGED <<chunk, written>> /\ receiver' \in {"complete", "failed"}
          /\ receiver \in {"close", "path", "status", "receive"}
      BY <1>7 DEF CloseFile, ReceiveFails
    <2>2. /\ buffered' = <<>> /\ disk' \o buffered' = disk'
          /\ "unwritable" \notin faults' => disk' = disk \o buffered
          /\ Begins(disk', disk \o buffered)
          /\ faults' \subseteq faults \cup {"unwritable"}
      BY <2>1, FlushStores
    <2>3. chunk' = <<>>
      BY <2>1 DEF Stored
    <2>4. "flushedTwice" \notin faults' => Begins(disk' \o buffered', written')
      <3>1. SUFFICES ASSUME "flushedTwice" \notin faults PROVE Begins(disk' \o buffered', written')
        BY <1>0
      <3>2. Begins(disk \o buffered, written)
        BY <3>1 DEF Stored
      <3>3. Begins(disk', written)
        BY <3>2, <2>2, <1>t, BeginsTrans
      <3>4. QED
        BY <3>3, <2>1, <2>2
    <2>5. faults' \cap {"flushedTwice", "unwritable", "stopped"} = {} =>
            disk' \o buffered' = written'
      <3>1. SUFFICES ASSUME faults' \cap {"flushedTwice", "unwritable", "stopped"} = {}
                     PROVE  disk' \o buffered' = written'
        OBVIOUS
      <3>2. disk \o buffered = written
        BY <3>1, <1>0, <2>1 DEF Stored
      <3>3. QED
        BY <3>1, <3>2, <2>1, <2>2
    <2>6. QED
      BY <2>1, <2>2, <2>3, <2>4, <2>5 DEF Stored, ReceiverEnded
  <1>8. ASSUME ReceiverStops PROVE Stored'
    <2>1. /\ receiver' = "stopped" /\ chunk' = <<>> /\ buffered' = <<>>
          /\ UNCHANGED <<disk, written>>
          /\ faults' = faults \cup {"stopped"}
      BY <1>8 DEF ReceiverStops
    <2>2. "flushedTwice" \notin faults' => Begins(disk' \o buffered', written')
      <3>1. SUFFICES ASSUME "flushedTwice" \notin faults PROVE Begins(disk' \o buffered', written')
        BY <1>0
      <3>2. Begins(disk \o buffered, written) /\ Begins(disk, disk \o buffered)
        BY <3>1, <1>t, BeginsConcat DEF Stored
      <3>3. Begins(disk, written)
        BY <3>2, <1>t, BeginsTrans
      <3>4. QED
        BY <3>3, <2>1, <1>t
    <2>3. QED
      BY <2>1, <2>2 DEF Stored, ReceiverEnded
  <1>9. ASSUME ForkAtReceiver PROVE Stored'
    <2>1. /\ receiver \in {"receive", "write", "close"}
          /\ UNCHANGED <<receiver, chunk, buffered, written>>
          /\ disk' = disk \o buffered /\ faults' \subseteq faults \cup {"flushedTwice"}
          /\ "flushedTwice" \notin faults' => buffered = <<>>
      BY <1>9 DEF ForkAtReceiver
    <2>2. "flushedTwice" \notin faults' => disk' = disk
      BY <2>1, <1>t
    <2>3. QED
      BY <1>0, <2>1, <2>2 DEF Stored, ReceiverEnded
  <1>10. QED
    BY <1>2, <1>3, <1>4, <1>5, <1>6, <1>7, <1>8, <1>9 DEF Next, Receiver, Over

----------------------------------------------------------------------------
(* What was confirmed and what is written *)

LEMMA CarriedInit == Init => Carried
  <1> SUFFICES ASSUME Init PROVE Carried
    OBVIOUS
  <1>1. /\ <<>> \in Seq({Junk}) /\ written = <<>> /\ received = <<>> /\ chunk = <<>>
        /\ receiver \in {"path", "status"}
    BY EmptySeq DEF Init
  <1>2. written \o chunk = received
    BY <1>1, ConcatEmptySeq
  <1>3. Begins(written \o chunk, received)
    BY <1>1, <1>2, BeginsSelf
  <1>4. QED
    BY <1>1, <1>2, <1>3 DEF Carried

LEMMA CarriedStep == TypeOK /\ Opening /\ Stored /\ Carried /\ [Next]_vars => Carried'
  <1> SUFFICES ASSUME TypeOK, Opening, Stored, Carried, [Next]_vars, "overrun" \notin faults'
               PROVE  Carried'
    BY DEF Carried
  <1> DEFINE S == Pieces \cup {Junk}
  <1>0. faults \subseteq faults' /\ "overrun" \notin faults
    BY FaultsGrow
  <1>t. /\ written \in Seq(S) /\ chunk \in Seq(S) /\ received \in Seq(S)
        /\ written \o <<>> = written /\ received' \in Seq(S) /\ written' \in Seq(S)
        /\ written \o chunk \in Seq(S)
    <2>1. TypeOK'
      BY TypeStep
    <2>2. QED
      BY <2>1, ConcatProperties, ConcatEmptySeq DEF TypeOK
  <1>h. /\ Begins(written \o chunk, received)
        /\ receiver = "write" => received = written \o chunk
        /\ receiver \notin {"write", "stopped"} /\ "unwritable" \notin faults =>
             received = written
    BY <1>0 DEF Carried
  <1> HIDE DEF S
  <1>1. ASSUME UNCHANGED <<chunk, received, written>>, receiver' # "write",
               receiver' = "stopped" \/ receiver \notin {"write", "stopped"}
        PROVE  Carried'
    BY <1>0, <1>1, <1>h DEF Carried
  <1>2. ASSUME Sender \/ SenderLeaves \/ ForkAtSender \/ ForkAtReceiver \/ UNCHANGED vars
        PROVE  Carried'
    <2>1. UNCHANGED <<receiver, chunk, received, written>>
      BY <1>2 DEF Sender, SendReply, SendStatus, FileNotOpened, Confirmed, NotConfirmed, SendLine,
                  SendChunk, SendComplete, SenderLeaves, ForkAtSender, ForkAtReceiver, vars, output
    <2>2. QED
      BY <1>0, <1>h, <2>1 DEF Carried
  <1>3. ASSUME ReceiveReply \/ ReceiveStatus \/ OpenFile \/ CloseFile \/ ReceiveFails
        PROVE  Carried'
    <2>1. /\ UNCHANGED <<chunk, received, written>> /\ receiver' # "write"
          /\ receiver \notin {"write", "stopped"}
      BY <1>3 DEF ReceiveReply, ReceiveStatus, OpenFile, CloseFile, ReceiveFails, output
    <2>2. QED
      BY <1>1, <2>1
  <1>4. ASSUME ReceivePieces PROVE Carried'
    <2>1. PICK got \in Reads(toReceiver) \cup
                         (IF SenderEnded /\ toReceiver = <<>> THEN {<<>>} ELSE {}) : Took(got)
      BY <1>4 DEF ReceivePieces, Took
    <2>2. receiver = "receive" /\ UNCHANGED written
      BY <1>4, <2>1, TookCases
    <2>3. received = written
      BY <2>2, <1>h DEF Stored, ReceiverEnded
    <2>4. CASE SenderEnded /\ reset
      <3>1. receiver' = "killed" /\ UNCHANGED <<chunk, received>>
        BY <1>4, <2>1, <2>4, TookCases
      <3>2. QED
        BY <1>1, <2>2, <3>1
    <2>5. CASE ~(SenderEnded /\ reset) /\ TookEnd
      BY <1>1, <2>2, <2>5 DEF TookEnd
    <2>6. CASE ~(SenderEnded /\ reset) /\ TookChunk(got)
      <3>1. receiver' = "write" /\ chunk' = got /\ received' = received \o got
        BY <2>6 DEF TookChunk
      <3>2. received' = written' \o chunk'
        BY <2>2, <2>3, <3>1
      <3>3. Begins(received', received')
        BY <1>t, BeginsSelf
      <3>4. QED
        BY <3>1, <3>2, <3>3 DEF Carried
    <2>7. QED
      BY <1>4, <2>1, <2>4, <2>5, <2>6, TookCases
  <1>5. ASSUME WritePieces PROVE Carried'
    <2>1. /\ receiver = "write" /\ receiver' = "receive" /\ chunk' = <<>> /\ UNCHANGED received
          /\ Write(chunk)
      BY <1>5 DEF WritePieces
    <2>2. written' = written \o chunk
      BY <2>1 DEF Write
    <2>3. received = written \o chunk
      BY <2>1, <1>h
    <2>4. written' = received'
      BY <2>1, <2>2, <2>3
    <2>5. written' \o chunk' = received'
      BY <1>t, <2>1, <2>4, ConcatEmptySeq
    <2>6. Begins(received', received')
      BY <1>t, BeginsSelf
    <2>7. QED
      BY <2>1, <2>4, <2>5, <2>6 DEF Carried
  <1>6. ASSUME WriteFails \/ ReceiverStops PROVE Carried'
    <2>1. /\ receiver' \in {"failed", "stopped"} /\ chunk' = <<>> /\ UNCHANGED <<received, written>>
          /\ receiver' = "failed" => "unwritable" \in faults'
      BY <1>6 DEF WriteFails, ReceiverStops
    <2>2. Begins(written, received)
      <3>1. Begins(written, written \o chunk)
        BY <1>t, BeginsConcat
      <3>2. QED
        BY <3>1, <1>h, <1>t, BeginsTrans
    <2>3. written' \o chunk' = written
      BY <1>t, <2>1
    <2>4. QED
      BY <2>1, <2>2, <2>3 DEF Carried
  <1>7. QED
    BY <1>2, <1>3, <1>4, <1>5, <1>6 DEF Next, Receiver, Over

----------------------------------------------------------------------------
(* Who has gone *)

LEMMA GoneInit == Init => Gone /\ KilledByLeaver
  BY DEF Init, Gone, KilledByLeaver, SenderEnded

LEMMA GoneStep ==
  TypeOK /\ Opening /\ Window /\ Gone /\ KilledByLeaver /\ [Next]_vars => Gone' /\ KilledByLeaver'
  <1> SUFFICES ASSUME TypeOK, Opening, Window, Gone, KilledByLeaver, [Next]_vars
               PROVE  Gone' /\ KilledByLeaver'
    OBVIOUS
  <1>0. faults \subseteq faults'
    BY FaultsGrow
  <1>1. ASSUME SendReply \/ SendStatus \/ FileNotOpened \/ Confirmed \/ SendLine \/ SendComplete
        PROVE  Gone' /\ KilledByLeaver'
    <2>1. /\ ~SenderEnded /\ sender' # "failed" /\ UNCHANGED <<reset, receiver>>
          /\ faults' \subseteq faults \cup {"rewound"}
      BY <1>1 DEF SendReply, SendStatus, FileNotOpened, Confirmed, SendLine, SendComplete,
                  SenderEnded
    <2>2. QED
      BY <1>0, <2>1 DEF Gone, KilledByLeaver, SenderEnded, Writing
  <1>2. ASSUME SendChunk PROVE Gone' /\ KilledByLeaver'
    <2>1. /\ ~SenderEnded /\ sender' # "failed" /\ UNCHANGED <<reset, receiver>>
          /\ faults' \subseteq faults \cup {"junk"}
      BY <1>2 DEF SendChunk, SenderEnded
    <2>2. QED
      BY <1>0, <2>1 DEF Gone, KilledByLeaver, SenderEnded, Writing
  <1>3. ASSUME NotConfirmed \/ SenderLeaves PROVE Gone' /\ KilledByLeaver'
    <2>1. /\ sender' = "failed" /\ "hungUp" \in faults' /\ UNCHANGED <<reset, receiver>>
      BY <1>3 DEF NotConfirmed, SenderLeaves
    <2>2. QED
      BY <2>1 DEF Gone, KilledByLeaver, SenderEnded
  <1>4. ASSUME ReceiveReply \/ OpenFile \/ WritePieces \/ WriteFails \/ CloseFile \/ ReceiveFails
               \/ ReceiverStops \/ ForkAtSender \/ ForkAtReceiver \/ UNCHANGED vars
        PROVE  Gone' /\ KilledByLeaver'
    <2>1. /\ UNCHANGED <<reset, sender>>
          /\ faults' \subseteq faults \cup {"unwritable", "overrun", "stopped", "rewound",
                                         "flushedTwice"}
      BY <1>4 DEF ReceiveReply, OpenFile, WritePieces, WriteFails, CloseFile, ReceiveFails,
                  ReceiverStops, Flush, ForkAtSender, ForkAtReceiver, vars
    <2>2. /\ receiver' = "killed" => receiver = "killed"
          /\ Writing' => Writing
      BY <1>4 DEF ReceiveReply, OpenFile, WritePieces, WriteFails, CloseFile, ReceiveFails,
                  ReceiverStops, ForkAtSender, ForkAtReceiver, vars, Writing
    <2>3. QED
      BY <1>0, <2>1, <2>2 DEF Gone, KilledByLeaver, SenderEnded
  <1>5. ASSUME ReceiveStatus PROVE Gone' /\ KilledByLeaver'
    <2>1. PICK got \in Reads(toReceiver) :
            IF got = <<VALID>> THEN receiver' = "open" ELSE receiver' = "failed"
      BY <1>5 DEF ReceiveStatus
    <2>2. /\ receiver = "status" /\ UNCHANGED <<sender, faults>>
          /\ reset' = (receiver' = "open" /\ SenderEnded)
      BY <1>5 DEF ReceiveStatus
    <2>3. receiver' = "open" => sender # "killed"
      <3>1. SUFFICES ASSUME receiver' = "open", sender = "killed" PROVE FALSE
        OBVIOUS
      <3>2. got = <<VALID>> /\ toReceiver = <<ERROR>>
        BY <2>1, <2>2, <3>1 DEF Opening
      <3>3. Len(<<ERROR>>) = 1 /\ Len(toReceiver) = Len(<<ERROR>>)
        BY <3>2, ShortStreams, Zenon
      <3>4. Len(toReceiver) <= 1
        BY <3>3
      <3>5. got = toReceiver
        BY <3>4, ReadsAll DEF TypeOK
      <3>6. <<VALID>>[1] = <<ERROR>>[1]
        BY <3>2, <3>5
      <3>7. QED
        BY <3>6 DEF VALID, ERROR
    <2>4. receiver' = "open" /\ SenderEnded => sender = "failed"
      BY <2>2, <2>3 DEF Opening, SenderEnded
    <2>5. receiver' # "killed"
      BY <2>1
    <2>6. QED
      BY <2>2, <2>4, <2>5 DEF Gone, KilledByLeaver, SenderEnded
  <1>6. ASSUME ReceivePieces PROVE Gone' /\ KilledByLeaver'
    <2>1. PICK got \in Reads(toReceiver) \cup
                         (IF SenderEnded /\ toReceiver = <<>> THEN {<<>>} ELSE {}) :
            Took(got)
      BY <1>6 DEF ReceivePieces, Took
    <2>2. receiver = "receive" /\ UNCHANGED sender /\ Writing
      BY <1>6 DEF ReceivePieces, Writing
    <2>3. CASE SenderEnded /\ reset
      <3>1. receiver' = "killed" /\ UNCHANGED <<reset, faults>>
        BY <2>1, <2>3 DEF Took
      <3>2. "junk" \in faults \/ "hungUp" \in faults
        BY <2>2, <2>3 DEF Gone
      <3>3. QED
        BY <2>2, <3>1, <3>2 DEF Gone, KilledByLeaver, SenderEnded, Writing
    <2>4. CASE ~(SenderEnded /\ reset)
      <3>1. /\ reset' = SenderEnded /\ receiver' # "killed"
            /\ faults' \subseteq faults \cup {"marker", "glued"}
        BY <2>1, <2>2, <2>4 DEF Took
      <3>2. ASSUME SenderEnded, "junk" \notin faults', Writing' PROVE sender = "failed"
        <4>1. "junk" \notin faults
          BY <1>0, <3>2
        <4>2. sender # "killed"
          BY <2>2 DEF Opening
        <4>3. sender # "sent"
          <5>1. SUFFICES ASSUME sender = "sent" PROVE FALSE
            OBVIOUS
          <5>2. Window'
            BY WindowStep
          <5>3. toReceiver' = <<COMPLETE>>
            BY <5>1, <5>2, <2>2, <3>2 DEF Window
          <5>4. toReceiver' = <<>>
            BY <1>6, <4>1, TakesAll
          <5>5. QED
            BY <5>3, <5>4, ShortStreams, Zenon
        <4>4. QED
          BY <3>2, <4>2, <4>3 DEF SenderEnded
      <3>3. QED
        BY <1>0, <2>2, <3>1, <3>2 DEF Gone, KilledByLeaver, SenderEnded
    <2>5. QED
      BY <2>3, <2>4
  <1>7. QED
    BY <1>1, <1>2, <1>3, <1>4, <1>5, <1>6 DEF Next, Sender, Receiver, Over

----------------------------------------------------------------------------
(* How far the receiver is *)

LEMMA FurthestIs ==
  ASSUME NEW pieces, NEW m \in Nat, m \in ToSet(pieces) \cup {0},
         \A i \in DOMAIN pieces : pieces[i] \in 0..m
  PROVE  FurthestOf(pieces) = m
  <1> DEFINE S == ToSet(pieces) \cup {0}
  <1>1. \A x \in S : x \in 0..m
    BY DEF ToSet
  <1>2. m \in S
    OBVIOUS
  <1> HIDE DEF S
  <1>3. Max(S) = m
    <2>1. \A y \in S : m >= y
      BY <1>1
    <2>2. \A x \in S : (\A y \in S : x >= y) => x = m
      BY <1>1, <1>2
    <2>3. QED
      BY <1>2, <2>1, <2>2 DEF Max
  <1>4. QED
    BY <1>3 DEF S, FurthestOf

\* A piece that is not beyond the next one moves the furthest to it, or not at all.
LEMMA FurthestMoves ==
  ASSUME NEW pieces \in Seq(Pieces \cup {Junk}), NEW f \in Nat, f \in ToSet(pieces) \cup {0},
         \A i \in DOMAIN pieces : pieces[i] \in 1..f,
         NEW p \in 1..f + 1, p \in Pieces
  PROVE  LET more == pieces \o <<p>>
             g    == IF p > f THEN p ELSE f
         IN  /\ FurthestOf(more) = g /\ g \in ToSet(more) \cup {0}
             /\ \A i \in DOMAIN more : more[i] \in 1..g
             /\ Len(more) = Len(pieces) + 1 /\ more[Len(more)] = p
             /\ \A i \in DOMAIN pieces : i \in DOMAIN more /\ more[i] = pieces[i]
  <1> DEFINE more == pieces \o <<p>>
             g    == IF p > f THEN p ELSE f
  <1>1. <<p>> \in Seq(Pieces \cup {Junk}) /\ Len(<<p>>) = 1
    OBVIOUS
  <1>2. PICK n \in Nat : n = Len(pieces) /\ DOMAIN pieces = 1..n
    BY EmptyBySize
  <1>3. /\ more \in Seq(Pieces \cup {Junk}) /\ Len(more) = n + 1
        /\ \A i \in 1..n + 1 : more[i] = IF i <= n THEN pieces[i] ELSE <<p>>[i - n]
    BY <1>1, <1>2, ConcatProperties
  <1>4. DOMAIN more = 1..n + 1
    BY <1>3, LenProperties
  <1> HIDE DEF more
  <1>5. more[n + 1] = p
    BY <1>2, <1>3
  <1>6. \A i \in 1..n : more[i] = pieces[i]
    BY <1>2, <1>3
  <1>7. g \in Nat /\ f <= g /\ p <= g
    OBVIOUS
  <1>8. \A i \in DOMAIN more : more[i] \in 1..g
    <2> TAKE i \in DOMAIN more
    <2>1. CASE i = n + 1
      BY <2>1, <1>5, <1>7
    <2>2. CASE i \in 1..n
      BY <2>2, <1>2, <1>6, <1>7
    <2>3. QED
      BY <2>1, <2>2, <1>2, <1>4
  <1>9. g \in ToSet(more) \cup {0}
    <2>1. CASE p > f
      <3>1. n + 1 \in DOMAIN more
        BY <1>2, <1>4
      <3>2. QED
        BY <2>1, <3>1, <1>5 DEF ToSet
    <2>2. CASE ~(p > f)
      <3>1. f = 0 \/ \E i \in DOMAIN pieces : f = pieces[i]
        BY DEF ToSet
      <3>2. DOMAIN pieces \subseteq DOMAIN more
        BY <1>2, <1>4
      <3>3. QED
        BY <2>2, <3>1, <3>2, <1>2, <1>6 DEF ToSet
    <2>3. QED
      BY <2>1, <2>2
  <1>10. FurthestOf(more) = g
    <2>1. \A i \in DOMAIN more : more[i] \in 0..g
      BY <1>7, <1>8
    <2>2. QED
      BY <1>7, <1>9, <2>1, FurthestIs
  <1>11. \A i \in DOMAIN pieces : i \in DOMAIN more /\ more[i] = pieces[i]
    BY <1>2, <1>4, <1>6
  <1>12. QED
    BY <1>2, <1>3, <1>5, <1>8, <1>9, <1>10, <1>11 DEF more

\* The status is read alone.
LEMMA StatusRead ==
  ASSUME TypeOK, Opening, ReceiveStatus
  PROVE  /\ toReceiver' = <<>> /\ sender \in {"status", "statusSent", "failed", "killed"}
         /\ UNCHANGED <<sender, pos, received, faults>>
  <1>1. PICK got \in Reads(toReceiver) : toReceiver' = Rest(toReceiver, got)
    BY DEF ReceiveStatus
  <1>2. receiver = "status"
    BY DEF ReceiveStatus
  <1>3. toReceiver \in {<<VALID>>, <<ERROR>>}
    BY <1>1, <1>2, ShortStreams DEF Opening
  <1>4. Len(<<VALID>>) = 1 /\ Len(<<ERROR>>) = 1
    BY ShortStreams, Zenon
  <1>5. Len(toReceiver) = 1
    BY <1>3, <1>4, Zenon
  <1>6. toReceiver' = <<>>
    <2>1. Len(toReceiver) <= 1
      BY <1>5
    <2>2. QED
      BY <1>1, <2>1, ReadsAll DEF TypeOK
  <1>7. QED
    BY <1>2, <1>6 DEF ReceiveStatus, Opening, file, output

\* The cases of ReceivePieces while nothing was misread.
LEMMA PieceRead ==
  ASSUME TypeOK, Opening, Window, Near, faults' \cap Misread = {}, ReceivePieces, [Next]_vars
  PROVE  /\ toReceiver' = <<>> /\ UNCHANGED <<sender, pos, size>> /\ sender # "piece"
         /\ \/ /\ UNCHANGED received /\ sender # "pieceSent"
               /\ receiver' = "close" => sender = "sent"
               /\ receiver' = "write" => chunk' = <<>>
            \/ /\ receiver' = "write" /\ sender # "sent"
               /\ \E p \in 1..Furthest + 1 :
                    /\ p <= size /\ toReceiver = <<p>> /\ received' = received \o <<p>>
                    /\ chunk' = <<p>>
                    /\ sender = "pieceSent" => p = pos
  <1>0. "junk" \notin faults
    BY FaultsGrow DEF Misread
  <1>1. /\ toReceiver' = <<>> /\ Took(toReceiver)
        /\ toReceiver = <<>> => SenderEnded
    BY <1>0, TakesAll
  <1>2. receiver = "receive" /\ UNCHANGED <<sender, pos, size>> /\ Writing
    BY DEF ReceivePieces, Writing, file, request
  <1>3. sender # "piece"
    BY <1>0, <1>1 DEF Window, SenderEnded
  <1>4. CASE SenderEnded /\ reset
    BY <1>1, <1>2, <1>3, <1>4 DEF Took, SenderEnded, output
  <1>5. CASE ~(SenderEnded /\ reset) /\ toReceiver = <<>>
    <2>1. SenderEnded
      BY <1>1, <1>5
    <2>2. {i \in DOMAIN toReceiver : IsEnd(toReceiver[i])} = {}
      BY <1>5
    <2>3. received' = received \o <<>>
      BY <1>1, <1>5, <2>2 DEF Took
    <2>4. received' = received
      BY <2>3, ConcatEmptySeq DEF TypeOK
    <2>5. receiver' = "write" /\ chunk' = <<>>
      BY <1>1, <1>5, <2>2 DEF Took
    <2>6. QED
      BY <1>1, <1>2, <1>3, <2>1, <2>4, <2>5 DEF SenderEnded
  <1>6. CASE ~(SenderEnded /\ reset) /\ toReceiver = <<COMPLETE>> /\ sender = "sent"
    <2>1. 1 \in DOMAIN toReceiver /\ toReceiver[1] = COMPLETE
      BY <1>6
    <2>2. {i \in DOMAIN toReceiver : IsEnd(toReceiver[i])} # {}
      BY <2>1 DEF IsEnd
    <2>3. UNCHANGED received /\ receiver' = "close"
      BY <1>1, <1>6, <2>2 DEF Took
    <2>4. QED
      BY <1>1, <1>2, <1>3, <1>6, <2>3
  <1>7. ASSUME NEW p \in 1..Furthest + 1, p <= size, toReceiver = <<p>>,
               sender = "pieceSent" => p = pos, ~(SenderEnded /\ reset)
        PROVE  /\ receiver' = "write" /\ sender # "sent"
               /\ received' = received \o <<p>> /\ chunk' = <<p>>
    <2>1. DOMAIN toReceiver = {1} /\ toReceiver[1] = p
      BY <1>7
    <2>2. p # COMPLETE
      BY DEF COMPLETE
    <2>3. {i \in DOMAIN toReceiver : IsEnd(toReceiver[i])} = {}
      <3>1. SUFFICES ASSUME NEW i \in DOMAIN toReceiver, IsEnd(toReceiver[i]) PROVE FALSE
        OBVIOUS
      <3>2. /\ i \in {j \in DOMAIN toReceiver : IsEnd(toReceiver[j])}
            /\ toReceiver[i] # COMPLETE
        BY <3>1, <2>1, <2>2
      <3>3. "marker" \in faults'
        BY <1>1, <1>7, <3>2 DEF Took
      <3>4. QED
        BY <3>3 DEF Misread
    <2>4. receiver' = "write" /\ chunk' = toReceiver /\ received' = received \o toReceiver
      BY <1>1, <1>7, <2>3 DEF Took
    <2>5. sender # "sent"
      <3>1. sender = "sent" => toReceiver[1] = COMPLETE
        BY <1>0, <1>2 DEF Window
      <3>2. QED
        BY <3>1, <2>1, <2>2
    <2>6. QED
      BY <1>7, <2>4, <2>5
  <1>8. QED
    BY <1>1, <1>2, <1>3, <1>4, <1>5, <1>6, <1>7 DEF Near

\* The step that sends the next piece, as far as Progress can tell.
LEMMA NextPieceSent ==
  ASSUME TypeOK, Buffering, Window, Near, "junk" \notin faults', [Next]_vars,
         SendLine \/ SendChunk
  PROVE  \E p \in 1..Furthest + 1 :
           /\ p <= size /\ pos' = p
           /\ toReceiver' = (IF ReceiverEnded THEN <<>> ELSE <<p>>)
           /\ sender = "piece" /\ sender' = "pieceSent" /\ toSender' = <<>>
           /\ UNCHANGED <<receiver, received, size>>
           /\ "rewound" \notin faults => p = pos + 1
  <1>0. /\ size \in Nat /\ offset \in 0..size /\ end \in 0..size /\ pos \in 0..end
        /\ Furthest \in 0..size /\ "junk" \notin faults
    BY BoundsAssumption, FaultsGrow DEF TypeOK, Near
  <1>1. CASE SendLine
    <2> DEFINE p == (IF pos < end THEN pos ELSE offset) + 1
    <2>1. /\ Sent(<<p>>) /\ pos' = p /\ sender = "piece" /\ sender' = "pieceSent" /\ Uploads
          /\ UNCHANGED <<receiver, received, toSender, size>>
          /\ pos < end \/ offset < size
      BY <1>1 DEF SendLine, output, request
    <2>2. pos <= Furthest /\ offset <= end /\ toSender = <<>>
      BY <1>0, <2>1 DEF Near, Buffering, Window
    <2>3. p \in 1..Furthest + 1 /\ p <= size
      BY <1>0, <2>1, <2>2
    <2>4. "rewound" \notin faults => p = pos + 1
      BY <1>0, <2>1 DEF Buffering
    <2> HIDE DEF p
    <2>5. toReceiver' = IF ReceiverEnded THEN <<>> ELSE <<p>>
      BY <1>0, <2>1, SendsOne
    <2>6. QED
      BY <2>1, <2>2, <2>3, <2>4, <2>5
  <1>2. CASE SendChunk
    <2>1. /\ Sent(<<pos + 1>>) /\ pos' = pos + 1 /\ sender = "piece" /\ sender' = "pieceSent"
          /\ UNCHANGED <<receiver, received, toSender, size>> /\ pos < end
      BY <1>2 DEF SendChunk, output, request
    <2>2. pos <= Furthest /\ toSender = <<>>
      BY <1>0, <2>1 DEF Near, Window
    <2>3. pos + 1 \in 1..Furthest + 1 /\ pos + 1 <= size
      BY <1>0, <2>1, <2>2
    <2>4. toReceiver' = IF ReceiverEnded THEN <<>> ELSE <<pos + 1>>
      BY <1>0, <2>1, SendsOne
    <2>5. QED
      BY <2>1, <2>2, <2>3, <2>4
  <1>3. QED
    BY <1>1, <1>2

\* The step that sends the end, as far as Progress can tell.
LEMMA EndSent ==
  ASSUME TypeOK, Window, "junk" \notin faults, SendComplete
  PROVE  /\ toReceiver' = IF ReceiverEnded THEN <<>> ELSE <<COMPLETE>>
         /\ sender = "piece" /\ sender' = "sent"
         /\ UNCHANGED <<receiver, received, size, pos, toSender>>
  BY SendsOne DEF SendComplete, output, request, file

\* The steps of the dialogue before the first piece.
Prelude ==
  SendReply \/ SendStatus \/ FileNotOpened \/ ReceiveReply \/ ReceiveStatus

LEMMA PreludeSteps ==
  ASSUME TypeOK, Opening, Prelude
  PROVE  /\ \/ sender' \in {"reply", "status", "statusSent", "failed", "killed"}
            \/ UNCHANGED sender /\ ~Writing'
         /\ UNCHANGED <<received, pos, size>>
         /\ Writing' => toReceiver' = <<>>
         /\ sender' \in {"piece", "pieceSent", "sent"} => UNCHANGED toSender
  <1>1. CASE SendReply \/ SendStatus \/ FileNotOpened
    <2>1. /\ sender \in {"reply", "status"} /\ sender' \in {"status", "statusSent", "killed"}
          /\ UNCHANGED <<receiver, received, pos, size>>
      BY <1>1 DEF SendReply, SendStatus, FileNotOpened, output, file, request
    <2>2. ~Writing'
      BY <2>1 DEF Opening, Writing
    <2>3. QED
      BY <2>1, <2>2
  <1>2. CASE ReceiveReply
    BY <1>2 DEF ReceiveReply, Writing, output, file, request
  <1>3. CASE ReceiveStatus
    <2>1. /\ toReceiver' = <<>> /\ sender \in {"status", "statusSent", "failed", "killed"}
          /\ UNCHANGED <<sender, pos, received, size>>
      BY <1>3, StatusRead DEF ReceiveStatus, request
    <2>2. QED
      BY <2>1
  <1>4. QED
    BY <1>1, <1>2, <1>3 DEF Prelude

\* The steps that change neither what was received nor what is under way.
Aside ==
  \/ OpenFile \/ WritePieces \/ WriteFails \/ CloseFile \/ ReceiveFails
  \/ ReceiverStops \/ ForkAtSender \/ ForkAtReceiver \/ UNCHANGED vars

LEMMA AsideSteps ==
  ASSUME Aside
  PROVE  /\ UNCHANGED <<sender, pos, size, toReceiver, toSender, received>>
         /\ Writing' => Writing
  BY DEF Aside, OpenFile, WritePieces, WriteFails, CloseFile, ReceiveFails, ReceiverStops,
         ForkAtSender, ForkAtReceiver, vars, Writing, request, streams, file, output

LEMMA ProgressInit == Init => Progress
  <1> SUFFICES ASSUME Init PROVE Near
    BY DEF Progress
  <1>1. received = <<>> /\ DOMAIN received = {} /\ size \in Nat
    BY BoundsAssumption DEF Init
  <1>2. Furthest = 0
    BY <1>1, FurthestIs DEF Furthest
  <1>3. sender \in {"reply", "status"} /\ ~Writing
    BY DEF Init, Writing
  <1>4. QED
    BY <1>1, <1>2, <1>3 DEF Near

LEMMA ProgressStep ==
  TypeOK /\ Opening /\ Window /\ Buffering /\ Progress /\ [Next]_vars => Progress'
  <1> SUFFICES ASSUME TypeOK, Opening, Window, Buffering, Progress, [Next]_vars,
                      faults' \cap Misread = {}
               PROVE  Near'
    BY DEF Progress, Misread
  <1>0. /\ Near /\ "junk" \notin faults' /\ "junk" \notin faults
        /\ Window' /\ Opening'
    BY FaultsGrow, WindowStep, OpeningStep DEF Progress, Misread
  <1>a. /\ size \in Nat /\ Furthest \in 0..size /\ pos \in Nat
    BY <1>0, BoundsAssumption DEF Near, TypeOK
  <1>b. ASSUME UNCHANGED <<received, size>>
        PROVE  /\ Furthest' = Furthest /\ Furthest' \in 0..size'
               /\ Furthest' \in ToSet(received') \cup {0}
               /\ \A i \in DOMAIN received' : received'[i] \in 1..Furthest'
    <2>1. Furthest' = Furthest
      BY <1>b DEF Furthest
    <2>2. QED
      BY <2>1, <1>0, <1>b DEF Near
  <1>1. CASE Prelude
    <2>1. /\ \/ sender' \in {"reply", "status", "statusSent", "failed", "killed"}
             \/ UNCHANGED sender /\ ~Writing'
          /\ UNCHANGED <<received, pos, size>>
          /\ Writing' => toReceiver' = <<>>
          /\ sender' \in {"piece", "pieceSent", "sent"} => UNCHANGED toSender
      BY <1>1, PreludeSteps
    <2>2. QED
      BY <2>1, <1>0, <1>b DEF Near
  <1>2. CASE Confirmed
    <2>1. /\ sender \in {"statusSent", "pieceSent"} /\ sender' = "piece"
          /\ UNCHANGED <<received, pos, size>> /\ toSender # <<>>
      BY <1>2, ShortStreams DEF Confirmed, output, file, request
    <2>2. pos' <= Furthest'
      <3>1. CASE sender = "statusSent"
        BY <2>1, <3>1, <1>a, <1>b DEF Opening
      <3>2. CASE sender = "pieceSent"
        BY <2>1, <3>2, <1>0, <1>b DEF Near
      <3>3. QED
        BY <2>1, <3>1, <3>2
    <2>3. toReceiver' = <<>>
      BY <2>1, <1>0 DEF Window
    <2>4. QED
      BY <2>1, <2>2, <2>3, <1>b DEF Near
  <1>3. CASE NotConfirmed \/ SenderLeaves
    <2>1. /\ sender' = "failed" /\ sender # "sent"
          /\ UNCHANGED <<received, size, toReceiver, receiver>>
      BY <1>3 DEF NotConfirmed, SenderLeaves, SenderEnded, output, request, streams
    <2>2. QED
      BY <2>1, <1>0, <1>b DEF Near, Writing
  <1>4. CASE SendLine \/ SendChunk
    <2>1. PICK p \in 1..Furthest + 1 :
            /\ p <= size /\ pos' = p
            /\ toReceiver' = (IF ReceiverEnded THEN <<>> ELSE <<p>>)
            /\ sender' = "pieceSent" /\ toSender' = <<>>
            /\ UNCHANGED <<receiver, received, size>>
      BY <1>4, <1>0, NextPieceSent
    <2>2. toReceiver' # <<>> => p \in 1..Furthest' + 1 /\ p <= size' /\ toReceiver' = <<p>>
      BY <2>1, <1>b
    <2>3. pos' <= Furthest' + 1
      BY <2>1, <1>a, <1>b
    <2>4. QED
      BY <2>1, <2>2, <2>3, <1>b DEF Near
  <1>5. CASE SendComplete
    <2>1. /\ toReceiver' = (IF ReceiverEnded THEN <<>> ELSE <<COMPLETE>>)
          /\ sender = "piece" /\ sender' = "sent"
          /\ UNCHANGED <<receiver, received, size, pos, toSender>>
      BY <1>5, <1>0, EndSent
    <2>2. QED
      BY <2>1, <1>0, <1>b DEF Near
  <1>6. CASE Aside
    <2>1. /\ UNCHANGED <<sender, pos, size, toReceiver, toSender, received>>
          /\ Writing' => Writing
      BY <1>6, AsideSteps
    <2>2. QED
      BY <2>1, <1>0, <1>b DEF Near
  <1>7. CASE ReceivePieces
    <2>1. /\ toReceiver' = <<>> /\ UNCHANGED <<sender, pos, size>> /\ sender # "piece"
          /\ \/ UNCHANGED received /\ sender # "pieceSent"
             \/ /\ receiver' = "write" /\ sender # "sent"
                /\ \E p \in 1..Furthest + 1 :
                     /\ p <= size /\ toReceiver = <<p>> /\ received' = received \o <<p>>
                     /\ sender = "pieceSent" => p = pos
      BY <1>7, <1>0, PieceRead
    <2>2. CASE UNCHANGED received /\ sender # "pieceSent"
      BY <2>1, <2>2, <1>0, <1>b DEF Near
    <2>3. ASSUME NEW p \in 1..Furthest + 1, p <= size, received' = received \o <<p>>,
                 sender = "pieceSent" => p = pos, sender # "sent"
          PROVE  Near'
      <3>1. PICK f \in Nat : f = Furthest
        BY <1>a
      <3>2. p \in 1..f + 1 /\ p \in Pieces /\ received \in Seq(Pieces \cup {Junk})
        BY <2>3, <3>1, <1>a, BoundsAssumption DEF Pieces, TypeOK
      <3>3. f \in ToSet(received) \cup {0} /\ \A i \in DOMAIN received : received[i] \in 1..f
        BY <3>1, <1>0 DEF Near
      <3>4. PICK g \in Nat : g = IF p > f THEN p ELSE f
        BY <3>2
      <3>5. /\ FurthestOf(received \o <<p>>) = g /\ g \in ToSet(received \o <<p>>) \cup {0}
            /\ \A i \in DOMAIN (received \o <<p>>) : (received \o <<p>>)[i] \in 1..g
        BY <3>2, <3>3, <3>4, FurthestMoves
      <3>6. /\ Furthest' = g /\ g \in ToSet(received') \cup {0}
            /\ \A i \in DOMAIN received' : received'[i] \in 1..g
        BY <2>3, <3>5 DEF Furthest
      <3>7. g <= size /\ p <= g
        BY <2>3, <3>1, <3>2, <3>4, <1>a
      <3>8. sender = "pieceSent" => pos <= g
        BY <2>3, <3>7
      <3>9. QED
        BY <2>1, <2>3, <3>6, <3>7, <3>8, <1>a DEF Near
    <2>4. QED
      BY <2>1, <2>2, <2>3
  <1>8. QED
    BY <1>1, <1>2, <1>3, <1>4, <1>5, <1>6, <1>7
       DEF Next, Sender, Receiver, Over, Prelude, Aside

LEMMA OrderInit == Init => Order
  <1> SUFFICES ASSUME Init PROVE InStep
    BY DEF Order
  <1>1. DOMAIN received = {} /\ sender \in {"reply", "status"} /\ ~Writing
    BY DEF Init, Writing
  <1>2. QED
    BY <1>1 DEF InStep

LEMMA OrderStep ==
  TypeOK /\ Opening /\ Window /\ Buffering /\ Progress /\ Order /\ [Next]_vars => Order'
  <1> SUFFICES ASSUME TypeOK, Opening, Window, Buffering, Progress, Order, [Next]_vars,
                      faults' \cap (Misread \cup {"rewound"}) = {}
               PROVE  InStep'
    BY DEF Order, Misread
  <1>0. /\ InStep /\ Near /\ "junk" \notin faults' /\ "junk" \notin faults
        /\ "rewound" \notin faults /\ faults' \cap Misread = {} /\ Window'
    BY FaultsGrow, WindowStep DEF Progress, Order, Misread
  <1>a. pos \in Nat /\ Len(received) \in Nat
    BY BoundsAssumption, EmptyBySize DEF TypeOK
  <1>1. CASE Prelude
    <2>1. /\ \/ sender' \in {"reply", "status", "statusSent", "failed", "killed"}
             \/ UNCHANGED sender /\ ~Writing'
          /\ UNCHANGED <<received, pos, size>>
          /\ Writing' => toReceiver' = <<>>
          /\ sender' \in {"piece", "pieceSent", "sent"} => UNCHANGED toSender
      BY <1>1, PreludeSteps
    <2>2. QED
      BY <2>1, <1>0 DEF InStep
  <1>2. CASE Confirmed
    <2>1. /\ sender \in {"statusSent", "pieceSent"} /\ sender' = "piece"
          /\ UNCHANGED <<received, pos>> /\ toSender # <<>>
      BY <1>2, ShortStreams DEF Confirmed, output, file
    <2>2. Len(received') = pos'
      <3>1. CASE sender = "statusSent"
        BY <2>1, <3>1, ShortStreams DEF Opening
      <3>2. CASE sender = "pieceSent"
        BY <2>1, <3>2, <1>0 DEF InStep
      <3>3. QED
        BY <2>1, <3>1, <3>2
    <2>3. toReceiver' = <<>>
      BY <2>1, <1>0 DEF Window
    <2>4. QED
      BY <2>1, <2>2, <2>3, <1>0 DEF InStep
  <1>3. CASE NotConfirmed \/ SenderLeaves
    <2>1. /\ sender' = "failed" /\ UNCHANGED <<received, toReceiver, receiver>>
      BY <1>3 DEF NotConfirmed, SenderLeaves, output, streams
    <2>2. QED
      BY <2>1, <1>0 DEF InStep, Writing
  <1>4. CASE SendLine \/ SendChunk
    <2>1. PICK p \in 1..Furthest + 1 :
            /\ toReceiver' = (IF ReceiverEnded THEN <<>> ELSE <<p>>)
            /\ sender = "piece" /\ sender' = "pieceSent" /\ toSender' = <<>>
            /\ UNCHANGED <<receiver, received>>
            /\ "rewound" \notin faults => p = pos + 1
      BY <1>4, <1>0, NextPieceSent
    <2>2. p = Len(received) + 1
      BY <2>1, <1>0 DEF InStep
    <2>3. QED
      BY <2>1, <2>2, <1>0 DEF InStep
  <1>5. CASE SendComplete
    <2>1. /\ toReceiver' = (IF ReceiverEnded THEN <<>> ELSE <<COMPLETE>>)
          /\ sender = "piece" /\ sender' = "sent"
          /\ UNCHANGED <<receiver, received, pos>>
      BY <1>5, <1>0, EndSent
    <2>2. QED
      BY <2>1, <1>0 DEF InStep
  <1>6. CASE Aside
    <2>1. /\ UNCHANGED <<sender, pos, toReceiver, toSender, received>>
          /\ Writing' => Writing
      BY <1>6, AsideSteps
    <2>2. QED
      BY <2>1, <1>0 DEF InStep
  <1>7. CASE ReceivePieces
    <2>1. /\ toReceiver' = <<>> /\ UNCHANGED <<sender, pos, size>> /\ sender # "piece"
          /\ \/ UNCHANGED received /\ sender # "pieceSent"
             \/ /\ receiver' = "write" /\ sender # "sent"
                /\ \E p \in 1..Furthest + 1 :
                     /\ p <= size /\ toReceiver = <<p>> /\ received' = received \o <<p>>
                     /\ sender = "pieceSent" => p = pos
      BY <1>7, <1>0, PieceRead
    <2>2. CASE UNCHANGED received /\ sender # "pieceSent"
      BY <2>1, <2>2, <1>0 DEF InStep
    <2>3. ASSUME NEW p \in 1..Furthest + 1, p <= size, toReceiver = <<p>>,
                 received' = received \o <<p>>, sender = "pieceSent" => p = pos, sender # "sent"
          PROVE  InStep'
      <3>1. PICK f \in Nat : f = Furthest /\ f <= size /\ size <= MaxSize /\ size \in Nat
        BY <1>0, BoundsAssumption DEF Near, TypeOK
      <3>2. p \in 1..f + 1 /\ p \in Pieces /\ received \in Seq(Pieces \cup {Junk})
        BY <2>3, <3>1, BoundsAssumption DEF Pieces, TypeOK
      <3>3. f \in ToSet(received) \cup {0} /\ \A i \in DOMAIN received : received[i] \in 1..f
        BY <3>1, <1>0 DEF Near
      <3>4. /\ Len(received') = Len(received) + 1 /\ received'[Len(received')] = p
            /\ \A i \in DOMAIN received : i \in DOMAIN received' /\ received'[i] = received[i]
        <4>1. /\ Len(received \o <<p>>) = Len(received) + 1
              /\ (received \o <<p>>)[Len(received \o <<p>>)] = p
              /\ \A i \in DOMAIN received :
                   i \in DOMAIN (received \o <<p>>) /\ (received \o <<p>>)[i] = received[i]
          BY <3>2, <3>3, FurthestMoves
        <4>2. QED
          BY <2>3, <4>1
      <3>5. p = Len(received) + 1
        <4>1. toReceiver # <<>> /\ toReceiver # <<COMPLETE>> /\ <<p>>[1] = p
          BY <2>3 DEF COMPLETE
        <4>2. Writing
          BY <1>7 DEF ReceivePieces, Writing
        <4>3. <<p>> = <<Len(received) + 1>>
          BY <4>1, <4>2, <2>3, <1>0 DEF InStep
        <4>4. <<p>>[1] = <<Len(received) + 1>>[1]
          BY <4>3
        <4>5. QED
          BY <4>4
      <3>6. \A i \in DOMAIN received' : received'[i] = i
        <4>1. DOMAIN received = 1..Len(received)
          BY EmptyBySize DEF TypeOK
        <4>2. DOMAIN received' = 1..Len(received) + 1
          <5>1. received' \in Seq(Pieces \cup {Junk})
            BY TypeStep DEF TypeOK
          <5>2. QED
            BY <5>1, <3>4, LenProperties
        <4>3. SUFFICES ASSUME NEW i \in 1..Len(received) + 1 PROVE received'[i] = i
          BY <4>2
        <4>4. CASE i = Len(received) + 1
          BY <4>4, <3>4, <3>5
        <4>5. CASE i \in 1..Len(received)
          BY <4>1, <4>5, <3>4, <1>0 DEF InStep
        <4>6. QED
          BY <4>4, <4>5, <1>a
      <3>7. sender = "pieceSent" => Len(received') = pos'
        BY <2>1, <2>3, <3>4, <3>5
      <3>8. QED
        BY <2>1, <2>3, <3>6, <3>7 DEF InStep
    <2>4. QED
      BY <2>1, <2>2, <2>3
  <1>8. QED
    BY <1>1, <1>2, <1>3, <1>4, <1>5, <1>6, <1>7
       DEF Next, Sender, Receiver, Over, Prelude, Aside

LEMMA TakenInit == Init => Taken
  BY DEF Init, Taken, OnePiece

LEMMA TakenStep ==
  TypeOK /\ Opening /\ Window /\ Buffering /\ Progress /\ Stored /\ Carried /\ Taken
  /\ [Next]_vars => Taken'
  <1> SUFFICES ASSUME TypeOK, Opening, Window, Buffering, Progress, Stored, Carried, Taken,
                      [Next]_vars, faults' \cap (Misread \cup {"overrun"}) = {}
               PROVE  OnePiece'
    BY DEF Taken
  <1>0. /\ faults \subseteq faults' /\ faults' \cap Misread = {} /\ faults \cap Misread = {}
        /\ "overrun" \notin faults /\ faults \cap (Misread \cup {"overrun"}) = {}
    BY FaultsGrow
  <1>1. OnePiece /\ Near
    BY <1>0 DEF Taken, Progress
  <1>2. ASSUME UNCHANGED <<receiver, chunk, written, received, size>> PROVE OnePiece'
    BY <1>1, <1>2 DEF OnePiece, Furthest
  <1>3. ASSUME Sender \/ SenderLeaves \/ ForkAtSender \/ ForkAtReceiver \/ UNCHANGED vars
        PROVE  OnePiece'
    <2>1. UNCHANGED <<receiver, chunk, written, received, size>>
      BY <1>3 DEF Sender, SendReply, SendStatus, FileNotOpened, Confirmed, NotConfirmed, SendLine,
                  SendChunk, SendComplete, SenderLeaves, ForkAtSender, ForkAtReceiver, vars, output,
                  request
    <2>2. QED
      BY <1>2, <2>1
  <1>4. ASSUME ReceiveReply \/ ReceiveStatus \/ OpenFile \/ WritePieces \/ WriteFails \/ CloseFile
               \/ ReceiveFails \/ ReceiverStops
        PROVE  OnePiece'
    <2>1. receiver' \notin {"write", "close"}
      BY <1>4 DEF ReceiveReply, ReceiveStatus, OpenFile, WritePieces, WriteFails, CloseFile,
                  ReceiveFails, ReceiverStops
    <2>2. QED
      BY <2>1 DEF OnePiece
  <1>5. ASSUME ReceivePieces PROVE OnePiece'
    <2>1. /\ UNCHANGED <<sender, pos, size>>
          /\ \/ /\ UNCHANGED received
                /\ receiver' = "close" => sender = "sent"
                /\ receiver' = "write" => chunk' = <<>>
             \/ /\ receiver' = "write"
                /\ \E p \in 1..Furthest + 1 : p <= size /\ chunk' = <<p>>
      BY <1>0, <1>1, <1>5, PieceRead
    <2>2. receiver = "receive" /\ UNCHANGED written
      BY <1>5 DEF ReceivePieces
    <2>3. received = written
      BY <1>0, <2>2 DEF Stored, Carried, ReceiverEnded
    <2>4. CASE /\ UNCHANGED received
               /\ receiver' = "close" => sender = "sent"
               /\ receiver' = "write" => chunk' = <<>>
      <3>1. sender = "sent" => Furthest = size
        BY <1>1, BoundsAssumption DEF Buffering, Near, Uploads, TypeOK, Ops
      <3>2. Furthest' = Furthest
        BY <2>4 DEF Furthest
      <3>3. QED
        BY <2>1, <2>4, <3>1, <3>2 DEF OnePiece
    <2>5. ASSUME receiver' = "write", NEW p \in 1..Furthest + 1, p <= size, chunk' = <<p>>
          PROVE  OnePiece'
      <3>1. Furthest = FurthestOf(written')
        BY <2>2, <2>3 DEF Furthest
      <3>2. \E q \in 1..FurthestOf(written') + 1 : q <= size' /\ chunk' = <<q>>
        BY <2>1, <2>5, <3>1
      <3>3. QED
        BY <2>5, <3>2 DEF OnePiece
    <2>6. QED
      BY <2>1, <2>4, <2>5
  <1>6. QED
    BY <1>3, <1>4, <1>5 DEF Next, Receiver, Over

----------------------------------------------------------------------------
(* The inductive invariant, and what follows from it *)

LEMMA InvInit == Init => IInv
  BY TypeInit, OpeningInit, WindowInit, BufferingInit, ProgressInit, OrderInit, CarriedInit,
     TakenInit, StoredInit, GoneInit DEF IInv

LEMMA InvStep == IInv /\ [Next]_vars => IInv'
  BY TypeStep, OpeningStep, WindowStep, BufferingStep, ProgressStep, OrderStep, CarriedStep,
     TakenStep, StoredStep, GoneStep DEF IInv

LEMMA Invariance == Spec => []IInv
  BY InvInit, InvStep, PTL DEF Spec

\* Every variable has its type: no piece beyond the end of the file is sent or
\* written, and nothing of the dialogue before the first piece is ever written
\* to the file.
THEOREM TypeCorrect == Spec => []TypeOK
  <1>1. IInv => TypeOK
    BY DEF IInv
  <1>2. QED
    BY <1>1, Invariance, PTL

\* The receiver is killed by SIGPIPE only after the sender went before the end,
\* or when bytes beyond a chunk were sent (client.c:233): its second send on
\* the closed connection is never the confirmation of COMPLETE.
THEOREM KilledOnlyByLeaver == Spec => []KilledByLeaver
  <1>1. IInv => KilledByLeaver
    BY DEF IInv
  <1>2. QED
    BY <1>1, Invariance, PTL

\* The pieces in order.
LEMMA FirstPieces ==
  ASSUME TypeOK, InStep, Near
  PROVE  /\ Len(received) = Furthest /\ Len(Whole) = size
         /\ Whole \in Seq(Nat) /\ received \in Seq(Nat)
         /\ \A i \in 1..Len(received) : received[i] = i
         /\ \A i \in 1..size : Whole[i] = i
  <1>1. PICK n \in Nat : n = Len(received) /\ DOMAIN received = 1..n
    BY EmptyBySize DEF TypeOK
  <1>2. size \in Nat
    BY BoundsAssumption DEF TypeOK
  <1>3. \A i \in 1..n : received[i] = i /\ i <= Furthest
    BY <1>1, <1>2 DEF InStep, Near
  <1>4. Furthest \in 0..n
    <2>1. Furthest = 0 \/ \E i \in 1..n : Furthest = received[i]
      BY <1>1 DEF Near, ToSet
    <2>2. QED
      BY <2>1, <1>3
  <1>5. n = Furthest
    BY <1>3, <1>4
  <1>6. Len(Whole) = size /\ Whole \in Seq(Nat) /\ \A i \in 1..size : Whole[i] = i
    <2>1. Whole \in [1..size -> Nat]
      BY <1>2 DEF Whole
    <2>2. Whole \in Seq(Nat)
      BY <1>2, <2>1, SeqDef
    <2>3. DOMAIN Whole = 1..size
      BY DEF Whole
    <2>4. Len(Whole) = size
      BY <1>2, <2>2, <2>3, LenProperties
    <2>5. QED
      BY <2>2, <2>4 DEF Whole
  <1>7. received \in Seq(Nat)
    BY SeqMonotonic DEF TypeOK, Pieces, Junk
  <1>8. QED
    BY <1>1, <1>3, <1>5, <1>6, <1>7

LEMMA StoredIfSent == IInv => SentIsStored
  <1> SUFFICES ASSUME IInv, sender = "sent", ReceiverEnded, faults \subseteq {"hungUp"}
               PROVE  disk = Whole
    BY DEF SentIsStored
  <1>1. /\ TypeOK /\ Near /\ InStep /\ Stored /\ Buffering /\ Gone /\ KilledByLeaver
        /\ faults \cap {"rewound", "flushedTwice", "overrun", "unwritable", "stopped"} = {}
        /\ Carried
    BY DEF IInv, Progress, Order, Misread
  <1>2. receiver \in {"complete", "failed"}
    BY <1>1 DEF KilledByLeaver, Gone, Stored, ReceiverEnded
  <1>3. disk = received
    <2>1. buffered = <<>> /\ disk \o buffered = written
      BY <1>1, <1>2 DEF Stored
    <2>2. disk \o <<>> = disk
      BY <1>1, ConcatEmptySeq DEF TypeOK
    <2>3. received = written
      BY <1>1, <1>2 DEF Carried
    <2>4. QED
      BY <2>1, <2>2, <2>3
  <1>4. pos = size
    BY <1>1 DEF Buffering, Uploads, TypeOK, Ops
  <1>5. Len(received) = size
    BY <1>1, <1>4 DEF InStep
  <1>6. received = Whole
    BY <1>1, <1>5, FirstPieces, SeqEqual
  <1>7. QED
    BY <1>3, <1>6

\* What the sender reported as sent (file.c:371, client.c:262) is on the disk of
\* the receiver once that has ended, for files and buffers of every size, although
\* the pieces are confirmed before they are written (file.c:314-324) - unless one of
\* the listed hazards struck.
THEOREM SentStays == Spec => []SentIsStored
  BY StoredIfSent, Invariance, PTL

LEMMA PrefixIfBroken == IInv => BrokenOffIsPrefix
  <1> SUFFICES ASSUME IInv, faults \subseteq {"hungUp", "unwritable", "stopped"}
               PROVE  IsPrefix(disk \o buffered, Whole)
    BY DEF BrokenOffIsPrefix
  <1> DEFINE S == Pieces \cup {Junk}
  <1>1. TypeOK /\ Near /\ InStep /\ Stored /\ Carried
        /\ faults \cap {"flushedTwice", "overrun"} = {}
    BY DEF IInv, Progress, Order, Misread
  <1>2. /\ disk \o buffered \in Seq(S) /\ written \in Seq(S) /\ chunk \in Seq(S)
        /\ received \in Seq(S) /\ written \o chunk \in Seq(S)
    BY <1>1, ConcatProperties DEF TypeOK
  <1> HIDE DEF S
  <1>3. Begins(disk \o buffered, received)
    <2>1. Begins(disk \o buffered, written) /\ Begins(written \o chunk, received)
      BY <1>1 DEF Stored, Carried
    <2>2. Begins(written, written \o chunk)
      BY <1>2, BeginsConcat
    <2>3. Begins(written, received)
      BY <1>2, <2>1, <2>2, BeginsTrans
    <2>4. QED
      BY <1>2, <2>1, <2>3, BeginsTrans
  <1>4. PICK d \in Seq(S) : d = disk \o buffered
    BY <1>2
  <1>5. PICK n \in Nat : n = Len(d)
    BY EmptyBySize
  <1>6. PICK m \in Nat : m = Len(received) /\ m = Furthest /\ m <= size /\ size \in Nat
    BY <1>1, FirstPieces, BoundsAssumption, EmptyBySize DEF Near, TypeOK
  <1>7. /\ Len(Whole) = size /\ Whole \in Seq(Nat)
        /\ \A i \in 1..m : received[i] = i
        /\ \A i \in 1..size : Whole[i] = i
    BY <1>1, <1>6, FirstPieces
  <1>8. n <= m /\ n \in 0..Len(Whole) /\ \A i \in 1..n : d[i] = i
    <2>1. n <= m /\ \A i \in 1..n : d[i] = received[i]
      BY <1>3, <1>4, <1>5, <1>6 DEF Begins
    <2>2. n <= size
      BY <2>1, <1>6
    <2>3. ASSUME NEW i \in 1..n PROVE d[i] = i
      <3>1. i \in 1..m
        BY <2>1
      <3>2. QED
        BY <2>1, <3>1, <1>7
    <2>4. QED
      BY <2>1, <2>2, <2>3, <1>7
  <1>9. /\ SubSeq(Whole, 1, n) \in Seq(Nat) /\ Len(SubSeq(Whole, 1, n)) = n
        /\ \A i \in 1..n : SubSeq(Whole, 1, n)[i] = Whole[i]
    BY <1>7, <1>8, PartIs
  <1>10. SubSeq(d, 1, n) = d
    BY <1>5, SubSeqFull
  <1>11. SubSeq(Whole, 1, n) = d
    <2>1. ASSUME NEW i \in 1..n PROVE SubSeq(Whole, 1, n)[i] = d[i]
      <3>1. i \in 1..size
        BY <1>6, <1>8
      <3>2. QED
        BY <3>1, <1>7, <1>8, <1>9
    <2>2. QED
      BY <2>1, <1>5, <1>9, SeqEqual
  <1>12. n <= Len(Whole)
    BY <1>8
  <1>13. IsPrefix(d, Whole)
    BY <1>5, <1>10, <1>11, <1>12 DEF IsPrefix
  <1>14. QED
    BY <1>4, <1>13

\* A file that a transfer has begun to replace holds the first pieces of the new
\* content, in order and each once, wherever the transfer breaks off, also when a
\* write fails (file.c:324-328) or the process of the receiver ends in between.
THEOREM BrokenOffInOrder == Spec => []BrokenOffIsPrefix
  BY PrefixIfBroken, Invariance, PTL

----------------------------------------------------------------------------
(* The two functions implement Delivery *)

LEMMA SameFurthest == D!Furthest = FurthestOf(written)
  BY DEF D!Furthest, D!Max, D!ToSet, FurthestOf, Max, ToSet

LEMMA DeliveryStarts == Init => D!DeliveryInit
  BY BoundsAssumption DEF Init, D!DeliveryInit

LEMMA DeliveryStep ==
  IInv /\ [Next]_vars =>
    (faults' \cap {"junk", "overrun", "marker", "glued"} = {}
       => D!DeliveryNext \/ UNCHANGED D!deliveryVars)
  <1> SUFFICES ASSUME IInv, [Next]_vars, faults' \cap (Misread \cup {"overrun"}) = {}
               PROVE  D!DeliveryNext \/ UNCHANGED D!deliveryVars
    BY DEF Misread
  <1>0. /\ TypeOK /\ Stored /\ Carried /\ OnePiece
        /\ "overrun" \notin faults /\ "overrun" \notin faults'
    BY FaultsGrow DEF IInv, Taken
  <1>1. CASE WritePieces
    <2>1. /\ receiver = "write" /\ receiver' = "receive" /\ Write(chunk) /\ UNCHANGED size
      BY <1>0, <1>1 DEF WritePieces, request
    <2>2. written' = written \o chunk
      BY <2>1 DEF Write
    <2>3. CASE chunk = <<>>
      <3>1. UNCHANGED written
        BY <1>0, <2>2, <2>3, ConcatEmptySeq DEF TypeOK
      <3>2. (receiver = "complete")' = (receiver = "complete")
        BY <2>1
      <3>3. QED
        BY <2>1, <3>1, <3>2 DEF D!deliveryVars
    <2>4. CASE chunk # <<>>
      <3>1. PICK p \in 1..FurthestOf(written) + 1 : p <= size /\ chunk = <<p>>
        BY <1>0, <2>1, <2>4 DEF OnePiece
      <3>2. p \in Pieces \cup {Junk}
        <4>1. chunk[1] \in Pieces \cup {Junk} /\ chunk[1] = p
          <5>1. Len(chunk) = 1 /\ chunk[1] = p
            BY <3>1, ShortStreams
          <5>2. chunk \in Seq(Pieces \cup {Junk}) /\ 1 \in 1..Len(chunk)
            BY <5>1, <1>0 DEF TypeOK
          <5>3. chunk[1] \in Pieces \cup {Junk}
            BY <5>2, ElementOfSeq
          <5>4. QED
            BY <5>1, <5>3
        <4>2. QED
          BY <4>1
      <3>3. written' = Append(written, p)
        <4>1. written \in Seq(Pieces \cup {Junk})
          BY <1>0 DEF TypeOK
        <4>2. QED
          BY <2>2, <3>1, <3>2, <4>1, AppendIsConcat
      <3>4. D!Deliver
        BY <2>1, <3>1, <3>3, SameFurthest DEF D!Deliver
      <3>5. QED
        BY <3>4 DEF D!DeliveryNext
    <2>5. QED
      BY <2>3, <2>4
  <1>2. CASE CloseFile
    <2>1. /\ receiver = "close" /\ receiver' = "complete" /\ UNCHANGED <<size, written>>
      BY <1>2 DEF CloseFile, request
    <2>2. Furthest = size /\ received = written
      BY <1>0, <2>1 DEF OnePiece, Carried, Stored, ReceiverEnded
    <2>3. FurthestOf(written) = size
      BY <2>2 DEF Furthest
    <2>4. D!Complete
      BY <2>1, <2>3, SameFurthest DEF D!Complete
    <2>5. QED
      BY <2>4 DEF D!DeliveryNext
  <1>3. CASE ~WritePieces /\ ~CloseFile
    <2>1. UNCHANGED <<size, written>> /\ (receiver' = "complete" <=> receiver = "complete")
      BY <1>3 DEF Next, Sender, Receiver, SendReply, SendStatus, FileNotOpened, Confirmed,
           NotConfirmed, SendLine, SendChunk, SendComplete, SenderLeaves, ReceiveReply,
           ReceiveStatus, OpenFile, ReceivePieces, WriteFails, ReceiveFails, ReceiverStops,
           ReceiverEnded, ForkAtSender, ForkAtReceiver, Over, vars, request, output
    <2>2. (receiver = "complete")' = (receiver = "complete")
      BY <2>1
    <2>3. QED
      BY <2>1, <2>2 DEF D!deliveryVars
  <1>4. QED
    BY <1>1, <1>2, <1>3

\* Every step of a transfer is a step of Delivery or leaves its state alone, as
\* long as no byte beyond a chunk was sent or written and nothing was misread for the end:
\* no piece is left out and none comes early, however often the offset of the
\* file moves back (file.c:344-369) and whatever else breaks.
THEOREM DeliveryImplemented == Spec => ImplementsDelivery
  <1>1. Init => D!DeliveryInit
    BY DeliveryStarts
  <1> DEFINE Step == faults' \cap {"junk", "overrun", "marker", "glued"} = {}
                       => D!DeliveryNext \/ UNCHANGED D!deliveryVars
  <1>2. IInv /\ [Next]_vars => [Step]_vars
    BY DeliveryStep
  <1>3. QED
    BY <1>1, <1>2, Invariance, PTL DEF Spec, ImplementsDelivery
=============================================================================
