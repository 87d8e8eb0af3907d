---------------------------- MODULE FileTransfer ----------------------------
(***************************************************************************)
(* One transfer of a file: the sender is UploadFile in a storage server    *)
(* (READ_FILE to a client, COPY_FILES to another storage server) or        *)
(* writeToFile in a client; the receiver is DownloadFile.                  *)
(*                                                                         *)
(* A file is the sequence of its pieces 1..size: the lines that fgets      *)
(* returns, or the chunks of BUFFER_LENGTH of writeToFile.  The two byte   *)
(* streams of the connection are sequences of items; there is no framing,  *)
(* so one recv takes any number of the items that are pending.  It is      *)
(* assumed that no recv takes a part of an item: TCP may split a message,  *)
(* and the code has nothing to put it together again.                      *)
(*                                                                         *)
(* sendData sends from a forked child that ends in exit(), and exit()      *)
(* cleans up the child's copy of every stdio stream: it moves the offset   *)
(* of a file open for reading, which parent and child share, back by what  *)
(* is buffered and unread, and writes out what is buffered of a file open  *)
(* for writing, which the parent will write once more.                     *)
(***************************************************************************)
EXTENDS Integers, FiniteSets, Sequences, SequencesExt

CONSTANTS
  MaxSize,      \* bound: pieces of a file
  Block,        \* pieces that fit into the buffer of a stdio stream
  MaxSent,      \* bound: pieces sent in a transfer
  MaxForks      \* bound: forks by other threads of a storage server

ASSUME BoundsAssumption ==
  /\ MaxSize \in Nat /\ MaxSent \in Nat /\ MaxForks \in Nat
  /\ Block \in Nat \ {0}

VARIABLES
  op,           \* READ_FILE, WRITE_FILE or COPY_FILES
  size,         \* the number of pieces of the file
  marked,       \* the pieces that contain the text COMPLETE
  sender, receiver,             \* where the two functions are
  toReceiver, toSender,         \* the two streams
  offset, pos, end,             \* the file being read: its offset, and the buffered part
  sent,         \* pieces sent so far
  reset,        \* the receiver has sent to a closed connection
  chunk,        \* received and confirmed, and not yet written
  buffered,     \* written by fprintf and not yet on the disk
  disk,         \* the receiver's file
  received,     \* history: all content that the receiver has confirmed
  written,      \* history: all that fprintf has written
  forks,
  faults        \* history: the hazards that have struck so far

request == <<op, size, marked>>
streams == <<toReceiver, toSender>>
file    == <<offset, pos, end>>
output  == <<chunk, buffered, disk, received, written>>
vars    == <<request, sender, receiver, streams, file, sent, reset, output, forks, faults>>

Ops  == {"READ_FILE", "WRITE_FILE", "COPY_FILES"}
\* What travels: the confirmation VALID_STRING, an error code, the end of a
\* file, bytes beyond the end of a buffer, and the pieces.
VALID == -1
ERROR == -2
COMPLETE == -3
Junk == 0
Pieces == 1..MaxSize
Items  == {VALID, ERROR, COMPLETE, Junk} \cup Pieces

SenderSteps   == {"reply", "status", "statusSent", "piece", "pieceSent", "sent", "failed", "killed"}
ReceiverSteps == {"path", "status", "open", "receive", "write", "close",
                  "complete", "failed", "killed", "stopped"}

SenderEnded   == sender \in {"sent", "failed", "killed"}
ReceiverEnded == receiver \in {"complete", "failed", "killed", "stopped"}

\* The offset moved back; a stream was written out by a child as well; bytes
\* beyond a chunk were sent; bytes beyond a full buffer were written; the receiver
\* took a piece for the end; it read a piece together with the end; the sender
\* closed before the end; the file could not be written; the receiver's process
\* was stopped.
Faults == {"rewound", "flushedTwice", "junk", "overrun", "marker", "glued", "hungUp",
           "unwritable", "stopped"}

Uploads == op \in {"READ_FILE", "COPY_FILES"}

(* A read is preceded by the reply to its path: UploadFile does not wait   *)
(* for the client to have read it.                                         *)
Init ==
  /\ op \in Ops
  /\ size \in 0..MaxSize
  /\ marked \in SUBSET (1..size)
  /\ sender = IF op = "READ_FILE" THEN "reply" ELSE "status"
  /\ receiver = IF op = "READ_FILE" THEN "path" ELSE "status"
  /\ toReceiver = <<>>
  /\ toSender = <<>>
  /\ offset = 0
  /\ pos = 0
  /\ end = IF op = "WRITE_FILE" THEN size ELSE 0      \* the data is in memory
  /\ sent = 0
  /\ reset = FALSE
  /\ chunk = <<>>
  /\ buffered = <<>>
  /\ disk = <<>>
  /\ received = <<>>
  /\ written = <<>>
  /\ forks = 0
  /\ faults = {}

\* recv: the first items of a stream, at least one.
Reads(stream) == {SubSeq(stream, 1, n) : n \in 1..Len(stream)}
Rest(stream, got) == SubSeq(stream, Len(got) + 1, Len(stream))

----------------------------------------------------------------------------
(* What exit() in the child of sendData does to the file being read: the   *)
(* part of the buffer the parent has not used yet lies behind the offset.  *)
(* A seek to before the start fails and leaves the offset alone.           *)
AfterChild(off, unread) == IF unread <= off THEN off - unread ELSE off

Sent(items) == toReceiver' = IF ReceiverEnded THEN toReceiver ELSE toReceiver \o items

SendReply ==
  /\ sender = "reply"
  /\ Sent(<<VALID>>)
  /\ sender' = "status"
  /\ UNCHANGED <<request, receiver, toSender, file, sent, reset, output, forks, faults>>

(* The file was opened, or writeToFile is ready.                           *)
SendStatus ==
  /\ sender = "status"
  /\ Sent(<<VALID>>)
  /\ sender' = "statusSent"
  /\ UNCHANGED <<request, receiver, toSender, file, sent, reset, output, forks, faults>>

(* UploadFile cannot open the file: its error code ends the receiver, and  *)
(* then fclose(NULL) ends the process.                                     *)
FileNotOpened ==
  /\ sender = "status"
  /\ Uploads
  /\ Sent(<<ERROR>>)
  /\ sender' = "killed"
  /\ UNCHANGED <<request, receiver, toSender, file, sent, reset, output, forks, faults>>

(* receiveConfirmation: exactly one confirmation was read.  Two of them    *)
(* read together are not VALID_STRING.                                     *)
Confirmed ==
  /\ sender \in {"statusSent", "pieceSent"}
  /\ \E got \in Reads(toSender) :
       /\ Len(got) = 1
       /\ toSender' = Rest(toSender, got)
  /\ sender' = "piece"
  /\ UNCHANGED <<request, receiver, toReceiver, file, sent, reset, output, forks, faults>>

\* A slip: a confirmation that does not come is awaited for ever.
NotConfirmedWaits ==
  /\ sender \in {"statusSent", "pieceSent"}
  /\ Len(toSender) > 1
  /\ sender' = "failed"
  /\ faults' = faults \cup {"hungUp"}
  /\ UNCHANGED <<request, receiver, streams, file, sent, reset, output, forks>>

(* A timeout, a closed connection, or two confirmations at once.           *)
NotConfirmed ==
  /\ sender \in {"statusSent", "pieceSent"}
  /\ sender' = "failed"
  /\ faults' = faults \cup {"hungUp"}
  /\ UNCHANGED <<request, receiver, streams, file, sent, reset, output, forks>>

(* fgets: the next line of the buffer, refilled from the offset when it is *)
(* used up; then the line is sent.                                         *)
SendLine ==
  /\ sender = "piece" /\ Uploads
  /\ sent < MaxSent
  /\ pos < end \/ offset < size
  /\ LET from   == IF pos < end THEN pos ELSE offset
         filled == IF pos < end THEN end
                   ELSE IF offset + Block < size THEN offset + Block ELSE size
         off    == IF pos < end THEN offset ELSE filled
     IN  /\ Sent(<<from + 1>>)
         /\ pos' = from + 1
         /\ end' = filled
         /\ offset' = AfterChild(off, filled - (from + 1))
         /\ faults' = IF offset' # off THEN faults \cup {"rewound"} ELSE faults
  /\ sent' = sent + 1
  /\ sender' = "pieceSent"
  /\ UNCHANGED <<request, receiver, toSender, reset, output, forks>>

\* A slip: the chunk that is sent is the one before.
SendChunkStale ==
  /\ sender = "piece" /\ op = "WRITE_FILE"
  /\ pos < end
  /\ Sent(<<IF pos = 0 THEN 1 ELSE pos>>) /\ UNCHANGED faults
  /\ pos' = pos + 1
  /\ sent' = sent + 1
  /\ sender' = "pieceSent"
  /\ UNCHANGED <<request, receiver, toSender, offset, end, reset, output, forks>>

\* A slip: the next chunk is sent without waiting for the confirmation.
SendChunkUnconfirmed ==
  /\ sender = "piece" /\ op = "WRITE_FILE"
  /\ pos < end
  /\ Sent(<<pos + 1>>) /\ UNCHANGED faults
  /\ pos' = pos + 1
  /\ sent' = sent + 1
  /\ UNCHANGED <<request, sender, receiver, toSender, offset, end, reset, output, forks>>

\* A slip: sent_bytes <= data_length.
SendChunkBeyond ==
  /\ sender = "piece" /\ op = "WRITE_FILE"
  /\ pos <= end
  /\ Sent(<<pos + 1>>) /\ UNCHANGED faults
  /\ pos' = pos + 1
  /\ sent' = sent + 1
  /\ sender' = "pieceSent"
  /\ UNCHANGED <<request, receiver, toSender, offset, end, reset, output, forks>>

(* The chunk is copied without a terminating zero and sent up to the next  *)
(* zero byte of the stack, wherever that is.                               *)
SendChunk ==
  /\ sender = "piece" /\ op = "WRITE_FILE"
  /\ pos < end
  /\ \/ Sent(<<pos + 1>>) /\ UNCHANGED faults
     \/ Sent(<<pos + 1, Junk>>) /\ faults' = faults \cup {"junk"}
  /\ pos' = pos + 1
  /\ sent' = sent + 1
  /\ sender' = "pieceSent"
  /\ UNCHANGED <<request, receiver, toSender, offset, end, reset, output, forks>>

(* Nothing is left to send.  The confirmation of COMPLETE is not awaited.  *)
SendComplete ==
  /\ sender = "piece"
  /\ pos = end
  /\ Uploads => offset = size
  /\ Sent(<<COMPLETE>>)
  /\ sender' = "sent"
  /\ UNCHANGED <<request, receiver, toSender, file, sent, reset, output, forks, faults>>

(* The sender's process is stopped. *)
SenderLeaves ==
  /\ ~SenderEnded
  /\ sender' = "failed"
  /\ faults' = faults \cup {"hungUp"}
  /\ UNCHANGED <<request, receiver, streams, file, sent, reset, output, forks>>

----------------------------------------------------------------------------
(* The receiver                                                            *)

\* The rest of the buffer reaches the disk, or only a part of it does: the disk
\* is full.  Nobody looks at what fclose returns.
Flush ==
  /\ buffered' = <<>>
  /\ \/ disk' = disk \o buffered /\ UNCHANGED faults
     \/ \E n \in 0..Len(buffered) - 1 :
          /\ disk' = disk \o SubSeq(buffered, 1, n)
          /\ faults' = faults \cup {"unwritable"}

(* readFile awaits the reply to the path; it is lost on a client that      *)
(* reads the status along with it.                                         *)
ReceiveReply ==
  /\ receiver = "path"
  /\ \E got \in Reads(toReceiver) :
       /\ toReceiver' = Rest(toReceiver, got)
       /\ receiver' = IF got = <<VALID>> THEN "status" ELSE "failed"
  /\ UNCHANGED <<request, sender, toSender, file, sent, reset, output, forks, faults>>

ReceiveStatus ==
  /\ receiver = "status"
  /\ \E got \in Reads(toReceiver) :
       /\ toReceiver' = Rest(toReceiver, got)
       /\ IF got = <<VALID>>
            THEN receiver' = "open" /\ toSender' = Append(toSender, VALID)
            ELSE receiver' = "failed" /\ UNCHANGED toSender
  /\ reset' = (receiver' = "open" /\ SenderEnded)
  /\ UNCHANGED <<request, sender, file, sent, output, forks, faults>>

(* fopen truncates the file, or fails after the status was confirmed.      *)
OpenFile ==
  /\ receiver = "open"
  /\ receiver' \in {"receive", "failed"}
  /\ faults' = IF receiver' = "failed" THEN faults \cup {"unwritable"} ELSE faults
  /\ UNCHANGED <<request, sender, streams, file, sent, reset, output, forks>>

IsEnd(item) == item = COMPLETE \/ item \in marked

(* What was read is confirmed, in the server's own process: the second     *)
(* send on a closed connection raises SIGPIPE.  Then it is searched for    *)
(* COMPLETE as a whole.  At the end of a closed stream recv returns 0 and  *)
(* the empty buffer counts as received.                                    *)
ReceivePieces ==
  /\ receiver = "receive"
  /\ \E got \in Reads(toReceiver) \cup (IF SenderEnded /\ toReceiver = <<>> THEN {<<>>} ELSE {}) :
       /\ toReceiver' = Rest(toReceiver, got)
       /\ IF SenderEnded /\ reset
            THEN /\ receiver' = "killed" /\ buffered' = <<>>
                 /\ UNCHANGED <<chunk, received, toSender, reset, faults>>
            ELSE /\ toSender' = IF SenderEnded THEN toSender ELSE Append(toSender, VALID)
                 /\ reset' = SenderEnded
                 /\ LET ends == {i \in DOMAIN got : IsEnd(got[i])}
                    IN  IF ends = {}
                          THEN /\ receiver' = "write"
                               /\ chunk' = got
                               /\ received' = received \o got
                               /\ UNCHANGED faults
                          ELSE /\ receiver' = "close"
                               /\ faults' = faults
                                    \cup (IF \E i \in ends : got[i] # COMPLETE
                                            THEN {"marker"} ELSE {})
                                    \cup (IF Len(got) > 1 THEN {"glued"} ELSE {})
                               /\ UNCHANGED <<chunk, received>>
                 /\ UNCHANGED buffered
  /\ UNCHANGED <<request, sender, file, sent, disk, written, forks>>

\* fprintf: a full buffer is written out first.
Write(items) ==
  /\ written' = written \o items
  /\ IF Len(buffered) + Len(items) <= Block
       THEN buffered' = buffered \o items /\ UNCHANGED disk
       ELSE disk' = disk \o buffered /\ buffered' = items

(* What was received may fill the buffer of DownloadFile to the last byte: *)
(* a chunk of a write does, a line of fgets is shorter by one.  There is   *)
(* no terminating zero then, and %s goes on into the stack behind it.      *)
MayFill(items) == Len(items) > 1 \/ (op = "WRITE_FILE" /\ items # <<>>)

WritePieces ==
  /\ receiver = "write"
  /\ receiver' = "receive"
  /\ \/ Write(chunk) /\ UNCHANGED faults
     \/ MayFill(chunk) /\ Write(Append(chunk, Junk)) /\ faults' = faults \cup {"overrun"}
  /\ chunk' = <<>>
  /\ UNCHANGED <<request, sender, streams, file, sent, reset, received, forks>>

\* A slip: the result of fprintf is not looked at, and what comes next is written.
WriteFailsUnchecked ==
  /\ receiver = "write"
  /\ Len(buffered) + Len(chunk) > Block
  /\ receiver' = "receive"
  /\ chunk' = <<>>
  /\ buffered' = chunk
  /\ \E n \in 0..Len(buffered) : disk' = disk \o SubSeq(buffered, 1, n)
  /\ faults' = faults \cup {"unwritable"}
  /\ UNCHANGED <<request, sender, streams, file, sent, reset, received, written, forks>>

(* The buffer is full and cannot be written out: fprintf fails, after the  *)
(* piece was confirmed, and the file is closed.                            *)
WriteFails ==
  /\ receiver = "write"
  /\ Len(buffered) + Len(chunk) > Block
  /\ receiver' = "failed"
  /\ chunk' = <<>>
  /\ buffered' = <<>>
  /\ \E n \in 0..Len(buffered) : disk' = disk \o SubSeq(buffered, 1, n)
  /\ faults' = faults \cup {"unwritable"}
  /\ UNCHANGED <<request, sender, streams, file, sent, reset, received, written, forks>>

CloseFile ==
  /\ receiver = "close"
  /\ receiver' = "complete"
  /\ Flush
  /\ UNCHANGED <<request, sender, streams, file, sent, reset, chunk, received, written, forks>>

(* A receive fails: a timeout, or the connection was reset.                *)
ReceiveFails ==
  /\ receiver \in {"path", "status", "receive"}
  /\ receiver' = "failed"
  /\ Flush
  /\ UNCHANGED <<request, sender, streams, file, sent, reset, chunk, received, written, forks>>

(* The receiver's process ends: it is stopped, or another of its threads   *)
(* is killed.  What was not written out is lost.                           *)
ReceiverStops ==
  /\ ~ReceiverEnded
  /\ receiver' = "stopped"
  /\ chunk' = <<>>
  /\ buffered' = <<>>
  /\ faults' = faults \cup {"stopped"}
  /\ UNCHANGED <<request, sender, streams, file, sent, reset, received, disk, written, forks>>

----------------------------------------------------------------------------
(* Another thread of a storage server sends something, a pulse for one:    *)
(* its child cleans up the streams of the transfer.                        *)
ForkAtSender ==
  /\ Uploads /\ ~SenderEnded
  /\ forks < MaxForks
  /\ forks' = forks + 1
  /\ offset' = AfterChild(offset, end - pos)
  /\ faults' = IF offset' # offset THEN faults \cup {"rewound"} ELSE faults
  /\ UNCHANGED <<request, sender, receiver, streams, pos, end, sent, reset, output>>

ForkAtReceiver ==
  /\ op # "READ_FILE" /\ receiver \in {"receive", "write", "close"}
  /\ forks < MaxForks
  /\ forks' = forks + 1
  /\ disk' = disk \o buffered
  /\ faults' = IF buffered # <<>> THEN faults \cup {"flushedTwice"} ELSE faults
  /\ UNCHANGED <<request, sender, receiver, streams, file, sent, reset, chunk, buffered,
                 received, written>>

Sender ==
  \/ SendReply \/ SendStatus \/ FileNotOpened \/ Confirmed \/ NotConfirmed
  \/ SendLine \/ SendChunk \/ SendComplete

Receiver ==
  \/ ReceiveReply \/ ReceiveStatus \/ OpenFile \/ ReceivePieces \/ WritePieces
  \/ WriteFails \/ CloseFile \/ ReceiveFails

(* Both have ended. *)
Over ==
  /\ SenderEnded /\ ReceiverEnded
  /\ UNCHANGED vars

Next ==
  \/ Sender \/ Receiver
  \/ SenderLeaves \/ ReceiverStops \/ ForkAtSender \/ ForkAtReceiver
  \/ Over

Spec == Init /\ [][Next]_vars

(* Both threads are scheduled, and both give up waiting after              *)
(* RECEIVE_THREAD_RUNNING_TIME.                                            *)
FairSpec == Spec /\ WF_vars(Sender) /\ WF_vars(Receiver)

----------------------------------------------------------------------------
(* Properties *)

TypeOK ==
  /\ op \in Ops /\ size \in 0..MaxSize /\ marked \subseteq 1..size
  /\ sender \in SenderSteps /\ receiver \in ReceiverSteps
  /\ toReceiver \in Seq(Items) /\ toSender \in Seq({VALID})
  /\ offset \in 0..size /\ end \in 0..size /\ pos \in 0..end
  /\ sent \in Nat /\ reset \in BOOLEAN
  /\ chunk \in Seq(Pieces \cup {Junk}) /\ buffered \in Seq(Pieces \cup {Junk})
  /\ disk \in Seq(Pieces \cup {Junk}) /\ received \in Seq(Pieces \cup {Junk})
  /\ written \in Seq(Pieces \cup {Junk})
  /\ forks \in 0..MaxForks /\ faults \subseteq Faults

D == INSTANCE Delivery WITH received <- written, complete <- receiver = "complete"

\* As long as no byte beyond a chunk was sent and none beyond a full buffer was
\* written, no piece contained COMPLETE and none was read together with it, the
\* two functions implement Delivery: a reader may get a line again and again, but
\* no line is left out, none comes early, and the end is the end - whatever moves
\* the offset of the file, and however the confirmations are late or doubled.
ImplementsDelivery ==
  /\ D!DeliveryInit
  /\ [][faults' \cap {"junk", "overrun", "marker", "glued"} = {}
          => D!DeliveryNext \/ UNCHANGED D!deliveryVars]_vars

Whole == [i \in 1..size |-> i]

\* What the sender reported as sent (file.c:371, client.c:262) is on the disk
\* of the receiver once that has ended, although the last confirmation is not
\* awaited and the pieces are confirmed before they are written - unless one of
\* the named hazards struck: the disk was full or the receiver was stopped between
\* the confirmation and the write, for two.
SentIsStored ==
  sender = "sent" /\ ReceiverEnded /\ faults \subseteq {"hungUp"} => disk = Whole

\* A file that a transfer has begun to replace holds the first pieces of the
\* new content, in order and each once, when the transfer breaks off, whichever
\* side goes, also when the disk is full or the process of the receiver ends.
BrokenOffIsPrefix ==
  faults \subseteq {"hungUp", "unwritable", "stopped"} => IsPrefix(disk \o buffered, Whole)

\* The receiver, a storage server when a client writes, is killed by SIGPIPE
\* only if the sender went before the end, or if it was still confirming the
\* bytes beyond a chunk when the sender had finished.
KilledByLeaver == receiver = "killed" => faults \cap {"hungUp", "junk"} # {}

\* A write to a storage server ends on both sides.  A read or a copy need not: the
\* sender may read a line of its file again and again.
EveryWriteEnds == op = "WRITE_FILE" => <>(SenderEnded /\ ReceiverEnded)

\* A client that was told the file was downloaded (file.c:332) holds what the
\* server holds, when its own disk took all of it.
ReadDeliversFile ==
  op = "READ_FILE" /\ receiver = "complete" /\ marked = {} /\ "unwritable" \notin faults =>
    disk = Whole
=============================================================================
