----------------------------- MODULE FileTable -----------------------------
(***************************************************************************)
(* The list of File structs of one storage server (file.c) against its     *)
(* disk.  Threads of handleNameServerThread create and delete files,       *)
(* threads of handleClientRequest look a path up, take its lock and look   *)
(* it up again to give the lock back, and a storage server that copies a   *)
(* file here has it stored without either.  No mutex guards the list:      *)
(* fileHead, fileTail and the next pointers are read and written by all of *)
(* them.                                                                   *)
(*                                                                         *)
(* Nodes are addresses.  A freed node keeps its contents until malloc      *)
(* hands it out again, which it may do at once.  A walk of the list is one *)
(* step - one that stands on a node while another thread frees it is not   *)
(* modelled - and so is a section under read_write_lock (see FileLock).    *)
(* What a removal has read of the list it writes to in a step of its own.  *)
(***************************************************************************)
EXTENDS Integers, FiniteSets, Sequences, SequencesExt

CONSTANTS
  Threads,
  Paths,
  Workloads,     \* what the threads are asked for: a record [op, path] each
  PathsFile,     \* the files named in .paths_SS.txt, in its order
  NodeCount,     \* bound: the addresses malloc can hand out
  MaxRestarts    \* bound: restarts of the storage server

\* The path of COPY_FILES is what extractFileName leaves of the one that is sent.
Ops == {"CREATE_FILE", "DELETE_FILE", "READ_FILE", "WRITE_FILE", "COPY_FILES"}

ASSUME ThreadsAssumption == IsFiniteSet(Threads)
ASSUME WorkloadsAssumption == Workloads \subseteq [Threads -> [op : Ops, path : Paths]]
ASSUME PathsFileAssumption == PathsFile \in Seq(Paths)
ASSUME BoundsAssumption == NodeCount \in Nat /\ NodeCount >= Len(PathsFile) /\ MaxRestarts \in Nat

Nodes == 1..NodeCount
NULL  == 0
Pointers == Nodes \cup {NULL}

VARIABLES
  request,
  pc,
  answer,
  node,           \* newFile or ptr, a local variable of each thread
  ptr2, after,    \* the node to unlink, and the one it has read to be the next
  stale,          \* the threads about to unlink whose nodes another one has written to
  allocated,      \* the nodes that malloc has handed out and free has not taken back
  filepath, next, read_write, reader_count,     \* the fields of each node
  fileHead, fileTail,
  disk,           \* the files that exist
  crashed,
  restarts,
  faults          \* history: the hazards that struck since the last start

fields == <<filepath, next, read_write, reader_count>>
list   == <<allocated, fileHead, fileTail>>
local  == <<node, ptr2, after, stale>>
vars   == <<request, pc, answer, local, fields, list, disk, crashed, restarts, faults>>

Codes == {"none", "VALID", "FILE_ALREADY_EXISTS", "CREATING_FILE", "FILE_DOES_NOT_EXIST",
          "UNABLE_TO_DELETE_FILE", "PATH_DOES_NOT_EXIST", "ALREADY_READING",
          "ALREADY_WRITING"}

Steps == {"start", "open", "allocate", "append", "first", "link", "tail",
          "remove", "unlist", "unlink", "admit", "transfer", "release", "done"}

\* removeFile did not find the file; the node of fileTail, present or to come,
\* was freed; a file was created that another thread had created since the check;
\* two appends crossed; a removal crossed another one, or an append, at its nodes; a
\* lock's node was freed under its session; a write created a deleted file again; a
\* copy was stored; a client that was writing hung up; a file could not be opened
\* for reading; a file not named in .paths_SS.txt was forgotten.
Faults == {"unlisted", "tailFreed", "doubled", "raced", "crossed", "pulled", "revived",
           "copied", "hungUp", "unopened", "forgotten"}

Op(t)   == request[t].op
Path(t) == request[t].path

\* A slip: the type of a path is not looked at.
CollectedUnchecked ==
  FoldLeft(LAMBDA files, f : IF Contains(files, f) THEN files ELSE Append(files, f),
           <<>>, PathsFile)

\* collectAccessiblePaths: the files of .paths_SS.txt that exist, each once.
Collected ==
  FoldLeft(LAMBDA files, f : IF f \in disk /\ ~Contains(files, f)
                               THEN Append(files, f) ELSE files,
           <<>>, PathsFile)

Start(files) ==
  LET n == Len(files)
      link(i) == IF i < n THEN i + 1 ELSE NULL
  IN  [allocated |-> 1..n,
       filepath  |-> [i \in Nodes |-> IF i <= n THEN files[i] ELSE "unset"],
       next      |-> [i \in Nodes |-> link(i)],
       fileHead  |-> IF n = 0 THEN NULL ELSE 1,
       fileTail  |-> n]

Init ==
  /\ request \in Workloads
  /\ disk \in SUBSET ToSet(PathsFile)
  /\ pc = [t \in Threads |-> "start"]
  /\ answer = [t \in Threads |-> "none"]
  /\ node = [t \in Threads |-> NULL]
  /\ ptr2 = [t \in Threads |-> NULL]
  /\ after = [t \in Threads |-> NULL]
  /\ stale = {}
  /\ LET s == Start(Collected)
     IN  /\ allocated = s.allocated
         /\ filepath = s.filepath
         /\ next = s.next
         /\ fileHead = s.fileHead
         /\ fileTail = s.fileTail
  /\ read_write = [n \in Nodes |-> -1]
  /\ reader_count = [n \in Nodes |-> 0]
  /\ crashed = FALSE
  /\ restarts = 0
  /\ faults = {}

At(t, step) == pc[t] = step /\ ~crashed
Goto(t, step) == pc' = [pc EXCEPT ![t] = step]

Respond(t, code) ==
  /\ answer' = [answer EXCEPT ![t] = code]
  /\ Goto(t, "done")

----------------------------------------------------------------------------
(* Walking the list from fileHead.                                         *)

walk[i \in 1..NodeCount + 1] ==
  IF i = 1 THEN fileHead
  ELSE IF walk[i - 1] = NULL THEN NULL ELSE next[walk[i - 1]]

Places(p) == {i \in 1..NodeCount : walk[i] # NULL /\ filepath[walk[i]] = p}

First(S) == CHOOSE i \in S : \A j \in S : i <= j

\* The node that validateFilePath, decreaseReaderCount and openWriteLock find.
Lookup(p) == IF Places(p) = {} THEN NULL ELSE walk[First(Places(p))]

checkFilePathExists(p) == Lookup(p) # NULL

\* The threads about to unlink that have read one of these nodes.
Removing(nodes) == {u \in Threads : pc[u] = "unlink" /\ {node[u], ptr2[u]} \cap nodes # {}}

\* The sessions that took the lock of a node and have not given it back.
Sessions(n) == {t \in Threads : pc[t] \in {"transfer", "release"} /\ node[t] = n}

----------------------------------------------------------------------------
(* createFile and addFile                                                  *)

CheckCreate(t) ==
  /\ At(t, "start")
  /\ Op(t) = "CREATE_FILE"
  /\ IF Path(t) \in disk
       THEN Respond(t, "FILE_ALREADY_EXISTS")
       ELSE Goto(t, "open") /\ UNCHANGED answer
  /\ UNCHANGED <<request, local, fields, list, disk, crashed, restarts, faults>>

(* Since the check another thread may have created the file.               *)
OpenNewFile(t) ==
  /\ At(t, "open")
  /\ \/ /\ disk' = disk \cup {Path(t)}
        /\ faults' = IF Path(t) \in disk THEN faults \cup {"doubled"} ELSE faults
        /\ Goto(t, "allocate")
        /\ UNCHANGED answer
     \/ /\ Respond(t, "CREATING_FILE")
        /\ UNCHANGED <<disk, faults>>
  /\ UNCHANGED <<request, local, fields, list, crashed, restarts>>

\* What malloc may return: any freed node, or the next fresh one.
Available ==
  {n \in Nodes \ allocated :
     filepath[n] = "unset" => \A m \in 1..n - 1 : filepath[m] # "unset"}

\* A slip: the link of the new struct is left as malloc returned it.
AllocateLinked(t) ==
  /\ At(t, "allocate")
  /\ \E n \in Available :
       /\ allocated' = allocated \cup {n}
       /\ node' = [node EXCEPT ![t] = n]
       /\ filepath' = [filepath EXCEPT ![n] = Path(t)]
       /\ read_write' = [read_write EXCEPT ![n] = -1]
       /\ reader_count' = [reader_count EXCEPT ![n] = 0]
  /\ Goto(t, "append")
  /\ UNCHANGED <<request, answer, ptr2, after, stale, next, fileHead, fileTail, disk, crashed,
                 restarts, faults>>

Allocate(t) ==
  /\ At(t, "allocate")
  /\ \E n \in Available :
       /\ allocated' = allocated \cup {n}
       /\ node' = [node EXCEPT ![t] = n]
       /\ filepath' = [filepath EXCEPT ![n] = Path(t)]
       /\ next' = [next EXCEPT ![n] = NULL]
       /\ read_write' = [read_write EXCEPT ![n] = -1]
       /\ reader_count' = [reader_count EXCEPT ![n] = 0]
  /\ Goto(t, "append")
  /\ UNCHANGED <<request, answer, ptr2, after, stale, fileHead, fileTail, disk, crashed,
                 restarts, faults>>

Appending == {t \in Threads : pc[t] \in {"first", "link", "tail"}}

CheckHead(t) ==
  /\ At(t, "append")
  /\ Goto(t, IF fileHead = NULL THEN "first" ELSE "link")
  /\ faults' = IF Appending = {} THEN faults ELSE faults \cup {"raced"}
  /\ UNCHANGED <<request, answer, local, fields, list, disk, crashed, restarts>>

SetHead(t) ==
  /\ At(t, "first")
  /\ fileHead' = node[t]
  /\ Goto(t, "tail")
  /\ UNCHANGED <<request, answer, local, fields, allocated, fileTail, disk, crashed,
                 restarts, faults>>

(* fileTail is followed whatever has become of the node it points to; it   *)
(* is null only between the two assignments that add the first node.       *)
LinkTail(t) ==
  /\ At(t, "link")
  /\ IF fileTail = NULL
       THEN crashed' = TRUE /\ UNCHANGED <<pc, next, stale>>
       ELSE /\ next' = [next EXCEPT ![fileTail] = node[t]]
            /\ stale' = stale \cup Removing({fileTail})
            /\ Goto(t, "tail")
            /\ UNCHANGED crashed
  /\ UNCHANGED <<request, answer, node, ptr2, after, filepath, read_write, reader_count,
                 list, disk, restarts, faults>>

SetTail(t) ==
  /\ At(t, "tail")
  /\ fileTail' = node[t]
  /\ Respond(t, "VALID")
  /\ UNCHANGED <<request, local, fields, allocated, fileHead, disk, crashed,
                 restarts, faults>>

----------------------------------------------------------------------------
(* deleteFile and removeFile                                               *)

CheckDelete(t) ==
  /\ At(t, "start")
  /\ Op(t) = "DELETE_FILE"
  /\ IF Path(t) \notin disk
       THEN Respond(t, "FILE_DOES_NOT_EXIST")
       ELSE Goto(t, "remove") /\ UNCHANGED answer
  /\ UNCHANGED <<request, local, fields, list, disk, crashed, restarts, faults>>

RemoveFromDisk(t) ==
  /\ At(t, "remove")
  /\ \/ /\ Path(t) \in disk
        /\ disk' = disk \ {Path(t)}
        /\ Goto(t, "unlist")
        /\ UNCHANGED answer
     \/ /\ Respond(t, "UNABLE_TO_DELETE_FILE")
        /\ UNCHANGED disk
  /\ UNCHANGED <<request, local, fields, list, crashed, restarts, faults>>

\* Nodes that fileTail points to, or will once the append under way ends.
Tails == {fileTail} \cup {node[u] : u \in {v \in Threads : pc[v] = "tail"}}

(* The walk looks at the successor of each node: the head is never it.     *)
removeFile(t) ==
  /\ At(t, "unlist")
  /\ LET found == Places(Path(t)) \ {1}
         i == First(found)
     IN  \/ /\ found = {}
            /\ faults' = faults \cup {"unlisted"}
            /\ Respond(t, "VALID")
            /\ UNCHANGED <<node, ptr2, after>>
         \/ /\ found # {}
            /\ node' = [node EXCEPT ![t] = walk[i - 1]]
            /\ ptr2' = [ptr2 EXCEPT ![t] = walk[i]]
            /\ after' = [after EXCEPT ![t] = next[walk[i]]]
            /\ Goto(t, "unlink")
            /\ UNCHANGED <<answer, faults>>
  /\ UNCHANGED <<request, stale, fields, list, disk, crashed, restarts>>

\* A slip: the list ends where the node was.
UnlinkTruncating(t, second, rest) ==
  /\ next' = [next EXCEPT ![node[t]] = NULL]
  /\ allocated' = allocated \ {second}

\* The node is unlinked from the one before it and freed; fileTail stays.
Unlink(t, second, rest) ==
  /\ next' = [next EXCEPT ![node[t]] = rest]
  /\ allocated' = allocated \ {second}

\* What has been read may be read again, or used as it was.
SecondNodes(t) == IF t \in stale THEN {ptr2[t], next[node[t]]} \ {NULL} ELSE {ptr2[t]}

RestOf(t, second) == IF t \in stale THEN {after[t], next[second]} ELSE {after[t]}

UnlinkNode(t) ==
  /\ At(t, "unlink")
  /\ \E second \in SecondNodes(t), rest \in Pointers :
       /\ rest \in RestOf(t, second)
       /\ Unlink(t, second, rest)
       /\ stale' = (stale \cup Removing({node[t], second})) \ {t}
       /\ faults' = faults \cup (IF t \in stale THEN {"crossed"} ELSE {})
                           \cup (IF second \in Tails THEN {"tailFreed"} ELSE {})
                           \cup (IF Sessions(second) # {} THEN {"pulled"} ELSE {})
  /\ ptr2' = [ptr2 EXCEPT ![t] = NULL]
  /\ after' = [after EXCEPT ![t] = NULL]
  /\ Respond(t, "VALID")
  /\ UNCHANGED <<request, node, filepath, read_write, reader_count, fileHead, fileTail,
                 disk, crashed, restarts>>

(* It is freed a second time, or has become a null pointer. *)
UnlinkFreedNode(t) ==
  /\ At(t, "unlink")
  /\ t \in stale
  /\ crashed' = TRUE
  /\ faults' = faults \cup {"crossed"}
  /\ UNCHANGED <<request, pc, answer, local, fields, list, disk, restarts>>

----------------------------------------------------------------------------
(* A client's session: validateFilePath finds the node, then takes its     *)
(* lock; decreaseReaderCount or openWriteLock finds the path anew.  A      *)
(* metadata request looks the path up and touches nothing.                 *)

FindFile(t) ==
  /\ At(t, "start")
  /\ Op(t) \in {"READ_FILE", "WRITE_FILE"}
  /\ node' = [node EXCEPT ![t] = Lookup(Path(t))]
  /\ IF Lookup(Path(t)) = NULL THEN Respond(t, "PATH_DOES_NOT_EXIST")
                               ELSE Goto(t, "admit") /\ UNCHANGED answer
  /\ UNCHANGED <<request, ptr2, after, stale, fields, list, disk, crashed, restarts, faults>>

(* The node may have been freed, or freed and handed out again, since.     *)
Admit(t) ==
  /\ At(t, "admit")
  /\ LET n == node[t]
     IN  \/ /\ Op(t) = "READ_FILE" /\ read_write[n] # 1
            /\ read_write' = [read_write EXCEPT ![n] = 0]
            /\ reader_count' = [reader_count EXCEPT ![n] = @ + 1]
            /\ Goto(t, "transfer")
            /\ UNCHANGED answer
         \/ /\ Op(t) = "WRITE_FILE" /\ read_write[n] # 0
            /\ read_write' = [read_write EXCEPT ![n] = 1]
            /\ Goto(t, "transfer")
            /\ UNCHANGED <<answer, reader_count>>
         \/ /\ Op(t) = "READ_FILE" /\ read_write[n] = 1
            /\ Respond(t, "ALREADY_WRITING")
            /\ UNCHANGED <<read_write, reader_count>>
         \/ /\ Op(t) = "WRITE_FILE" /\ read_write[n] = 0
            /\ Respond(t, "ALREADY_READING")
            /\ UNCHANGED <<read_write, reader_count>>
  /\ faults' = IF Lookup(Path(t)) = node[t] THEN faults ELSE faults \cup {"pulled"}
  /\ UNCHANGED <<request, local, filepath, next, list, disk, crashed, restarts>>

(* The reply to the path is lost: neither transfer nor release follows.    *)
LoseReply(t) ==
  /\ At(t, "transfer")
  /\ Goto(t, "done")
  /\ UNCHANGED <<request, answer, local, fields, list, disk, crashed, restarts, faults>>

(* UploadFile closes the null stream of a file that it cannot open, be it  *)
(* deleted or for want of a descriptor or a permission.                    *)
UploadFile(t) ==
  /\ At(t, "transfer")
  /\ Op(t) = "READ_FILE"
  /\ \/ Path(t) \in disk /\ Goto(t, "release") /\ UNCHANGED <<crashed, faults>>
     \/ /\ crashed' = TRUE
        /\ faults' = IF Path(t) \in disk THEN faults \cup {"unopened"} ELSE faults
        /\ UNCHANGED pc
  /\ UNCHANGED <<request, answer, local, fields, list, disk, restarts>>

(* DownloadFile returns early, or opens the file for writing, which        *)
(* creates one that was deleted in the meantime.  A client that hangs up   *)
(* early kills the server with SIGPIPE (see FileTransfer).                 *)
DownloadFile(t) ==
  /\ At(t, "transfer")
  /\ Op(t) = "WRITE_FILE"
  /\ disk' \in {disk, disk \cup {Path(t)}}
  /\ crashed' \in BOOLEAN
  /\ faults' = faults \cup (IF disk' = disk THEN {} ELSE {"revived"})
                      \cup (IF crashed' THEN {"hungUp"} ELSE {})
  /\ Goto(t, "release")
  /\ UNCHANGED <<request, answer, local, fields, list, restarts>>

(* A copy is stored by DownloadFile alone: no lock is taken, and the list   *)
(* is neither looked at nor added to.                                      *)
StoreCopy(t) ==
  /\ At(t, "start")
  /\ Op(t) = "COPY_FILES"
  /\ disk' \in {disk, disk \cup {Path(t)}}
  /\ crashed' \in BOOLEAN
  /\ faults' = faults \cup (IF disk' = disk THEN {} ELSE {"copied"})
                      \cup (IF crashed' THEN {"hungUp"} ELSE {})
  /\ Goto(t, "done")
  /\ UNCHANGED <<request, answer, local, fields, list, restarts>>

\* A slip: the last reader is taken to be the only one.
decreaseReaderCountCleared(n) ==
  IF read_write[n] = 1
    THEN UNCHANGED <<read_write, reader_count>>
    ELSE /\ reader_count' = [reader_count EXCEPT ![n] = 0]
         /\ read_write' = [read_write EXCEPT ![n] = -1]

\* A slip: the decremented count is assigned to the wrong field.
decreaseReaderCountMisassigned(n) ==
  IF read_write[n] = 1
    THEN UNCHANGED <<read_write, reader_count>>
    ELSE /\ read_write' = [read_write EXCEPT ![n] = reader_count[n] - 1]
         /\ UNCHANGED reader_count

decreaseReaderCount(n) ==
  IF read_write[n] = 1
    THEN UNCHANGED <<read_write, reader_count>>
    ELSE /\ reader_count' = [reader_count EXCEPT ![n] = @ - 1]
         /\ read_write' = IF reader_count[n] - 1 = 0
                            THEN [read_write EXCEPT ![n] = -1] ELSE read_write

openWriteLock(n) ==
  /\ read_write' = [read_write EXCEPT ![n] = -1]
  /\ UNCHANGED reader_count

Release(t) ==
  /\ At(t, "release")
  /\ LET n == Lookup(Path(t))
     IN  \/ n = NULL /\ UNCHANGED <<read_write, reader_count>>
         \/ n # NULL /\ Op(t) = "READ_FILE"  /\ decreaseReaderCount(n)
         \/ n # NULL /\ Op(t) = "WRITE_FILE" /\ openWriteLock(n)
  /\ Respond(t, "VALID")
  /\ UNCHANGED <<request, local, filepath, next, list, disk, crashed, restarts, faults>>

----------------------------------------------------------------------------
(* The process is stopped, or has crashed, and is started again: the       *)
(* threads under way are gone, the list is read from .paths_SS.txt, where  *)
(* nothing created since has been written.                                 *)
Restart ==
  /\ restarts < MaxRestarts
  /\ restarts' = restarts + 1
  /\ crashed' = FALSE
  /\ pc' = [t \in Threads |-> IF pc[t] = "start" THEN "start" ELSE "done"]
  /\ LET s == Start(Collected)
     IN  /\ allocated' = s.allocated
         /\ filepath' = s.filepath
         /\ next' = s.next
         /\ fileHead' = s.fileHead
         /\ fileTail' = s.fileTail
  /\ read_write' = [n \in Nodes |-> -1]
  /\ reader_count' = [n \in Nodes |-> 0]
  /\ faults' = IF disk \subseteq ToSet(PathsFile) THEN {} ELSE {"forgotten"}
  /\ ptr2' = [t \in Threads |-> NULL]
  /\ after' = [t \in Threads |-> NULL]
  /\ stale' = {}
  /\ UNCHANGED <<request, answer, node, disk>>

Work(t) ==
  \/ CheckCreate(t) \/ OpenNewFile(t) \/ Allocate(t)
  \/ CheckHead(t) \/ SetHead(t) \/ LinkTail(t) \/ SetTail(t)
  \/ CheckDelete(t) \/ RemoveFromDisk(t) \/ removeFile(t)
  \/ UnlinkNode(t) \/ UnlinkFreedNode(t)
  \/ FindFile(t) \/ Admit(t) \/ LoseReply(t) \/ UploadFile(t) \/ DownloadFile(t)
  \/ StoreCopy(t) \/ Release(t)

(* Nothing is asked of the server any more. *)
Rest ==
  /\ crashed \/ \A t \in Threads : pc[t] = "done"
  /\ UNCHANGED vars

Next == (\E t \in Threads : Work(t)) \/ Restart \/ Rest

Spec == Init /\ [][Next]_vars

----------------------------------------------------------------------------
(* Properties *)

TypeOK ==
  /\ request \in [Threads -> [op : Ops, path : Paths]]
  /\ pc \in [Threads -> Steps]
  /\ answer \in [Threads -> Codes]
  /\ {node, ptr2, after} \subseteq [Threads -> Pointers]
  /\ stale \subseteq Threads
  /\ allocated \subseteq Nodes
  /\ filepath \in [Nodes -> Paths \cup {"unset"}]
  /\ next \in [Nodes -> Pointers]
  /\ read_write \in [Nodes -> {-1, 0, 1}]
  /\ reader_count \in [Nodes -> Int]
  /\ fileHead \in Pointers /\ fileTail \in Pointers
  /\ disk \subseteq Paths
  /\ crashed \in BOOLEAN
  /\ restarts \in 0..MaxRestarts
  /\ faults \subseteq Faults

\* The list stays a list: from fileHead it ends, and all its nodes are allocated,
\* whatever has become of fileTail, and however appends, removals and
\* reallocations interleave - until a removal crosses another one, or an append,
\* at the nodes it has read (file.c:142-156), which can leave a freed File struct
\* linked.
WalksEnd ==
  "crossed" \notin faults =>
    /\ walk[NodeCount + 1] = NULL
    /\ \A i \in 1..NodeCount : walk[i] # NULL => walk[i] \in allocated

\* The threads that are in the middle of creating or deleting the path.
Changing(p) ==
  {t \in Threads : Path(t) = p /\ pc[t] \notin {"start", "done"}
                               /\ Op(t) \in {"CREATE_FILE", "DELETE_FILE"}}

\* The list holds each existing file once and no other, whenever no thread is
\* changing the path, as long as none of these has happened: removeFile missed
\* a file, it freed the last node, it crossed a removal or an append next to it,
\* two threads created one path at once, two appends crossed, a write created a
\* deleted file again, a copy was stored.  A path may well be created again, and
\* listed twice, before its deletion has ended.  A restart repairs all of them,
\* unless it forgets a file.
ListMatchesDisk ==
  faults \subseteq {"pulled"} /\ ~crashed =>
    \A p \in Paths : Changing(p) = {} =>
      Cardinality(Places(p)) = (IF p \in disk THEN 1 ELSE 0)

\* The count of an allocated node covers the readers that hold it, although
\* decreaseReaderCount looks the path up again and may find another node: even
\* when the path is listed twice, when removeFile missed the head, or when the
\* tail was freed.  Only three hazards break it: a session's node was freed
\* under it, or its node fell out of the list because two appends, or a removal
\* and what was done next to it, crossed.
ReadersCounted ==
  faults \cap {"pulled", "raced", "crossed"} = {} =>
    \A n \in allocated :
      reader_count[n] >= Cardinality({t \in Sessions(n) : Op(t) = "READ_FILE"})

\* The storage server outlives every mix of creations, reads, writes and copies,
\* as long as no file is deleted, no two appends cross, no client hangs up while
\* it writes and every file that exists can be opened: only a listed file that is
\* gone from the disk, a half-made list, a confirmation nobody reads or fopen's
\* failure brings it down.
SurvivesWithoutDeletions ==
  crashed => \/ faults \cap {"raced", "hungUp", "unopened"} # {}
             \/ \E t \in Threads : Op(t) = "DELETE_FILE"

\* A file whose creation was reported and that nobody was asked to delete is
\* found in the list of File structs (file.c:128), so that it can be read.
CreatedIsListed ==
  ~crashed /\ restarts = 0 =>
    \A t \in Threads :
      /\ Op(t) = "CREATE_FILE" /\ answer[t] = "VALID"
      /\ \A u \in Threads : Op(u) = "DELETE_FILE" => Path(u) # Path(t)
      => checkFilePathExists(Path(t))
=============================================================================
