----------------------------- MODULE NameServer -----------------------------
(***************************************************************************)
(* The name server's request threads (name_server.c) over the directory    *)
(* they share - the hash table from paths to storage servers and the       *)
(* per-server count of paths - and, as far as the directory depends on     *)
(* them, the disks of the storage servers that carry the requests out.     *)
(*                                                                         *)
(* A member of Threads is one thread of handleClientRequests with the      *)
(* request its client sent.  The threads share the global buffer NS_Msg:   *)
(* it is a scratch buffer for log lines and port numbers, and it is also   *)
(* the operation number that createDeletionHandler and copyHandler are     *)
(* handed by reference and read again at each use.                         *)
(*                                                                         *)
(* A bucket of the hash table is a list that no lock protects.  What a     *)
(* thread can tell of it is the entries of each path, newest first.  An    *)
(* insert and a delete are two steps each, the reading of the list and the *)
(* write of a pointer into it; a search is one: one that meets a node in   *)
(* the moment it is freed is not modelled.                                 *)
(***************************************************************************)
EXTENDS Integers, FiniteSets, Sequences, SequencesExt

CONSTANTS
  Threads,        \* the request threads
  ServerList,     \* the registered storage servers, the newest first
  Paths,
  Workloads,      \* what the clients ask for: a record [op, path, path2] each
  InitialDisks,   \* what the servers may hold when they register
  BaseName,       \* the path that extractFileName leaves of a path
  Bucket,         \* the hash value of a path
  MaxPaths,       \* MAX_NO_ACCESSIBLE_PATHS
  Suspects,       \* bound: the servers whose pulses the name server may miss
  NoServer        \* the null pointer

Servers == {ServerList[i] : i \in DOMAIN ServerList}

CreateOps == {"CREATE_FILE", "CREATE_DIRECTORY"}
DeleteOps == {"DELETE_FILE", "DELETE_DIRECTORY"}
CopyOps   == {"COPY_FILES", "COPY_DIRECTORY"}
\* READ_FILE stands for the three operations that returnSS_IP_PORT answers.
Ops == CreateOps \cup DeleteOps \cup CopyOps \cup {"READ_FILE"}

Kinds == {"none", "file", "dir"}

Requests == [op : Ops, path : Paths, path2 : Paths]

ASSUME WorkloadsAssumption ==
  /\ IsFiniteSet(Threads) /\ Threads # {} /\ IsFiniteSet(Paths)
  /\ Workloads \subseteq [Threads -> Requests]
\* A server registers no more than MAX_NO_ACCESSIBLE_PATHS (see Registration).
ASSUME DisksAssumption ==
  /\ InitialDisks \subseteq [Servers -> [Paths -> Kinds]]
  /\ MaxPaths \in Nat
  /\ \A d \in InitialDisks, s \in Servers :
       Cardinality({p \in Paths : d[s][p] # "none"}) <= MaxPaths
  /\ BaseName \in [Paths -> Paths]
ASSUME BucketAssumption == Bucket \in [Paths -> Int]

VARIABLES
  request,    \* what each thread's client asked for
  pc,
  NS_Msg,     \* an operation number, a server's port number or a line of text
  server,     \* the local variable server (server1 in copyHandler)
  target,     \* server2 of copyHandler
  sent,       \* the operation number the storage server received
  work,       \* what the storage server did with the request
  answer,     \* the response of a thread
  loaded,     \* the count a thread is about to overwrite
  delta,      \* what it is about to add to it
  table,      \* the entries of each path, newest first
  seen,       \* the entries when a thread read the list it is about to change
  stale,      \* the threads whose list has changed since they read it
  count,      \* count_accessible_paths
  running,    \* what the heartbeat says of a server
  disk,       \* what is stored under a path
  writers,    \* the threads whose client is admitted to write to its file
  crashed,    \* the name server's process is gone
  faults      \* history: the hazards that have struck so far

vars == <<request, pc, NS_Msg, server, target, sent, work, answer, loaded, delta, table,
          seen, stale, count, running, disk, writers, crashed, faults>>

\* The directory, the storage servers and what a thread keeps for itself.
directory == <<table, seen, stale, count>>
storage   == <<disk, writers, work>>
local     == <<server, target, sent, answer, loaded, delta>>

Text == "text"
Codes == {"none", "VALID", "PATH_DOES_NOT_EXIST", "ONE_PATH_DOES_NOT_EXIST",
          "SERVER_DOWN", "SERVER_ERROR", "FAILED", "EMPTY", "GARBLED"}

ASSUME ServersAssumption ==
  /\ ServerList \in Seq(Servers) /\ NoServer \notin Servers
  /\ Servers \cap (Ops \cup Codes \cup {Text}) = {}

Msgs == Ops \cup Servers \cup {Text}

Steps == {"accept", "type", "choose", "find", "findUnset", "lookup", "connect",
          "confirm", "await", "record", "insert", "delete", "load", "store",
          "locate", "address", "reply", "done"}

\* The hazards a history can hold: a thread used the NS_Msg of another one;
\* a storage server's answer did not arrive; a directory operation was
\* reported as done that did nothing; an entry was added to a path that had one;
\* a deletion was recorded whose entry is not the first; a copy was entered
\* under its source path; two updates of a count crossed; two updates of a bucket
\* crossed; a client wrote to its file after it was deleted; a client hung up before
\* its path was confirmed.
Faults == {"mixed", "lost", "unreported", "doubled", "crossed", "copied", "raced",
           "tangled", "revived", "hungUp"}

NothingSeen == [p \in Paths |-> <<>>]

Holders(d, p) == {s \in Servers : d[s][p] # "none"}

Init ==
  /\ request \in Workloads
  /\ pc = [t \in Threads |-> "accept"]
  /\ NS_Msg = Text
  /\ server = [t \in Threads |-> NoServer]
  /\ target = [t \in Threads |-> NoServer]
  /\ sent = [t \in Threads |-> Text]
  /\ work = [t \in Threads |-> "none"]
  /\ answer = [t \in Threads |-> "none"]
  /\ loaded = [t \in Threads |-> 0]
  /\ delta = [t \in Threads |-> 0]
  /\ disk \in InitialDisks
  /\ table \in {tab \in [Paths -> UNION {SetToSeqs(S) : S \in SUBSET Servers}] :
                  \A p \in Paths : ToSet(tab[p]) = Holders(disk, p)}
  /\ seen = [t \in Threads |-> NothingSeen]
  /\ stale = {}
  /\ writers = {}
  /\ count = [s \in Servers |-> Cardinality({p \in Paths : disk[s][p] # "none"})]
  /\ running = [s \in Servers |-> TRUE]
  /\ crashed = FALSE
  /\ faults = {}

Op(t)   == request[t].op
Path(t) == request[t].path

At(t, step) == pc[t] = step /\ ~crashed
Goto(t, step) == pc' = [pc EXCEPT ![t] = step]

Respond(t, code) ==
  /\ answer' = [answer EXCEPT ![t] = code]
  /\ Goto(t, "reply")

\* Reading NS_Msg where the thread expects its own operation number.
NoteMsg(t) ==
  faults' = IF NS_Msg = Op(t) THEN faults ELSE faults \cup {"mixed"}

----------------------------------------------------------------------------
(* The hash table                                                          *)

searchPathInHashTable(p) == IF table[p] = <<>> THEN NoServer ELSE Head(table[p])

\* newNode->next, or the node to unlink and the one before it.
ReadBucket(t) ==
  /\ seen' = [seen EXCEPT ![t] = table]
  /\ stale' = stale \ {t}

\* What a thread finds when it writes its pointer: the entries are those it has read.
\* If another thread has written to the list in the meantime, the pointer leads to
\* the list as it was read, with what still changes behind it: each path has its
\* entries of now or those of then.
Found(t) ==
  IF t \notin stale THEN {table}
  ELSE {[p \in Paths |-> IF p \in old THEN seen[t][p] ELSE table[p]] :
          old \in SUBSET {p \in Paths : Bucket[p] = Bucket[Path(t)]}}

Tangle(t) == IF t \in stale THEN {"tangled"} ELSE {}

\* The others that are about to write to the same list have read it before.
WroteBucket(t) ==
  /\ seen' = [seen EXCEPT ![t] = NothingSeen]
  /\ stale' = (stale \cup {u \in Threads : /\ pc[u] \in {"insert", "delete"}
                                         /\ Bucket[Path(u)] = Bucket[Path(t)]}) \ {t}

\* A slip the code could have had, like the other definitions so marked; none
\* is part of Next.  The new node goes to the end of the chain.
insertAtTail(t, s) ==
  \E entries \in Found(t) : table' = [entries EXCEPT ![Path(t)] = Append(@, s)]

insertIntoHashTable(t, s) ==
  \E entries \in Found(t) : table' = [entries EXCEPT ![Path(t)] = <<s>> \o @]

\* A pointer written into a node that another thread has freed changes nothing.
deletePathFromHashTable(t) ==
  \E entries \in Found(t) :
    \/ table' = [entries EXCEPT ![Path(t)] = IF @ = <<>> THEN @ ELSE Tail(@)]
    \/ t \in stale /\ table' = entries

\* The server that is first among the open ones with the fewest paths.
Emptiest(open) ==
  LET size(i) == count[ServerList[i]]
      best == {i \in open : \A j \in open :
                 size(i) < size(j) \/ (size(i) = size(j) /\ i <= j)}
  IN  IF open = {} THEN NoServer ELSE ServerList[CHOOSE i \in best : TRUE]

\* A slip: a server may be filled up to its limit and one path more.
minAccessiblePathSSOverfull ==
  Emptiest({i \in DOMAIN ServerList :
              count[ServerList[i]] <= MaxPaths /\ running[ServerList[i]]})

\* minAccessiblePathSS: among the servers below the limit that the heartbeat
\* says are running.
minAccessiblePathSS ==
  Emptiest({i \in DOMAIN ServerList :
              count[ServerList[i]] < MaxPaths /\ running[ServerList[i]]})

----------------------------------------------------------------------------
(* handleClientRequests: the request arrives.  A failed exchange with the  *)
(* client closes the socket without an answer; the second confirmation to  *)
(* a client that has hung up kills the server with SIGPIPE.                *)

ReceiveRequest(t) ==
  /\ At(t, "accept")
  /\ NS_Msg' = Text                  \* "New connection request with ..."
  /\ Goto(t, "type")
  /\ UNCHANGED <<request, local, directory, running, storage, crashed, faults>>

AbortRequest(t) ==
  /\ pc[t] \in {"accept", "type"} /\ ~crashed
  /\ Goto(t, "done")
  /\ crashed' \in {FALSE, pc[t] = "accept"}
  /\ faults' = IF crashed' THEN faults \cup {"hungUp"} ELSE faults
  /\ UNCHANGED <<request, NS_Msg, local, directory, running, storage>>

(* The operation number goes into NS_Msg and the thread branches on its    *)
(* own op.  The client sends one path for COPY_DIRECTORY, where the        *)
(* handler parses two: that request is dropped.                            *)
StoreType(t) ==
  /\ At(t, "type")
  /\ NS_Msg' = Op(t)
  /\ Goto(t, CASE Op(t) \in CreateOps \cup DeleteOps -> "choose"
               [] Op(t) = "READ_FILE"      -> "locate"
               [] Op(t) = "COPY_FILES"     -> "lookup"
               [] Op(t) = "COPY_DIRECTORY" -> "done")
  /\ UNCHANGED <<request, local, directory, running, storage, crashed, faults>>

----------------------------------------------------------------------------
(* returnSS_IP_PORT: the port number passes through NS_Msg.  The lookup's  *)
(* null result is dereferenced.                                            *)

\* A slip: the address is that of the server a new path would go to.
LocatePathByRoom(t) ==
  /\ At(t, "locate")
  /\ server' = [server EXCEPT ![t] = minAccessiblePathSS]
  /\ NS_Msg' = IF minAccessiblePathSS = NoServer THEN Text ELSE minAccessiblePathSS
  /\ Goto(t, "address")
  /\ UNCHANGED <<request, target, sent, answer, loaded, delta, directory, running,
                 storage, crashed, faults>>

LocatePath(t) ==
  /\ At(t, "locate")
  /\ IF searchPathInHashTable(Path(t)) = NoServer
       THEN /\ crashed' = TRUE
            /\ UNCHANGED <<pc, NS_Msg, server>>
       ELSE /\ server' = [server EXCEPT ![t] = searchPathInHashTable(Path(t))]
            /\ NS_Msg' = searchPathInHashTable(Path(t))
            /\ Goto(t, "address")
            /\ UNCHANGED crashed
  /\ UNCHANGED <<request, target, sent, answer, loaded, delta, directory, running,
                 storage, faults>>

(* What NS_Msg holds by now is appended to the address, and both to what   *)
(* the response, which nobody initialized, happens to hold.                *)
AppendPort(t) ==
  /\ At(t, "address")
  /\ \E address \in {NS_Msg, "GARBLED"} :
       Respond(t, IF address \in Servers THEN address ELSE "GARBLED")
  /\ faults' = IF NS_Msg = server[t] THEN faults ELSE faults \cup {"mixed"}
  /\ UNCHANGED <<request, NS_Msg, server, target, sent, loaded, delta, directory,
                 running, storage, crashed>>

----------------------------------------------------------------------------
(* createDeletionHandler: which server.  NS_Msg is read for the create     *)
(* operations and then once more for the delete operations.                *)

ChooseServer(t) ==
  /\ At(t, "choose")
  /\ server' = IF NS_Msg \in CreateOps
                 THEN [server EXCEPT ![t] = minAccessiblePathSS] ELSE server
  /\ Goto(t, IF NS_Msg \in CreateOps THEN "find" ELSE "findUnset")
  /\ NoteMsg(t)
  /\ UNCHANGED <<request, NS_Msg, target, sent, answer, loaded, delta, directory,
                 running, storage, crashed>>

(* The server the tests that follow let the request go on with.            *)
UseServer(t, s) ==
  /\ server' = [server EXCEPT ![t] = s]
  /\ IF s = NoServer THEN Respond(t, "PATH_DOES_NOT_EXIST")
     ELSE IF ~running[s] THEN Respond(t, "SERVER_DOWN")
     ELSE Goto(t, "connect") /\ UNCHANGED answer

FindServer(t) ==
  /\ At(t, "find") \/ At(t, "findUnset")
  /\ \/ /\ NS_Msg \in DeleteOps
        /\ UseServer(t, searchPathInHashTable(Path(t)))
     \/ /\ NS_Msg \notin DeleteOps /\ At(t, "find")
        /\ UseServer(t, server[t])
     \/ /\ NS_Msg \notin DeleteOps /\ At(t, "findUnset")    \* uninitialized
        /\ \E s \in Servers \cup {NoServer} : UseServer(t, s)
  /\ NoteMsg(t)
  /\ UNCHANGED <<request, NS_Msg, target, sent, loaded, delta, directory, running,
                 storage, crashed>>

(* The uninitialized pointer points nowhere. *)
FollowWildPointer(t) ==
  /\ At(t, "findUnset") /\ NS_Msg \notin DeleteOps
  /\ crashed' = TRUE
  /\ faults' = faults \cup {"mixed"}
  /\ UNCHANGED <<request, pc, NS_Msg, local, directory, running, storage>>

(* copyHandler: the servers of the two paths. *)
LookupPaths(t) ==
  /\ At(t, "lookup")
  /\ LET s1 == searchPathInHashTable(Path(t))
         s2 == searchPathInHashTable(request[t].path2)
     IN  /\ server' = [server EXCEPT ![t] = s1]
         /\ target' = [target EXCEPT ![t] = s2]
         /\ IF NoServer \in {s1, s2}
              THEN Respond(t, "ONE_PATH_DOES_NOT_EXIST")
              ELSE Goto(t, "connect") /\ UNCHANGED answer
  /\ UNCHANGED <<request, NS_Msg, sent, loaded, delta, directory, running, storage,
                 crashed, faults>>

----------------------------------------------------------------------------
(* The conversation with the storage server, the same in both handlers.  A *)
(* server that has stopped refuses the connection, or takes the path and   *)
(* never carries the request out.                                          *)

Refused(t) ==
  /\ At(t, "connect")
  /\ Respond(t, "PATH_DOES_NOT_EXIST")
  /\ UNCHANGED <<request, NS_Msg, server, target, sent, loaded, delta, directory,
                 running, storage, crashed, faults>>

SendOperation(t) ==
  /\ At(t, "connect")
  /\ sent' = [sent EXCEPT ![t] = NS_Msg]
  /\ Goto(t, "confirm")
  /\ NoteMsg(t)
  /\ UNCHANGED <<request, NS_Msg, server, target, answer, loaded, delta, directory,
                 running, storage, crashed>>

(* A valid operation number was confirmed: the path follows, and from here *)
(* on the storage server may carry the request out.                        *)
SendPath(t) ==
  /\ At(t, "confirm")
  /\ sent[t] \in Ops
  /\ work' = [work EXCEPT ![t] = "todo"]
  /\ Goto(t, "await")
  /\ UNCHANGED <<request, NS_Msg, local, directory, running, disk, writers, crashed,
                 faults>>

(* The operation number is refused, or its confirmation does not come.     *)
OperationNotConfirmed(t) ==
  /\ At(t, "confirm")
  /\ Respond(t, "SERVER_ERROR")
  /\ UNCHANGED <<request, NS_Msg, server, target, sent, loaded, delta, directory,
                 running, storage, crashed, faults>>

ReceiveAnswer(t) ==
  /\ At(t, "await")
  /\ work[t] \notin {"none", "todo"}
  /\ answer' = [answer EXCEPT ![t] = work[t]]
  /\ Goto(t, "record")
  /\ UNCHANGED <<request, NS_Msg, server, target, sent, loaded, delta, directory,
                 running, storage, crashed, faults>>

(* A slip: the path is sent once more. *)
ResendPath(t) ==
  /\ At(t, "await")
  /\ Goto(t, "confirm")
  /\ faults' = faults \cup {"lost"}
  /\ UNCHANGED <<request, NS_Msg, local, directory, running, storage, crashed>>

(* A timeout, or the confirmation of the path and the answer in one piece. *)
AnswerNotReceived(t) ==
  /\ At(t, "await")
  /\ Respond(t, "SERVER_ERROR")
  /\ faults' = faults \cup {"lost"}
  /\ UNCHANGED <<request, NS_Msg, server, target, sent, loaded, delta, directory,
                 running, storage, crashed>>
----------------------------------------------------------------------------
(* The storage server's side: handleNameServerThread on the operation      *)
(* number it received.                                                     *)

\* What becomes of a path of kind k, and the answer.  Only the exit of the
\* child process decides the answer to a directory operation; a failure
\* inside it is not reported.
Outcomes(o, k) ==
  CASE o = "CREATE_FILE" ->
         IF k = "none" THEN {<<"file", "VALID">>, <<k, "FAILED">>}
                       ELSE {<<k, "FAILED">>}
    [] o = "CREATE_DIRECTORY" ->
         {<<k, "VALID">>, <<k, "FAILED">>}
           \cup (IF k = "none" THEN {<<"dir", "VALID">>} ELSE {})
    [] o = "DELETE_FILE" ->
         {<<k, "FAILED">>} \cup (IF k = "none" THEN {} ELSE {<<"none", "VALID">>})
    [] o = "DELETE_DIRECTORY" ->
         {<<k, "VALID">>, <<k, "FAILED">>}
           \cup (IF k = "dir" THEN {<<"none", "VALID">>} ELSE {})
    [] o = "READ_FILE" -> {<<k, "EMPTY">>}           \* closed without an answer
    [] o \in CopyOps -> {<<k, "VALID">>, <<k, "GARBLED">>}   \* uninitialized

CarryOut(t) ==
  /\ work[t] = "todo"
  /\ Op(t) \notin CopyOps
  /\ \E out \in Outcomes(sent[t], disk[server[t]][Path(t)]) :
       /\ disk' = [disk EXCEPT ![server[t]][Path(t)] = out[1]]
       /\ work' = [work EXCEPT ![t] = out[2]]
       /\ faults' = IF out[2] = "VALID" /\ disk' = disk
                      THEN faults \cup {"unreported"} ELSE faults
  /\ UNCHANGED <<request, pc, NS_Msg, local, directory, running, writers, crashed>>

(* copyFile sends the bytes to server2's client port, which stores them    *)
(* under the base name.  Any other operation number is applied to a path   *)
(* that is none of Paths.  The server that cannot open its file dies in    *)
(* fclose(NULL): it carries nothing out.                                   *)
CarryOutCopy(t) ==
  /\ work[t] = "todo"
  /\ Op(t) \in CopyOps
  /\ \/ UNCHANGED disk
     \/ /\ sent[t] = "COPY_FILES"
        /\ disk[server[t]][Path(t)] # "none"
        /\ disk[target[t]][BaseName[Path(t)]] # "dir"
        /\ disk' = [disk EXCEPT ![target[t]][BaseName[Path(t)]] = "file"]
  /\ \E code \in {"VALID", "GARBLED"} :     \* GARBLED: any other answer, or none
       work' = [work EXCEPT ![t] = code]
  /\ faults' = IF disk' = disk THEN faults ELSE faults \cup {"copied"}
  /\ UNCHANGED <<request, pc, NS_Msg, local, directory, running, writers, crashed>>

(* A client that was given the address of a file may write to it, and more *)
(* than once: the storage server looks for the file, and DownloadFile      *)
(* opens it later, which creates it if it was deleted in between.          *)
ClientAdmitted(t) ==
  /\ pc[t] = "done" /\ answer[t] \in Servers
  /\ disk[answer[t]][Path(t)] = "file"
  /\ writers' = writers \cup {t}
  /\ UNCHANGED <<request, pc, NS_Msg, local, directory, running, disk, work, crashed, faults>>

ClientWrites(t) ==
  /\ t \in writers
  /\ writers' = writers \ {t}
  /\ disk' = [disk EXCEPT ![answer[t]][Path(t)] = IF @ = "dir" THEN @ ELSE "file"]
  /\ faults' = IF disk' = disk THEN faults ELSE faults \cup {"revived"}
  /\ UNCHANGED <<request, pc, NS_Msg, local, directory, running, work, crashed>>

(* The heartbeat thread of a server logs missed pulses through NS_Msg, the *)
(* last of them with running = 0.                                          *)
PulseMissed(s) ==
  /\ s \in Suspects
  /\ ~crashed /\ running[s]
  /\ NS_Msg' = Text
  /\ \/ running' = [running EXCEPT ![s] = FALSE]
     \/ UNCHANGED running
  /\ UNCHANGED <<request, pc, local, directory, storage, crashed, faults>>

----------------------------------------------------------------------------
(* The answer is recorded in the directory: addAccessiblePath or           *)
(* deleteAccessiblePath, chosen by NS_Msg once more, reads the list of the *)
(* path.  A path that is not in it is not deleted.                         *)

\* A slip: the directory is changed whatever the answer was.
RecordAnswerUnchecked(t) ==
  /\ At(t, "record")
  /\ \/ Op(t) \in CopyOps \cup CreateOps /\ Goto(t, "insert") /\ ReadBucket(t)
     \/ Op(t) \in DeleteOps /\ table[Path(t)] # <<>> /\ Goto(t, "delete") /\ ReadBucket(t)
  /\ NoteMsg(t)
  /\ UNCHANGED <<request, NS_Msg, local, table, count, running, storage, crashed>>

\* A slip: the result of deletePathFromHashTable is not looked at.
RecordDeletionUnchecked(t) ==
  /\ At(t, "record")
  /\ answer[t] = "VALID"
  /\ \/ Op(t) \in CopyOps \cup CreateOps /\ Goto(t, "insert")
     \/ Op(t) \in DeleteOps /\ Goto(t, "delete")
  /\ ReadBucket(t)
  /\ NoteMsg(t)
  /\ UNCHANGED <<request, NS_Msg, local, table, count, running, storage, crashed>>

RecordAnswer(t) ==
  /\ At(t, "record")
  /\ answer[t] = "VALID"
  /\ \/ /\ Op(t) \in CopyOps \/ NS_Msg \in CreateOps
        /\ Goto(t, "insert")
        /\ ReadBucket(t)
     \/ /\ Op(t) \notin CopyOps /\ NS_Msg \in DeleteOps
        /\ IF table[Path(t)] = <<>>
             THEN Goto(t, "reply") /\ UNCHANGED <<seen, stale>>
             ELSE Goto(t, "delete") /\ ReadBucket(t)
  /\ faults' = faults
       \cup (IF NS_Msg # Op(t) /\ Op(t) \notin CopyOps THEN {"mixed"} ELSE {})
       \cup (IF Op(t) \in CopyOps THEN {"copied"} ELSE {})
       \cup (IF Op(t) \notin CopyOps /\ NS_Msg \in DeleteOps /\ table[Path(t)] = <<>>
               THEN {"crossed"} ELSE {})
  /\ UNCHANGED <<request, NS_Msg, local, table, count, running, storage, crashed>>

(* The write of the pointer.  The count is updated next, not under the     *)
(* server's lock.                                                          *)
addAccessiblePath(t) ==
  /\ At(t, "insert")
  /\ LET s == IF Op(t) \in CopyOps THEN target[t] ELSE server[t]
     IN  /\ insertIntoHashTable(t, s)
         /\ server' = [server EXCEPT ![t] = s]
  /\ WroteBucket(t)
  /\ delta' = [delta EXCEPT ![t] = 1]
  /\ Goto(t, "load")
  /\ faults' = faults \cup Tangle(t) \cup (IF table[Path(t)] # <<>> THEN {"doubled"} ELSE {})
  /\ UNCHANGED <<request, NS_Msg, target, sent, answer, loaded, count, running, storage,
                 crashed>>

deleteAccessiblePath(t) ==
  /\ At(t, "delete")
  /\ deletePathFromHashTable(t)
  /\ WroteBucket(t)
  /\ delta' = [delta EXCEPT ![t] = -1]
  /\ Goto(t, "load")
  /\ faults' = faults \cup Tangle(t)
       \cup (IF searchPathInHashTable(Path(t)) # server[t] THEN {"crossed"} ELSE {})
  /\ UNCHANGED <<request, NS_Msg, server, target, sent, answer, loaded, count, running,
                 storage, crashed>>

(* A thread follows a pointer to a node that another one has freed, or     *)
(* frees one again: anything may come of it, the end of the process too.   *)
FollowFreedNode(t) ==
  /\ ~crashed
  /\ \/ pc[t] = "delete" /\ t \in stale
     \/ pc[t] \in {"find", "findUnset", "lookup", "record", "locate"} /\ "tangled" \in faults
  /\ crashed' = TRUE
  /\ faults' = faults \cup {"tangled"}
  /\ UNCHANGED <<request, pc, NS_Msg, local, directory, running, storage>>

(* No change to the directory: the operation failed, or NS_Msg names none  *)
(* of the four operations by now.                                          *)
LeaveDirectory(t) ==
  /\ At(t, "record")
  /\ \/ answer[t] # "VALID" /\ UNCHANGED faults
     \/ /\ answer[t] = "VALID"
        /\ Op(t) \notin CopyOps /\ NS_Msg \notin CreateOps \cup DeleteOps
        /\ faults' = faults \cup {"mixed"}
  /\ Goto(t, "reply")
  /\ UNCHANGED <<request, NS_Msg, local, directory, running, storage, crashed>>

LoadCount(t) ==
  /\ At(t, "load")
  /\ loaded' = [loaded EXCEPT ![t] = count[server[t]]]
  /\ Goto(t, "store")
  /\ UNCHANGED <<request, NS_Msg, server, target, sent, answer, delta, directory,
                 running, storage, crashed, faults>>

StoreCount(t) ==
  /\ At(t, "store")
  /\ count' = [count EXCEPT ![server[t]] = loaded[t] + delta[t]]
  /\ delta' = [delta EXCEPT ![t] = 0]
  /\ faults' = IF count[server[t]] = loaded[t] THEN faults
                                               ELSE faults \cup {"raced"}
  /\ Goto(t, "reply")
  /\ UNCHANGED <<request, NS_Msg, server, target, sent, answer, loaded, table, seen, stale,
                 running, storage, crashed>>

(* A slip: the response goes out through NS_Msg. *)
SendResponseThroughMsg(t) ==
  /\ At(t, "reply")
  /\ NS_Msg' = answer[t]
  /\ Goto(t, "done")
  /\ UNCHANGED <<request, local, directory, running, storage, crashed, faults>>

(* The response goes to the client; a line for the log when it went out.   *)
SendResponse(t) ==
  /\ At(t, "reply")
  /\ NS_Msg' \in {NS_Msg, Text}
  /\ Goto(t, "done")
  /\ UNCHANGED <<request, local, directory, running, storage, crashed, faults>>

----------------------------------------------------------------------------
Handle(t) ==
  \/ ReceiveRequest(t) \/ AbortRequest(t) \/ StoreType(t)
  \/ LocatePath(t) \/ AppendPort(t)
  \/ ChooseServer(t) \/ FindServer(t) \/ FollowWildPointer(t) \/ LookupPaths(t)
  \/ Refused(t) \/ SendOperation(t) \/ SendPath(t) \/ OperationNotConfirmed(t)
  \/ ReceiveAnswer(t) \/ AnswerNotReceived(t)
  \/ RecordAnswer(t) \/ LeaveDirectory(t)
  \/ addAccessiblePath(t) \/ deleteAccessiblePath(t) \/ FollowFreedNode(t)
  \/ LoadCount(t) \/ StoreCount(t) \/ SendResponse(t)

StorageServer ==
  \/ \E t \in Threads : CarryOut(t) \/ CarryOutCopy(t) \/ ClientAdmitted(t) \/ ClientWrites(t)
  \/ \E s \in Servers : PulseMissed(s)

(* No request is left: the name server waits for the next, or is gone.     *)
Rest ==
  /\ crashed \/ \A t \in Threads : pc[t] = "done"
  /\ UNCHANGED vars

Next == (\E t \in Threads : Handle(t)) \/ StorageServer \/ Rest

Spec == Init /\ [][Next]_vars

(* Every wait of a thread is bounded by RECEIVE_THREAD_RUNNING_TIME, so    *)
(* each thread keeps taking steps.  Nothing is assumed of the storage      *)
(* servers.                                                                *)
FairSpec == Spec /\ \A t \in Threads : WF_vars(Handle(t))

----------------------------------------------------------------------------
(* Properties *)

TypeOK ==
  /\ request \in [Threads -> Requests]
  /\ pc \in [Threads -> Steps]
  /\ NS_Msg \in Msgs
  /\ server \in [Threads -> Servers \cup {NoServer}]
  /\ target \in [Threads -> Servers \cup {NoServer}]
  /\ sent \in [Threads -> Msgs]
  /\ work \in [Threads -> Codes \cup {"todo"}]
  /\ answer \in [Threads -> Codes \cup Servers]
  /\ loaded \in [Threads -> Int]
  /\ delta \in [Threads -> {-1, 0, 1}]
  /\ table \in [Paths -> Seq(Servers)]
  /\ seen \in [Threads -> [Paths -> Seq(Servers)]]
  /\ stale \subseteq Threads /\ writers \subseteq Threads
  /\ count \in [Servers -> Int]
  /\ running \in [Servers -> BOOLEAN]
  /\ disk \in [Servers -> [Paths -> Kinds]]
  /\ crashed \in BOOLEAN
  /\ faults \subseteq Faults

\* No storage server is ahead of the directory on this path: whatever one has
\* done to it has been recorded.
Settled(p) ==
  \A t \in Threads :
    Path(t) = p /\ work[t] \notin {"none", "todo"} => pc[t] \in {"load", "store", "reply", "done"}

\* The hash table names exactly the servers that hold the path, each of them
\* once, whenever no operation on the path is under way - unless a request
\* was carried out under another thread's operation number, an answer of a
\* storage server was lost, a directory operation reported what it did not
\* do, a path was created twice, a deletion was recorded before the creation
\* it undoes, a file was copied, two updates of one bucket crossed
\* (helper_functions.c:405, 416) or a client wrote to its file after it was
\* deleted (file.c:299).
DirectoryMatchesDisks ==
  faults \subseteq {"raced", "hungUp"} =>
    \A p \in Paths : Settled(p) =>
      /\ ToSet(table[p]) = Holders(disk, p)
      /\ Len(table[p]) = Cardinality(Holders(disk, p))

\* The counts add up to the number of entries, those in the middle of an
\* update aside, as long as no two updates of one count and no two updates of
\* one bucket crossed: whichever server's entry a delete takes out, and under
\* whichever operation number.
CountsAddUp ==
  faults \cap {"raced", "tangled"} = {} =>
    SumFunction(count) + SumFunction(delta) = SumFunction([p \in Paths |-> Len(table[p])])

\* MAX_NO_ACCESSIBLE_PATHS is tested when a server is chosen and the path is
\* counted much later: each request under way at that time can take a server
\* one path over the limit, the first of them none.  Only requests with
\* another thread's operation number and copies ask for no room at all.
LimitKeptButForRequestsUnderWay ==
  faults \cap {"mixed", "copied"} = {} =>
    \A s \in Servers : count[s] < MaxPaths + Cardinality(Threads)

\* What else a request may write to.
Touches(u, p) ==
  \/ Path(u) = p /\ Op(u) # "READ_FILE"
  \/ Op(u) = "COPY_FILES" /\ BaseName[Path(u)] = p

\* A client that was told its file was created or deleted, with no other
\* client changing that path, finds it so: the directory sends readers to the
\* server that created it, or no longer to the one that deleted it.  Lost
\* answers, unreported failures and entries the path had before do not spoil
\* this.  Another thread's operation number does, the update of another path in
\* the same bucket that crosses its own, and a client that is still writing.
AnswersAreVisible ==
  faults \cap {"mixed", "tangled", "revived"} = {} =>
    \A t \in Threads :
      /\ pc[t] = "done" /\ answer[t] = "VALID"
      /\ \A u \in Threads \ {t} : ~Touches(u, Path(t))
      =>
      /\ Op(t) = "CREATE_FILE" =>
           /\ searchPathInHashTable(Path(t)) = server[t]
           /\ disk[server[t]][Path(t)] = "file"
      /\ Op(t) = "DELETE_FILE" =>
           /\ server[t] \notin ToSet(table[Path(t)])
           /\ disk[server[t]][Path(t)] = "none"

\* A client that is sent to a storage server for a path, with no other client
\* changing that path, finds the path there, unless a log line or a port of
\* another thread in NS_Msg spoiled the address or updates of a bucket crossed.
ReadersFindTheirFile ==
  faults \cap {"mixed", "tangled"} = {} =>
    \A t \in Threads :
      /\ pc[t] = "done" /\ answer[t] \in Servers
      /\ \A u \in Threads \ {t} : ~Touches(u, Path(t))
      => disk[answer[t]][Path(t)] # "none"

\* Every request thread ends or the whole process does, with no help from the
\* storage servers or the client: nobody waits for ever on a silent peer.  (Once
\* two updates of a bucket have crossed its list may be a ring.)
EveryRequestEnds ==
  <>(crashed \/ "tangled" \in faults \/ \A t \in Threads : pc[t] = "done")

\* Every request can be answered with an error code; the name server outlives
\* every request a client can make, unless a client hangs up in the middle of it,
\* another one's operation number was used for it or a freed node was followed.
NameServerSurvives == crashed => faults \cap {"hungUp", "mixed", "tangled"} # {}

\* The operation a storage server is sent for a client is the one the client
\* asked for, however many clients are served at once.
SentAsAsked == \A t \in Threads : sent[t] \in {Text, Op(t)}
=============================================================================
