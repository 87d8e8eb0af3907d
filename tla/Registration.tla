---------------------------- MODULE Registration ----------------------------
(***************************************************************************)
(* How storage servers register: sendInfoToNamingServer on their side, the *)
(* accept loop handleStorageServerInitialization and its threads           *)
(* handleStorageServer on the name server's, up to the connection over     *)
(* which the pulses go (see Heartbeat).                                    *)
(*                                                                         *)
(* A message is the sequence of its tokens.  The threads take it apart     *)
(* with strtok, which keeps its place in one variable for all of them: a   *)
(* call of strtok is one step together with what the thread does with the  *)
(* token.  All paths hash to one bucket, whose list grows in two steps.    *)
(*                                                                         *)
(* count_accessible_path_lock is taken to be free in a new entry: nobody   *)
(* initializes it (name_server.c:136-158), and what a lock of arbitrary    *)
(* contents does is not modelled.                                          *)
(***************************************************************************)
EXTENDS Integers, Sequences, FiniteSets, SequencesExt

CONSTANTS
  Servers,       \* storage servers; each has its own port
  PathsFile,     \* the lines of a server's .paths_SS.txt
  MaxStarts,     \* bound: starts of each storage server
  MaxServers,    \* MAX_SERVERS
  MaxPaths,      \* MAX_NO_ACCESSIBLE_PATHS
  Nobody         \* no server, no connection

\* What strtok returns when there is no further token; no token is NULL.
NULL == "NULL"

ASSUME ServersAssumption ==
  /\ IsFiniteSet(Servers) /\ {Nobody, NULL} \cap Servers = {}
  /\ DOMAIN PathsFile = Servers /\ MaxStarts \in [Servers -> Nat]
ASSUME PathsAssumption ==
  \A s \in Servers : /\ PathsFile[s] \in Seq(ToSet(PathsFile[s]))
                     /\ NULL \notin ToSet(PathsFile[s])
ASSUME BoundsAssumption == {MaxServers, MaxPaths} \subseteq Nat \ {0}

\* The connection of the n-th start of a server.
Conns == UNION {[server : {s}, start : 1..MaxStarts[s]] : s \in Servers}
Slots == 1..MaxServers

VARIABLES
  pc,           \* where each storage server's main function stands
  start,        \* how often the server was started
  infoSent,     \* connections on which the information was sent
  queue,        \* connections the name server has not accepted yet
  acceptor,     \* the accept loop: running, holding ss_count_lock for good, stuck
  args, ss_count,
  handler,      \* where each handleStorageServer thread stands
  socket,       \* its copy of args: the connection
  buffer,       \* what it received
  strtokPlace,  \* whose buffer strtok goes on with, and at which token
  receivingInfo,
  server,       \* its StorageServerInfo
  seen,         \* table[hashValue] as it read it
  watched,      \* the server process it sends pulses to
  storageServerList,            \* the StorageServerInfos, oldest first
  table,        \* the bucket, newest first
  told,         \* the ss_id sent on a connection
  closed,       \* connections the name server has closed
  crashed,
  faults        \* history: the hazards that have struck so far

storage   == <<pc, start, infoSent>>
accepting == <<queue, acceptor, args, ss_count>>
local     == <<socket, buffer, receivingInfo, server, seen, watched>>
directory == <<storageServerList, table>>
replies   == <<told, closed>>
vars == <<storage, accepting, handler, local, strtokPlace, directory, replies, crashed, faults>>

\* strtok went on with another thread's buffer; a message was cut off; two
\* inserts crossed; a connection closed without a message; args overflowed.
\* The rest can be seen from the state.
Faults == {"crossed", "cut", "insertsCrossed", "hungUp", "overrun"}

ServerSteps  == {"down", "connected", "sent", "waiting", "running"}
HandlerSteps == {"none", "recv", "parse", "link", "connect", "watch", "ended"}

Message(s) == <<"INFO", s>> \o PathsFile[s] \o <<"COMPLETED">>

Init ==
  /\ pc = [s \in Servers |-> "down"]
  /\ start = [s \in Servers |-> 0]
  /\ infoSent = {}
  /\ queue = <<>>
  /\ acceptor = "accept"
  /\ args = [k \in Slots |-> Nobody]
  /\ ss_count = 0
  /\ handler = [k \in Slots |-> "none"]
  /\ socket = [k \in Slots |-> Nobody]
  /\ buffer = [k \in Slots |-> <<>>]
  /\ strtokPlace = [owner |-> 0, at |-> 1]
  /\ receivingInfo = [k \in Slots |-> 0]
  /\ server = [k \in Slots |-> 0]
  /\ seen = [k \in Slots |-> <<>>]
  /\ watched = [k \in Slots |-> Nobody]
  /\ storageServerList = <<>>
  /\ table = <<>>
  /\ told = [c \in Conns |-> 0]
  /\ closed = {}
  /\ crashed = FALSE
  /\ faults = {}

Current(s) == [server |-> s, start |-> start[s]]
Alive(c)   == c = Current(c.server) /\ pc[c.server] # "down"

----------------------------------------------------------------------------
(* A storage server: sendInfoToNamingServer.                               *)

ServerGoes(s, from, to) == pc[s] = from /\ pc' = [pc EXCEPT ![s] = to]

Connect(s) ==
  /\ ~crashed
  /\ start[s] < MaxStarts[s]
  /\ ServerGoes(s, "down", "connected")
  /\ start' = [start EXCEPT ![s] = @ + 1]
  /\ queue' = Append(queue, [server |-> s, start |-> start[s] + 1])
  /\ UNCHANGED <<infoSent, acceptor, args, ss_count, handler, local, strtokPlace,
                 directory, replies, crashed, faults>>

SendInfo(s) ==
  /\ ServerGoes(s, "connected", "sent")
  /\ infoSent' = infoSent \cup {Current(s)}
  /\ UNCHANGED <<start, accepting, handler, local, strtokPlace, directory, replies,
                 crashed, faults>>

(* Only now the port is opened that the information named, if it can be.   *)
OpenPort(s) ==
  /\ ServerGoes(s, "sent", "waiting") \/ ServerGoes(s, "sent", "down")
  /\ UNCHANGED <<start, infoSent, accepting, handler, local, strtokPlace, directory,
                 replies, crashed, faults>>

(* At the end of a closed connection recv returns 0: the server goes on    *)
(* with an ss_id made of whatever the buffer holds.                        *)
ReceiveId(s) ==
  /\ ServerGoes(s, "waiting", "running")
  /\ told[Current(s)] # 0 \/ Current(s) \in closed \/ crashed
  /\ UNCHANGED <<start, infoSent, accepting, handler, local, strtokPlace, directory,
                 replies, crashed, faults>>

(* The process ends: .paths_SS.txt is missing, a call fails, a signal.     *)
Stop(s) ==
  /\ pc[s] # "down" /\ ~crashed
  /\ pc' = [pc EXCEPT ![s] = "down"]
  /\ UNCHANGED <<start, infoSent, accepting, handler, local, strtokPlace, directory,
                 replies, crashed, faults>>

----------------------------------------------------------------------------
(* handleStorageServerInitialization.  The lock has no other taker.        *)

Take ==
  /\ ~crashed /\ queue # <<>>
  /\ queue' = Tail(queue)
  /\ UNCHANGED <<storage, local, strtokPlace, directory, replies>>

\* A slip: the argument of the last thread is used again.
AcceptIntoLast ==
  /\ Take
  /\ acceptor = "accept" /\ ss_count < MaxServers
  /\ args' = [k \in Slots |-> IF k \in {ss_count, ss_count + 1} THEN Head(queue) ELSE args[k]]
  /\ handler' = [handler EXCEPT ![ss_count + 1] = "recv"]
  /\ ss_count' = ss_count + 1
  /\ UNCHANGED <<acceptor, crashed, faults>>

Accept ==
  /\ Take
  /\ acceptor = "accept" /\ ss_count < MaxServers
  /\ args' = [args EXCEPT ![ss_count + 1] = Head(queue)]
  /\ handler' = [handler EXCEPT ![ss_count + 1] = "recv"]
  /\ ss_count' = ss_count + 1
  /\ UNCHANGED <<acceptor, crashed, faults>>

(* args and storageServerThreads are written beyond their ends: what comes *)
(* of it is not followed any further.                                      *)
AcceptBeyond ==
  /\ Take
  /\ acceptor = "accept" /\ ss_count = MaxServers
  /\ crashed' = TRUE
  /\ faults' = faults \cup {"overrun"}
  /\ UNCHANGED <<acceptor, args, ss_count, handler>>

(* pthread_create reports an error as a positive number, which the code    *)
(* does not take for one: it detaches a thread that does not exist, which  *)
(* fails, with the lock held, or crashes.                                  *)
AcceptWithoutThread ==
  /\ Take
  /\ acceptor = "accept" /\ ss_count < MaxServers
  /\ args' = [args EXCEPT ![ss_count + 1] = Head(queue)]
  /\ acceptor' = "locked"
  /\ crashed' \in BOOLEAN
  /\ UNCHANGED <<ss_count, handler, faults>>

AcceptLocked ==
  /\ Take
  /\ acceptor = "locked"
  /\ args' = [args EXCEPT ![ss_count + 1] = Head(queue)]
  /\ acceptor' = "stuck"
  /\ UNCHANGED <<ss_count, handler, crashed, faults>>

----------------------------------------------------------------------------
(* handleStorageServer                                                     *)

At(k, step) == handler[k] = step /\ ~crashed
Goto(k, step) == handler' = [handler EXCEPT ![k] = step]

(* One recv, then the first strtok, which finds the marker: the thread     *)
(* expects the address next.  The message may be cut off: recv             *)
(* takes BUFFER_LENGTH bytes, trim stops at the first blank; the marker    *)
(* and the address always fit.  An empty buffer has no token.  It is       *)
(* assumed that the first recv holds the marker and the address: TCP may   *)
(* split a message anywhere.                                               *)
ReceiveAtLeast(k, least) ==
  /\ At(k, "recv")
  /\ socket' = [socket EXCEPT ![k] = args[k]]
  /\ strtokPlace' = [owner |-> k, at |-> 2]
  /\ LET c == args[k]
         message == Message(c.server)
     IN  \/ /\ c \in infoSent
            /\ \E n \in least..Len(message) :
                 /\ buffer' = [buffer EXCEPT ![k] = SubSeq(message, 1, n)]
                 /\ faults' = IF n = Len(message) THEN faults ELSE faults \cup {"cut"}
            /\ receivingInfo' = [receivingInfo EXCEPT ![k] = 1]
            /\ Goto(k, "parse")
            /\ UNCHANGED closed
         \/ /\ c \notin infoSent /\ ~Alive(c)
            /\ Goto(k, "connect")
            /\ closed' = closed \cup {c}
            /\ faults' = faults \cup {"hungUp"}
            /\ UNCHANGED <<buffer, receivingInfo>>
  /\ UNCHANGED <<storage, accepting, server, seen, watched, directory, told, crashed>>

\* A slip: the buffer holds less than the address.
ReceiveShort(k) == ReceiveAtLeast(k, 1)

Receive(k) == ReceiveAtLeast(k, 2)

(* recv fails on a connection that was reset; it is not closed.            *)
ReceiveFails(k) ==
  /\ At(k, "recv")
  /\ ~Alive(args[k])
  /\ Goto(k, "ended")
  /\ UNCHANGED <<storage, accepting, local, strtokPlace, directory, replies, crashed, faults>>

\* What strtok(NULL) finds: the next token of the buffer it was last called
\* for.  That of a thread that sends pulses is zeroed; that of an ended thread
\* may be anything, here what it was or zero.
Tokens ==
  LET o == strtokPlace.owner
  IN  IF strtokPlace.at > Len(buffer[o]) \/ handler[o] = "watch" THEN {NULL}
      ELSE {buffer[o][strtokPlace.at]} \cup (IF handler[o] = "ended" THEN {NULL} ELSE {})

Entry(address) == [server  |-> IF address \in Servers THEN address ELSE Nobody,
                   paths   |-> <<>>,
                   running |-> TRUE]

\* A slip: the ss_id is the count of servers when it is sent.
EndOfInfoLate(k, token) ==
  /\ token = NULL \/ (token = "COMPLETED" /\ receivingInfo[k] = 2)
  /\ told' = IF token = NULL THEN told ELSE [told EXCEPT ![socket[k]] = ss_count]
  /\ closed' = closed \cup {socket[k]}
  /\ Goto(k, "connect")
  /\ UNCHANGED <<receivingInfo, server, seen, directory>>

(* No token, or COMPLETED: the thread closes the connection.               *)
EndOfInfo(k, token) ==
  /\ token = NULL \/ (token = "COMPLETED" /\ receivingInfo[k] = 2)
  /\ told' = IF token = NULL THEN told ELSE [told EXCEPT ![socket[k]] = k]
  /\ closed' = closed \cup {socket[k]}
  /\ Goto(k, "connect")
  /\ UNCHANGED <<receivingInfo, server, seen, directory>>

(* addStorageServerInfo, with the port that sscanf found or, in a token    *)
(* that is no address, an arbitrary one.                                   *)
AddServer(k, token) ==
  /\ token # NULL /\ receivingInfo[k] = 1
  /\ storageServerList' = Append(storageServerList, Entry(token))
  /\ server' = [server EXCEPT ![k] = Len(storageServerList) + 1]
  /\ receivingInfo' = [receivingInfo EXCEPT ![k] = 2]
  /\ UNCHANGED <<handler, seen, table, replies>>

\* A slip: MAX_NO_ACCESSIBLE_PATHS is not looked at.
AddPathUnlimited(k, token) ==
  /\ token \notin {NULL, "COMPLETED"} /\ receivingInfo[k] = 2
  /\ storageServerList' = [storageServerList EXCEPT ![server[k]].paths = Append(@, token)]
  /\ seen' = [seen EXCEPT ![k] = table]
  /\ Goto(k, "link")
  /\ UNCHANGED <<receivingInfo, server, table, replies>>

\* A slip: the path is entered in the list only.
AddPathUnhashed(k, token) ==
  /\ token \notin {NULL, "COMPLETED"} /\ receivingInfo[k] = 2
  /\ LET e == storageServerList[server[k]]
     IN  IF Len(e.paths) < MaxPaths
           THEN storageServerList' = [storageServerList EXCEPT
                  ![server[k]].paths = Append(@, token)]
           ELSE UNCHANGED storageServerList
  /\ UNCHANGED <<handler, receivingInfo, server, seen, table, replies>>

(* Paths beyond the limit are dropped.  The lock is one of the server's    *)
(* own: insertIntoHashTable reads the head of the bucket without it.       *)
AddPath(k, token) ==
  /\ token \notin {NULL, "COMPLETED"} /\ receivingInfo[k] = 2
  /\ LET e == storageServerList[server[k]]
     IN  IF Len(e.paths) < MaxPaths
           THEN /\ storageServerList' = [storageServerList EXCEPT
                     ![server[k]].paths = Append(@, token)]
                /\ seen' = [seen EXCEPT ![k] = table]
                /\ Goto(k, "link")
           ELSE UNCHANGED <<storageServerList, seen, handler>>
  /\ UNCHANGED <<receivingInfo, server, table, replies>>

NextToken(k) ==
  /\ At(k, "parse")
  /\ \E token \in Tokens :
       /\ strtokPlace' = IF token = NULL THEN strtokPlace ELSE [strtokPlace EXCEPT !.at = @ + 1]
       /\ \/ EndOfInfo(k, token) \/ AddServer(k, token) \/ AddPath(k, token)
  /\ crashed' \in {FALSE, handler[strtokPlace.owner] = "ended"}
  /\ faults' = IF strtokPlace.owner = k THEN faults ELSE faults \cup {"crossed"}
  /\ UNCHANGED <<storage, accepting, socket, buffer, watched>>

(* The new node becomes the head of the bucket.                            *)
LinkNode(k) ==
  /\ At(k, "link")
  /\ table' = <<[path |-> Last(storageServerList[server[k]].paths), server |-> server[k]]>>
              \o seen[k]
  /\ faults' = IF table = seen[k] THEN faults ELSE faults \cup {"insertsCrossed"}
  /\ Goto(k, "parse")
  /\ seen' = [seen EXCEPT ![k] = <<>>]
  /\ UNCHANGED <<storage, accepting, socket, buffer, receivingInfo, server, watched,
                 strtokPlace, storageServerList, replies, crashed>>

(* initConnectionToStorageServer follows a null pointer if no server was   *)
(* named, and gives up a port that is not open.                            *)
InitConnection(k) ==
  /\ At(k, "connect")
  /\ \/ /\ server[k] = 0
        /\ crashed' = TRUE
        /\ UNCHANGED <<handler, watched, storageServerList>>
     \/ /\ server[k] # 0
        /\ LET s == storageServerList[server[k]].server
           IN  IF s # Nobody /\ pc[s] \in {"waiting", "running"}
                 THEN /\ Goto(k, "watch")
                      /\ watched' = [watched EXCEPT ![k] = Current(s)]
                      /\ storageServerList' =
                           [storageServerList EXCEPT ![server[k]].running = TRUE]
                 ELSE /\ Goto(k, "ended")
                      /\ UNCHANGED <<watched, storageServerList>>
        /\ UNCHANGED crashed
  /\ UNCHANGED <<storage, accepting, socket, buffer, receivingInfo, server, seen,
                 strtokPlace, table, replies, faults>>

\* A slip: the thread ends and leaves the server marked as running.
NoticeDownUncleared(k) ==
  /\ At(k, "watch")
  /\ ~Alive(watched[k])
  /\ Goto(k, "ended")
  /\ UNCHANGED <<storage, accepting, local, strtokPlace, directory, replies, crashed, faults>>

(* The pulses of a process that is gone stop.                              *)
NoticeDown(k) ==
  /\ At(k, "watch")
  /\ ~Alive(watched[k])
  /\ storageServerList' = [storageServerList EXCEPT ![server[k]].running = FALSE]
  /\ Goto(k, "ended")
  /\ UNCHANGED <<storage, accepting, local, strtokPlace, table, replies, crashed, faults>>

----------------------------------------------------------------------------
Register(s) == SendInfo(s) \/ OpenPort(s) \/ ReceiveId(s)

Acceptor == Accept \/ AcceptBeyond \/ AcceptWithoutThread \/ AcceptLocked

Handler(k) ==
  \/ Receive(k) \/ ReceiveFails(k) \/ NextToken(k) \/ LinkNode(k)
  \/ InitConnection(k) \/ NoticeDown(k)

(* Nothing happens until the next server is started. *)
Rest == UNCHANGED vars

Next ==
  \/ \E s \in Servers : Connect(s) \/ Register(s) \/ Stop(s)
  \/ Acceptor
  \/ \E k \in Slots : Handler(k)
  \/ Rest

Spec == Init /\ [][Next]_vars

(* Whatever can go on goes on.  No thread takes infinitely many steps, so  *)
(* that none waits for ever while it could run.                            *)
FairSpec ==
  Spec /\ WF_vars(\/ \E s \in Servers : Register(s)
                  \/ Acceptor
                  \/ \E k \in Slots : Handler(k))

----------------------------------------------------------------------------
(* Properties *)

PathNames == Servers \cup UNION {ToSet(PathsFile[s]) : s \in Servers}
Numbers   == 0..MaxServers
Bucket    == Seq([path : PathNames, server : Slots])

TypeOK ==
  /\ pc \in [Servers -> ServerSteps] /\ \A s \in Servers : start[s] \in 0..MaxStarts[s]
  /\ infoSent \subseteq Conns /\ closed \subseteq Conns /\ told \in [Conns -> Numbers]
  /\ queue \in Seq(Conns) /\ acceptor \in {"accept", "locked", "stuck"}
  /\ args \in [Slots -> Conns \cup {Nobody}] /\ ss_count \in Numbers
  /\ handler \in [Slots -> HandlerSteps] /\ socket \in [Slots -> Conns \cup {Nobody}]
  /\ strtokPlace.owner \in Numbers /\ strtokPlace.at \in Nat
  /\ receivingInfo \in [Slots -> 0..2]
  /\ server \in [Slots -> 0..Len(storageServerList)]
  /\ Len(storageServerList) <= MaxServers
  /\ \A e \in DOMAIN storageServerList :
       /\ storageServerList[e].server \in Servers \cup {Nobody}
       /\ storageServerList[e].paths \in Seq(PathNames)
       /\ Len(storageServerList[e].paths) <= MaxPaths
  /\ table \in Bucket /\ seen \in [Slots -> Bucket]
  /\ watched \in [Slots -> Conns \cup {Nobody}]
  /\ crashed \in BOOLEAN /\ faults \subseteq Faults

Kept(paths) == SubSeq(paths, 1, IF Len(paths) < MaxPaths THEN Len(paths) ELSE MaxPaths)

\* A storage server that was sent an ss_id is in the list with the paths of its
\* file, as many as there is room for, and the hash table leads from each of
\* them to it - unless one of them is the end mark itself (a file may have that
\* name), or strtok went over from one thread's buffer to another's,
\* a message was cut off, or two inserts into the bucket crossed.  However the
\* registrations overlap, whoever stops or starts again, whatever is refused.
RegisteredInFull ==
  faults \cap {"crossed", "cut", "insertsCrossed"} = {} =>
    \A c \in Conns : told[c] # 0 /\ "COMPLETED" \notin ToSet(PathsFile[c.server]) =>
      \E e \in DOMAIN storageServerList :
        /\ storageServerList[e].server = c.server
        /\ storageServerList[e].paths = Kept(PathsFile[c.server])
        /\ \A p \in ToSet(storageServerList[e].paths) :
             [path |-> p, server |-> e] \in ToSet(table)

\* No two registrations are sent the same ss_id, and no server is sent one
\* before it has told who it is, even if the parsing threads are confused.
IdsAreUnique ==
  \A c, d \in Conns :
    told[c] # 0 => c \in infoSent /\ (told[c] = told[d] => c = d)

\* The name server survives every order of registrations and stops, unless a
\* server went before it sent its information, strtok mixed the buffers up, a
\* thread could not be created or there were more than MAX_SERVERS of them.
SurvivesRegistrations ==
  crashed => faults \cap {"hungUp", "crossed", "overrun"} # {} \/ acceptor # "accept"

\* No storage server waits for ever for its ss_id, also if its message was cut
\* off or confused with another's: it gets one, or the end of the connection.
\* Only a thread that could not be created leaves it and all later ones waiting.
NobodyWaitsForId ==
  <>[](\/ \A s \in Servers : pc[s] \in {"down", "running"}
       \/ acceptor # "accept")

Stale(e) ==
  /\ e \in DOMAIN storageServerList
  /\ storageServerList[e].running
  /\ storageServerList[e].server # Nobody /\ pc[storageServerList[e].server] = "down"

\* The thread of an entry whose connection for the pulses was refused.
Unwatched(e) == \E k \in Slots : server[k] = e /\ handler[k] = "ended" /\ watched[k] = Nobody

\* An entry whose server is gone does not stay marked as running, unless the
\* connection for the pulses was refused: then no thread is left to notice.
DeadServersAreNoticed ==
  <>[](\/ \A e \in Slots : Stale(e) => Unwatched(e)
       \/ crashed \/ "crossed" \in faults)
=============================================================================
