# Verification of the Network File System

TLA+ modules, TLC configurations and TLAPS proofs about the file system in
`src/`: a name server, storage servers and clients, three C programs that talk
over TCP and use one thread per request.

| file | what it is |
|---|---|
| `RWLock.tla` | abstract specification: what the lock of a stored file promises |
| `FileLock.tla` | the lock of one File struct and the request threads that use it |
| `FileLock_proofs.tla` | its theorems, proved for any finite number of threads |
| `FileTable.tla` | the list of File structs of a storage server against its disk |
| `FileTable_proofs.tla` | its safety, proved for any finite number of threads |
| `NameServer.tla` | the request threads of the name server over its directory |
| `NameServer_proofs.tla` | its safety, proved for any finite sets of threads, servers and paths |
| `SumLemmas.tla` | lemmas about sums over finite sets, for the counts |
| `Delivery.tla` | abstract specification: what a file transfer promises |
| `FileTransfer.tla` | one transfer of a file between two processes, over byte streams |
| `FileTransfer_proofs.tla` | its safety and its refinement of `Delivery`, proved for files of any size |
| `Registration.tla` | storage servers registering with the name server, and being missed |
| `Registration_proofs.tla` | its safety, proved for any number of servers, starts and paths |
| `Heartbeat.tla` | the pulses between the name server and one storage server, in time |
| `Heartbeat_proofs.tla` | its safety, proved for any times (within `DriftAssumption` for live sides) |
| `AcceptLoops.tla` | the loops that accept connections and start a thread for each |
| `AcceptLoops_proofs.tla` | its safety, proved for any connections and any number of descriptors |
| `MC*.tla`, `MC*.cfg` | the instances that TLC checks |
| `PROJECT.json` | components, runs, source lines of every definition, hazards, findings, theorems |

## 1. The system

### Components

**Name server** (`name_server.c`). State: the hash table from paths to storage
servers (`helper_functions.c:390-454`), the list of `StorageServerInfo` with
`count_accessible_paths` and `running`, `ss_count`, and the buffer `NS_Msg`.
Threads: one accepts storage servers, one accepts clients; one per storage
server (registration, then heartbeat), one per client request.
*Correct when* the directory names the servers that hold a path, the counts
follow the table, an answer tells the client what happened, a request is carried
out as it was asked, and the server outlives every request.

**Directory operations of the handlers** (`createDeletionHandler`,
`copyHandler`, `returnSS_IP_PORT`, `minAccessiblePathSS`, `addAccessiblePath`,
`deleteAccessiblePath`). They choose a storage server, talk to it, and record
its answer in the directory.

**Registration and heartbeat** (`name_server.c:136-355`,
`storage_server.c:119-245`). A storage server sends its addresses and paths,
gets an id, and is then expected to send `SS` every few seconds; six misses set
`running` to 0 for good. *Correct when* paths are listed under their own server,
a dead server is noticed and a live one is left alone.

**Storage server, file table** (`file.c:8-184`, `storage_server.c:37-114`).
State: the singly linked list `fileHead`/`fileTail` of File structs, and the
disk. Operations: `addFile`, `removeFile`, `createFile`, `deleteFile`, and the
lookups. *Correct when* the list holds the existing files once each and no walk
leaves allocated memory.

**Storage server, file lock** (`file.c:27-102`, `173-184`). State: `read_write`,
`reader_count` and two mutexes per File struct. Operations: `validateFilePath`
takes the lock, `decreaseReaderCount` and `openWriteLock` give it back.
*Correct when* nobody reads while somebody writes, and every lock is given back.

**Storage server, directories** (`directory.c`). `createDirectory` and
`deleteDirectory` work in a child process, and report only whether it exited.

**File transfer** (`file.c:287-417`, `client.c:150-265`). Chunks, each confirmed,
ended by a message that contains `COMPLETE`. *Correct when* the receiver ends with
the content, or knows that it did not, and both sides end.

**Messaging helpers** (`helper_functions.c:87-274`, `378-386`). `nonBlockingRecv`
starts a thread for one `recv` and cancels it after `RECEIVE_THREAD_RUNNING_TIME`;
`sendData` sends from a forked child. There is no framing: two messages sent in
a row can be received as one.

**Accept loops** (`name_server.c:485-514`, `storage_server.c:250-274`,
`356-384`). Each passes the address of its own local socket to a new thread.
*Correct when* each connection has a thread of its own that closes it, and nobody
takes the connection for the pulses.

**LRU cache** (`name_server.c:45-124`, `lru_implementation.c`). Its only caller,
`searchStorageServer`, is never called, and the second file is not built.

**Client** (`client.c`). One request at a time: asks the name server, and for
read, write and metadata goes on to the storage server it was given.

### How they interact

- client -> name server: operation number, path, confirmation; the answer is an
  error code or an address.
- name server -> storage server: operation number, path (both confirmed), then
  the storage server's answer. The directory changes after that answer.
- client -> storage server: operation number, path; the path is answered after
  the lock was taken; transfer; release.
- storage server -> storage server: a copy is an upload to the other server's
  client port.
- threads of one process share `NS_Msg`, the hash table, the list of servers and
  the list of File structs. Only `ss_count`, the head of the server list, the
  count of a server (on some paths) and the two fields of a File struct have a
  mutex.
- name server <-> storage server: after the registration the name server connects
  once more, for the pulses both sides send.

### What is hard

Threads that share unguarded state (`NS_Msg`, both lists, the hash table, the
counts); state read before a conversation with a peer and used after it; answers
that are lost, late or glued to the message before; a lock taken before a reply
that may fail; structs freed while another thread holds a pointer; a restart
that knows only the files of the first start; servers at their path limit;
`strtok`, one place for all threads; two threads that accept on one socket;
pulses that arrive glued together; `fork` in a process with open stdio streams.
Every hazard is listed with its line in `PROJECT.json`, with the properties that
watch it.

## 2. The modules

### FileLock and RWLock

A member of `Sessions` is one thread of `handleClientRequest` that names this
file, from the operation number to its end. `pc` follows `receive_ValidateFilePath`,
`validateFilePath`, the reply, the transfer, and the release. Each mutex
operation is a step (`LockToValidate`, `LockToCount`, `LockToRelease`,
`LockToUncount`); what a thread does under `read_write_lock` up to its next mutex
operation is one step, since no other thread can see it in between. Unlocking is
the end of the step before it. `PathNotReceived` and `LoseReply` are the two
exchanges that can fail; after `LoseReply` the thread is `abandoned`: it ends
without giving the lock back, as `storage_server.c:455-458` does. `overlapped` is
a history variable, set when a second writer is admitted.

`RWLock` is the lock that the two error codes "already reading" and "already
writing" suggest: any number of readers or one writer. `FileLock!RW` maps the
sessions that passed the check and have not released onto its `readers` and
`writers`; an abandoned session still holds the lock.

### FileTable

Nodes are addresses: `free` returns one and `malloc` may return it again at once,
contents and all. `fileHead`, `fileTail`, `next` and the lock fields are the
fields of the code. Threads create (`CheckCreate`, `OpenNewFile`, `Allocate`,
`CheckHead`, `SetHead` or `LinkTail`, `SetTail`), delete (`CheckDelete`,
`RemoveFromDisk`, `removeFile`, `UnlinkNode`), and read or write (`FindFile`,
`Admit`, `UploadFile` or `DownloadFile`, `Release`). The finding of a node and the
taking of its lock are separate steps, as are the test of `fileHead` and the
assignments to it and to `fileTail`. `StoreCopy` is the branch for `COPY_FILES`
(`storage_server.c:421-428`), which stores a file with no look at the list or the
locks. `Restart` starts the process again from `.paths_SS.txt`.

No lock guards a removal: `removeFile` finds the node (`ptr2`), the one before it
(`node`) and the one after it (`after`), and `UnlinkNode` writes to the list with
what was found. In between another thread may have unlinked or freed one of the two
nodes, or appended to one; the removal is `stale` then, may use what it has read or
read it again, may free a node twice or follow a null pointer (`UnlinkFreedNode`),
and the fault `crossed` is noted once it goes on. The finding itself is one step, and so
is every other walk over the list; `walk` is the sequence of nodes it visits. That a walk
stands on a node in the moment another thread frees it is not modelled, and no property
speaks of it.

A path counts as `doubled` when a thread creates a file that is on the disk already
(`OpenNewFile`), since both threads will list it. `crashed` is the end of the
process: `fileTail->next` through a null `fileTail`, a removal that crossed another
one, SIGPIPE from a client that hung up, or `fclose(NULL)` in `UploadFile`. The last
happens to a file that is gone from the disk, and also to one that is there and cannot be
opened, for want of a descriptor or a permission (the fault `unopened`).

### NameServer

A member of `Threads` is one thread of `handleClientRequests` with the request of its
client. `NS_Msg` holds an operation number, a server's port or a line of text, and every
handler that is handed `NS_Msg` as its `type` reads the variable again at each use, as
the C code does through the pointer. The count's `++` and `--` are a load and a store. A
pass of `minAccessiblePathSS` over the list is a step. `server` may be uninitialized
(`findUnset`): it is then any server, the null pointer, or an address that ends the
process.

A bucket is a list that no lock guards, and several paths share it (`Bucket`).
`table[p]` is what can be told of it, the entries of a path, newest first. An insert
and a delete read the list in one step (`RecordAnswer`, with `ReadBucket`) and write a
pointer into it in another (`addAccessiblePath`, `deleteAccessiblePath`,
`WroteBucket`), as in `helper_functions.c:405-406` and `416-430`. When another thread has
written to the bucket in between, the thread is `stale`: its pointer leads to the list as
it was read, and behind it to what is there now, so that each path of the bucket has its
entries of now or those of then (`Found`). Entries of other threads get lost, deleted ones
come back, and a pointer written into a freed node changes nothing. The fault is
`tangled`; from then on, a search may follow a pointer to a freed node, which may
end the process (`FollowFreedNode`). A search is one step: that one stands on a node in the
moment another thread frees it is not modelled. After a tangle the list may even be a
ring, on which a search does not end; `EveryRequestEnds` leaves such histories out.

Three of the faults need a word. `unreported` is an answer `VALID` of a storage server
whose disk did not change. `crossed` is a delete that takes out the entry of another
server than the one that carried it out, as it does after a create or a copy of the
same path was recorded in between (`deleteAccessiblePath`). `revived` is a write of
a client that was admitted to a file before it was deleted: `DownloadFile` creates it
again (`ClientAdmitted`, `ClientWrites`).

The storage servers are part of the module as far as the directory depends on
them: `CarryOut` and `CarryOutCopy` do the work with the operation number that was
received, at any time after the path was sent, also after the name server gave up
waiting. `PulseMissed` is the heartbeat thread of a suspected server. A client that
hangs up while its request is received can end the name server with SIGPIPE
(`AbortRequest`, the fault `hungUp`).

### FileTransfer and Delivery

One transfer, between `UploadFile` or `writeToFile` (`sender`) and `DownloadFile`
(`receiver`, for a reader with the wait of `readFile` before it). A file is the
sequence of its pieces: the lines `fgets` returns, or the chunks of `writeToFile`.
`toReceiver` and `toSender` are the two directions of the connection. There is no
framing: a receive takes any number of the items that are there, and compares them
as one string, so that two confirmations at once are no confirmation and a piece
in one receive with `COMPLETE` is not written. It is assumed that no receive takes a part
of an item: TCP may split a message, and the one `recv` of `helper_functions.c:95` has
nothing to put it together again. `Junk` is what `strlen` finds behind
a chunk that was copied without its terminating zero (`client.c:239`).

The receiver confirms a piece (`ReceivePieces`), writes it (`WritePieces`) and closes the
file (`CloseFile`) in steps of their own, between which its process may end
(`ReceiverStops`). `fprintf` and `fclose` may fail on a full disk (`WriteFails`, `Flush`),
the first noticed, the second not. A chunk of a write fills `buffer[BUFFER_LENGTH]` of
`DownloadFile` to the last byte and leaves no room for a terminating zero, so that
`%s` goes on into what lies behind it: `overrun`, which may happen at each such write,
adds `Junk` to the file (`file.c:289`, `324`). Lines that `fgets` read are shorter by
one. `strstr` searches those bytes too; that it finds the word `COMPLETE` there is not
modelled.

`sendData` forks, and the child ends in `exit()`, which cleans up the stdio streams
it shares with the parent. For a file open for reading this moves the offset back
over what is buffered and unread (`AfterChild`); for one open for writing it writes
out what is buffered, and the parent will do so again. The stream of the reader is
`offset` and the buffered part `pos`..`end`; that of the writer is `buffered` and
`disk`. `ForkAtSender` and `ForkAtReceiver` are the other threads of a storage
server that send something meanwhile. A timeout is an action that is always
possible; `ReceivePieces` with nothing left is the end of a closed connection,
which `recv` reports as a successful receive of nothing. `killed` is SIGPIPE from a
confirmation sent to a closed connection for the second time.

`Delivery` says that pieces come in order, perhaps again, and that the end comes
after the last one. `FileTransfer` implements it as long as no junk was sent (`junk`)
or written (`overrun`), no piece contained `COMPLETE` (`marker`) and none was glued to it
(`glued`); a piece counts as delivered when `fprintf` has written it.

### Registration

`pc` is where `sendInfoToNamingServer` stands in each storage server; `Conns` are
its connections, one per start. `acceptor`, `args` and `ss_count` are
`handleStorageServerInitialization`; the k-th thread it starts is `handler[k]`, with
`handleStorageServer` from its receive to the connection for the pulses, after which
it only waits for its server to disappear (`NoticeDown`; see Heartbeat). A message is
the sequence of its tokens; `strtokPlace` is the one place `strtok` keeps, and a call
of it is a step together with what the thread does with the token, so that a
thread may be handed the tokens of another one's buffer, or of the buffer of a
thread that has ended. `AddPath` takes a path into the list and reads the head of
the bucket (`seen`), `LinkNode` writes it: all paths are in one bucket. A path that is
named `COMPLETED` ends the message (`name_server.c:229`), so that the paths after it
are lost; `RegisteredInFull` leaves such servers out. The first `recv` of a thread is taken
to hold at least the marker and the address, if anything. `count_accessible_path_lock` is
taken to be free in a new entry: nobody initializes it (`name_server.c:136-158`), and
what a lock of arbitrary contents does is not modelled. Storage
servers may stop between any two steps and start again, and a call that fails
stops them.

### AcceptLoops

`loop` picks one of the three loops. `newSocket` is its local variable, whose address
each thread is given; `open` is what is behind each descriptor, and `accept` returns
the lowest that is free. It fails when none is free, or when the connection was broken
off while it waited; the -1 it returns is in the variable then, before the loop goes
round, and a thread that had not read its socket yet finds it there (`AcceptFails`, the
fault `emptied`). With a descriptor instead of the -1 the fault is `overtaken`. `pc` and
`socket` are the threads, named by the connection they were started for; `pulsePc` is
`NameServerPulseHandler`, which accepts on the same socket as
`NameServerThreadHandler`, and gives up when that fails (`AcceptPulseFails`). What a
thread does with its request is in the other modules.

### Heartbeat

Both sides run the same loop: a period in which one receive may return (`window`),
one's own pulse, a `sleep`. `Tick` lets a second pass for both. The period is
measured in processor time, so it takes any of `Windows`. `pending` is what the
stream holds: one pulse is received as a pulse, two as something else. A side may
end, be suspended, or give up; what it has read, what is on its way and what is lost
when a connection is reset decides how soon the other one gives up. `Round` is the
longest period and the sleep. `DriftAssumption` says how far the periods may differ:
`(2 * Limit - 3) * (Shortest + Sleep) > (Limit - 1) * Round`. It is what keeps a side
from reading two pulses in each of `Limit - 1` rounds, and tight on the instances
tried: where it just fails, TLC finds a live side given up. With the sleep and limit
of `params.h` and periods of 2 to 6 seconds it is `54 > 50`; at 7 seconds `54 > 55`
fails.

In all these modules but Heartbeat `faults` is a history variable: the set of hazards
that have struck. The invariants say what holds as long as certain hazards have not
struck, so that each of them names exactly what can break it. The definitions marked
"a slip" are not part of any `Next`: each is a plausible mistake in the action it
resembles, and with it in place of that action a property fails.

## 3. The runs

| run | asks | bounds | states |
|---|---|---|---|
| `file_lock` | type, `CountCoversReaders`, `FieldsMatchHolders`, `ImplementsRWLock`, `EveryThreadEnds` | 4 threads, all mixes of operations | 460 thousand |
| `file_lock_mixed` | does a reader ever read beside a writer? It does. | the same | |
| `file_table` | type, `WalksEnd`, `ListMatchesDisk`, `ReadersCounted`, `SurvivesWithoutDeletions` | 3 threads, 165 choices of 3 out of 9 requests, up to 2 files at the start, 1 restart, 5 nodes | 461 thousand |
| `file_table_created` | is every file that was reported as created in the list? Not after the last one was deleted. | the same | |
| `name_server` | type, `DirectoryMatchesDisks`, `CountsAddUp`, `AnswersAreVisible`, `ReadersFindTheirFile`, `LimitKeptButForRequestsUnderWay`, `EveryRequestEnds` | 2 clients, 22 pairs of 8 requests, 2 servers, 2 paths in one bucket, limit of 2 paths, 1 suspected server | 921 thousand |
| `name_server_unknown` | does the name server outlive every request? Not one for an unknown path. | 2 readers of one path | |
| `name_server_shared` | is the operation sent the operation asked for? Not with two clients. | as `name_server` | |
| `file_transfer` | type, `SentIsStored`, `BrokenOffIsPrefix`, `KilledByLeaver`, `ImplementsDelivery`, `EveryWriteEnds` | files of 0 to 3 pieces, 2 to a stdio buffer, 6 pieces sent, 1 fork of another thread | 472 thousand |
| `file_transfer_read` | does a client that was told so hold the file? Not if it has two lines. | up to 3 pieces, 2 to a buffer | |
| `registration` | type, `RegisteredInFull`, `IdsAreUnique`, `SurvivesRegistrations`, `NobodyWaitsForId`, `DeadServersAreNoticed` | 2 storage servers, one started twice, room for 2 and for 1 path each | 1.55 million |
| `accept_loops` | type, `OwnAnswers`, `DescriptorsOwned`, `PulseKept`, `EveryClientReleased` | 3 requests and the pulses, 2 descriptors, each loop | 925 thousand |
| `heartbeat` | type, `LiveSidesKept`, `GivenUpInTime` | periods of 1 to 6 seconds, 4 of sleep, 6 pulses missed | 486 thousand |

What the passing runs show:

- *file_lock*. The counter never undercounts its readers, even with overlapping
  writers and lost replies. As long as writers do not overlap, the two fields say
  exactly who holds the file and the code is a readers-writer lock; no mutex is
  left locked and no thread waits for ever.
- *file_table*. However creations, deletions, copies and sessions interleave, and although
  a freed node may come back as a new one under `fileTail`, the list does not become cyclic
  and does not lead into freed memory, until a removal crosses another one, or an append,
  at the nodes it has read. The list and the disk part only through eight named
  events (a file at the head deleted, the last one deleted, a removal that crossed
  something next to it, a path created twice, two appends crossing, a write that revives
  a deleted file, a copy stored, a restart that has forgotten files). A reader can only be
  missing from the count when its node was freed under it, or lost by crossing appends or a
  crossing removal. Without deletions, crossing appends, clients that close while they are
  sent a confirmation and files that cannot be opened the server does not crash.
- *name_server*. The directory and the disks part only through a mixed-up
  operation number, a lost answer, an unreported failure, a path created twice, a
  delete of another server's entry, a copy, two crossing updates of one bucket, or a write
  to a deleted file. The counts add up to the table unless two updates of one count or of
  one bucket cross. A client that was told its file exists, or is gone,
  finds it so unless another thread's operation number was used, an update of its bucket
  crossed its own, or a client was still writing. A server is filled
  beyond its limit only by requests that were under way together. Every request ends,
  without help from the storage servers or the client, as long as no bucket is tangled. A
  client that is sent to a storage server finds its path there, unless another thread's
  text or port was in `NS_Msg` or the bucket was tangled.
- *file_transfer*. As long as four named hazards do not strike, no piece is left
  out or early. A copy or a write that was reported as sent is stored, unless one of these
  strikes, the offset moves back, a child writes out a buffer too, the disk is full or the
  receiver's process ends between a confirmation and the write. A transfer that breaks off
  leaves a prefix, on a full disk and in a process that ends too. Confirmations that come
  late or doubled do no harm. A write ends on both sides; a read may not, since lines are
  sent again.
- *registration*. A server that was told an id is in the list and in the bucket
  with all its paths, unless `strtok` went over to another buffer, the message was
  cut off, or two inserts crossed. Ids are unique even then, and no server waits for
  ever for one unless a thread could not be created. An entry whose server is gone is
  marked so, unless the connection for its pulses was refused.
- *accept_loops*. As long as `accept` returns, with a descriptor or -1, only after the last
  thread has read the loop's variable, every client is answered by its own thread, every
  descriptor has one thread to close it, and all are closed in the end, also when there
  were none left on the way. Descriptors leak only from threads that found no request or
  were never created.
- *heartbeat*. Loops that drift against each other do not give up a live side, as long
  as no period is shorter than 2 seconds or longer than 6: two pulses read as one
  count as missed, but not six times in a row. With a period of 7 seconds beside one
  of 2 the slow side may read two pulses in every round and does give up. A side that is
  gone is given up within five rounds (half of the limit, rounded up, and two), one
  that is suspended within eight (the limit and two).

Why the bounds are enough. Four sessions allow two overlapping writers, a reader
between them and one more session after them. Three requests on a list of two files
allow a delete, a create over the freed tail and a read; two creates around a delete;
and two deletes of neighbours; five nodes are two files and three creations, so
`malloc` always succeeds. Two clients give every interleaving of two handlers;
what only more of them bring about is the subject of the proofs, which found such a case
(section 4). One suspected server leaves one that is always
chosen. A limit of two paths is reached by the initial disks. The requests of the name
server's run are the eight that differ in its code; `READ_FILE` stands for the three
that `returnSS_IP_PORT` answers. Both paths are in one bucket, so that each pair of
updates can cross; the theorems of section 4 hold for any `Bucket`. Files of three
pieces and a buffer of two have a file within one buffer, one that needs a second, and
a write that overflows its buffer, where alone `fprintf` can fail; a read that goes
back to where it was is endless, so that six pieces show all of its cycle. Two storage
servers with three starts have two registrations at once, a restart beside the old
entry and one connection more than there is room for; a third thread could take tokens
from two others, which is no new way to be confused. Three requests overtake a thread
twice; two descriptors are used up by two of them, by threads that leave them open as
well, so that `accept` fails in each of the three loops. The times of the heartbeat
are those of `params.h`. Deadlock is checked in every run: `AllEnded` and `Rest` are
the states in which nothing is asked any more.

### Fairness

`EveryThreadEnds`, `EveryRequestEnds`, `EveryWriteEnds` and `EveryClientReleased`
assume weak fairness of each thread of the process: the threads are scheduled by the
operating system, and each wait for a peer is bounded, since `nonBlockingRecv` gives
up after `RECEIVE_THREAD_RUNNING_TIME`. The transfer of a reader in `FileLock` is
exempt (`Unending`), since `FileTransfer` shows that it may not end; the threads that
wait for the mutexes do not need it to. In `Registration` one weak fairness covers all
that the processes do: no thread takes infinitely many steps, so that none is passed
over for ever. Connections, stops, starts, forks and failures are never assumed, nor
is anything of clients, of storage servers or of the order in which threads get a
mutex; it is not needed, because a session takes each mutex a bounded number of
times. The safety runs assume nothing.

## 4. What is proved

`FileLock_proofs` proves, for any finite set of sessions and with only
`SessionsAssumption` (the set is finite and does not contain the owner of a free
mutex):

- `TypeCorrect`: `Spec => []TypeOK`
- `CountCovers`: `Spec => []CountCoversReaders`
- `FieldsMatch`: `Spec => []FieldsMatchHolders`
- `Refines`: `Spec => ImplementsRWLock`

The invariant has two layers. `Shape` is about control and holds by itself: the
type, which session owns which mutex at which step, that no step between checking
and counting is taken without `read_write_lock`, and what an admitted session's
result is (`ShapeInit`, `ShapeStep`). `CountCoversReaders` and
`FieldsMatchHolders` are not inductive without it: nothing in them rules out that
two sessions are between check and unlock at once. `HoldersFinite` makes the sets
of holders finite, the `...Effect` lemmas say what each step does to them, and
`CountsStep` combines the steps with the arithmetic of the count. `Inductive`
joins the layers; `RefinesStep` reads the refinement off the same lemmas: an
admission is `BeginRead` or `BeginWrite`, a release `EndRead` or `EndWrite`, any
other step changes nothing of `RWLock`.

`AcceptLoops_proofs` proves, for any set of connections and any number of
descriptors, from `ConnsAssumption` (the pulse connection is not a request, no
connection is `None`, `MaxFds` is a natural number):

- `TypeCorrect`: `Spec => []TypeOK`
- `AnswersTheirOwn`: `Spec => []OwnAnswers`
- `DescriptorsHaveOwners`: `Spec => []DescriptorsOwned`
- `PulseIsKept`: `Spec => []PulseKept`

`TypeInv` adds to the type that the pulse thread only goes on with a number `accept` has
returned; `LowestIsFree` shows that `accept` finds one. `Ownership` is the inductive
invariant of histories in which every thread read the variable in time (`ReadInTime`:
neither `overtaken` nor `emptied`), in six parts. The three properties follow
from it but are not inductive: that a serving thread finds its own connection
(`ServingOwn`) rests on the variable of the loop still holding it when the thread
starts (`StartedFindOwn`); that closing a descriptor takes it from nobody else rests
on no connection having two (`OneDescriptor`), which needs the queue to hold each
connection once and none that is open (`WaitingFresh`). There is one lemma per
action, and `GoingOnOwns` for those that leave the descriptors alone.

`NameServer_proofs` proves, for any finite sets of threads and paths, any list of
servers, any requests and any hash values, from `WorkloadsAssumption`, `DisksAssumption`
(no server starts with more paths than `MaxPaths`), `BucketAssumption` and
`ServersAssumption`:

- `TypeCorrect`: `Spec => []TypeOK`
- `CountsAddUpAlways`: `Spec => []CountsAddUp`
- `DirectoryAccountsForDisks`: `Spec => []DirectoryMatchesDisks`
- `ToldIsSo`: `Spec => []AnswersAreVisible`
- `ReadersAreSentRight`: `Spec => []ReadersFindTheirFile`
- `LimitKept`: `Spec => []LimitKeptButForRequestsUnderWay`

`Shape` (the types, and what a thread has settled at each step) is inductive.
`FreshInv` says that a thread that is about to delete, and whose bucket nobody has
written to since it read it, still finds its path there: this is what splitting reading
and writing adds. `CountsAddUp` is inductive with the two and with `SumLemmas`: a write
to a bucket that nobody has changed changes the entries of one path by one, and the count
of one server follows; the initial counts are the same
pairs counted by server as the entries counted by path. The others speak of the end of a
request only and need to say what holds on the way. `OwnInv` says that with nothing mixed up
a thread works under its own operation number. `AccountsInv` weighs, for each path
and server, what is listed and the creates not yet recorded against what is on the disk
and the deletes not yet recorded. `AloneInv` follows a thread whose path nobody else
changes; that others leave its entries alone, although they write to its bucket, is
`OthersLeavePath`, and holds until a bucket is tangled. `RoomInv` lets each create that is
through account for one path over the limit, and holds a server below that once it was
chosen; it needs nothing of the hash table, and holds in tangled ones too.

`FileTable_proofs` proves, for any finite set of threads, any paths, and any number of
nodes and restarts:

- `TypeCorrect`: `Spec => []TypeOK`
- `WalksAlwaysEnd`: `Spec => []WalksEnd`
- `ListMatches`: `Spec => []ListMatchesDisk`
- `ReadersAreCounted`: `Spec => []ReadersCounted`
- `StaysUp`: `Spec => []SurvivesWithoutDeletions`

`IInv` has two layers. What holds whatever crosses is the type, what each thread does at
each step, that only removals cross (`Uncrossed`), and, without deletions, that what is
listed exists (`Kept`). The rest, `List`, holds until a removal crosses something
(`crossed`), and each lemma about an action shows it for the other histories.

`WalksEnd` is not inductive: an append may write into any allocated node, so that
cycles do come into being, only where no walk gets to. `Heap` is why: among the
allocated nodes no two point to the same one, none points to the head or to a node that
is still to be appended, none points into freed memory, and what a removal has read of the
list still holds while it is not `stale` (`Found`). A walk can then not come
back to a node it has met (`HeapEndsWalks`). `Ends` and `Anchored` say where the next
append goes while no appends cross, `Sought` that what a removal is about to unlink is in
the list, `Accounts` weighs the list and the creates under way
against the disk and the deletes under way, path by path, and `Held` ties a session to
the node its second lookup will find. What an append and an unlinking do to the nodes
of the list are lemmas about walks over any list (`AppendedWalk`, `UnlinkedWalk`).

`FileTransfer_proofs` proves, for files and buffers of any size, any number of pieces
sent again and of forks, from `BoundsAssumption`:

- `TypeCorrect`: `Spec => []TypeOK`
- `KilledOnlyByLeaver`: `Spec => []KilledByLeaver`
- `SentStays`: `Spec => []SentIsStored`
- `BrokenOffInOrder`: `Spec => []BrokenOffIsPrefix`
- `DeliveryImplemented`: `Spec => ImplementsDelivery`

The type invariant needs `Opening`: what the streams can hold before the first piece, so
that no status is ever written to the file. The other properties rest on the
stop-and-wait discipline, which nothing in the code states: at most one item is under
way in either direction (`Window`), until bytes beyond a chunk are sent. With it the
sender is at most one piece ahead of what the receiver has confirmed, however often its
file goes back (`Near`). Without going back the two agree piece by piece (`InStep`).
What is confirmed is not yet written, and what is written is not yet on the disk:
`Carried` says that the difference between `received` and `written` is the one `chunk`,
until bytes beyond a buffer are written, `OnePiece` that this is at most one piece and the
next one, `Stored` that the difference between `written` and the disk is the buffer of the
stream, until a part of it is lost. The refinement follows from `Near` and `OnePiece`, the
stored content and the prefix from `InStep`, `Carried` and `Stored`.

`Registration_proofs` proves, for any finite set of storage servers, any paths, starts
and limits, from `ServersAssumption`, `PathsAssumption` and `BoundsAssumption`:

- `TypeCorrect`: `Spec => []TypeOK`
- `NumbersAreUnique`: `Spec => []IdsAreUnique`
- `Survives`: `Spec => []SurvivesRegistrations`
- `InFull`: `Spec => []RegisteredInFull`

`Shape` types both ends and counts the entries of the list by their threads (`Filled`),
without which the list could outgrow its bound. `Told` ties a number to the thread that
sent it and is inductive with `Shape` alone: `strtok` has no influence on ids. The other
parts hold while `strtok` has not changed buffers: a thread learns its server's name
before anything else (`Named`), has the paths it has read in order (`InOrder`), and all
of them when it sends the number (`Complete`); `Linked` follows the bucket and holds
whatever `strtok` does.

`Heartbeat_proofs` proves, for any finite set of periods, any sleep and limit, from
`TimesAssumption`, and `LiveSidesStay` from `DriftAssumption` too:

- `TypeCorrect`: `Spec => []TypeOK`
- `LiveSidesStay`: `Spec => []LiveSidesKept`
- `GoneAreGivenUp`: `Spec => []GivenUpInTime`

`InTime` counts down: what has passed since the peer was gone, what is left of the round
and the longest rounds that are left make no more than is allowed; the proof is that
each round takes one of them away. `Drift` is the invariant for two sides that take
part. A side that misses rounds reads two pulses in some of them, then perhaps none in
one. `Paced` bounds the first kind: after `a` such rounds in a row it has read `2 * a`
pulses, which the peer needs `2 * a` times `Gap` to send, and `DriftAssumption` says that
this takes too long for `a = Limit - 1` (`NotSoOften`). `Quiet` bounds the second: a
window without a pulse means that the peer is late by now, and that the next pulse will
be there in the next window.

The library's induction theorems have a predicate as a parameter, which the provers
cannot instantiate. Where a sum, a walk or a largest element needs induction
(`SubsetInduction`, `LongestIs`, the walks of `FileTable_proofs`), it goes over a set
instead: the set of what is proved already, or a minimal element of what is not.

Four properties turned out to be wrong for more than the checked instance while their
proofs were prepared, and were corrected in the modules:

- `DirectoryMatchesDisks` failed for five threads that create and delete one path on two
  servers: a delete can take out the entry of the other server. This is now a fault of
  its own, `crossed`.
- `ListMatchesDisk` failed for four threads, with deletes between the two halves of two
  creates of one path. `doubled` is now noted where the second thread opens the file.
- `RegisteredInFull` failed for a server with a path named `COMPLETED`, which ends its
  message early.
- `GivenUpInTime` allowed half of the limit, rounded down, which is a round short for odd
  limits; it is rounded up now.

Model-checked only: liveness (`EveryThreadEnds`, `EveryRequestEnds`, `EveryWriteEnds`,
`EveryClientReleased`, `NobodyWaitsForId`, `DeadServersAreNoticed`), since reasoning
about fairness and ENABLED is out of the prover's reach, and the five counterexamples of
section 5, which need no proof. Every invariant and action property of the passing runs
is also proved. Left to prove: action properties not yet stated, such as which steps may
change an entry of the directory, and that `RWLock` and `Delivery` by themselves keep
readers from writers and the pieces in order.

## 5. What disagrees with the repository's own words

Five runs end in a counterexample, each against a line of the repository quoted in
`PROJECT.json` under `findings`: `file.c:29` and `:41` (the lock), `README.md:53`
(error codes), `README.md:52` (concurrent clients), `file.c:128` (adding a file to
the list), `README.md:45` and `file.c:332` (reading, and being told so).

## 6. Not modelled

Abstracted on purpose: the text of messages, logging, metadata formatting, the
components of a path (a path is one name), file contents. A signal that ends a process
(`handle_signal`) is a `Restart` of `FileTable`, a `Stop` of `Registration`. A call of
`strtok` is one step.

Where the program can do more than the models, and no property covers it:

- Searches. A walk over the File structs (`file.c:27-102`, `142-156`) or over a bucket
  (`helper_functions.c:411-454`) is one step, so that none stands on a node while another
  thread frees it. What is read in a walk and used after it is followed: the node of a
  session whose lock is yet to be taken, the nodes of a removal, the head of a bucket or
  the place in it that an insert or a delete is going to write to.
- A bucket whose list has become a ring, and searches that go round in it.
- A message that `recv` returns in two parts (`helper_functions.c:95`).
- What lies beyond a buffer, further than the module that meets it says: what `strstr` and
  `%s` find behind a full `buffer` of `DownloadFile` (only that it is written is
  modelled), what is written beyond the ends of `args` and `storageServerThreads` after
  `MAX_SERVERS` connections, beyond `buffer` by a message of exactly `BUFFER_LENGTH` bytes
  (`name_server.c:222`), or by `strcat` to an uninitialized response
  (`name_server.c:577`).
- `count_accessible_path_lock`, which nobody initializes (`name_server.c:136-158`): it is
  taken to be free.
- The walk of `createDirectory` and `deleteDirectory` over the components of a path.
- `malloc` and `pthread_create` failing, where no module mentions it.

Left out because nothing depends on it: `searchStorageServer`, the LRU cache behind it and
`downloadFile` have no caller; `printError`, the client's menu and the scripts do not
touch any state a property is about. The `ss_id` inside an entry of the list is read by log
lines only.
