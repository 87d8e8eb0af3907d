------------------------ MODULE Registration_proofs ------------------------
(***************************************************************************)
(* Proofs about Registration, for any number of storage servers, starts,   *)
(* paths and threads.                                                      *)
(*                                                                         *)
(* The inductive invariant follows a registration from the socket to the   *)
(* list.  Shape types the state and says which entry of the list belongs   *)
(* to which thread: at most one to each, so that the list never has more   *)
(* entries than there are threads (Filled).  Told ties a number that was   *)
(* sent to the thread that sent it.  Named says that a thread which strtok *)
(* did not confuse has learnt its server's name before it connects, and    *)
(* InOrder that it then has exactly the paths it has read so far.          *)
(***************************************************************************)
EXTENDS Registration, FiniteSetTheorems, SequenceTheorems, TLAPS

Tokens2 == PathNames \cup {"COMPLETED"}

Entries == [server : Servers \cup {Nobody}, paths : Seq(PathNames), running : BOOLEAN]

\* The storage servers' own state.
StorageShape ==
  /\ pc \in [Servers -> ServerSteps] /\ start \in [Servers -> Nat]
  /\ \A s \in Servers : start[s] \in 0..MaxStarts[s] /\ (pc[s] # "down" => start[s] # 0)
  /\ infoSent \subseteq Conns

\* The accept loop.
AcceptShape ==
  /\ queue \in Seq(Conns) /\ acceptor \in {"accept", "locked", "stuck"}
  /\ args \in [Slots -> Conns \cup {Nobody}] /\ ss_count \in Numbers
  /\ \A k \in Slots : handler[k] # "none" => k <= ss_count
  /\ \A k \in Slots : k <= ss_count => args[k] \in Conns

\* What a thread received is its server's message, or the beginning of it.
Holds(k) ==
  \/ buffer[k] = <<>>
  \/ /\ socket[k] \in Conns
     /\ \E n \in 2..Len(Message(socket[k].server)) :
          buffer[k] = SubSeq(Message(socket[k].server), 1, n)

\* The threads' own state.
ThreadShape ==
  /\ handler \in [Slots -> HandlerSteps] /\ socket \in [Slots -> Conns \cup {Nobody}]
  /\ receivingInfo \in [Slots -> 0..2] /\ watched \in [Slots -> Conns \cup {Nobody}]
  /\ strtokPlace \in [owner : Numbers, at : Nat]
  /\ strtokPlace.owner # 0 => strtokPlace.at >= 2
  /\ DOMAIN buffer = Slots
  /\ \A k \in Slots :
       /\ Holds(k)
       /\ handler[k] \in {"none", "recv"} => receivingInfo[k] = 0 /\ buffer[k] = <<>>
       /\ handler[k] \in {"parse", "link"} =>
            /\ socket[k] \in infoSent /\ receivingInfo[k] # 0
            /\ strtokPlace.owner # 0 /\ buffer[k] # <<>>

\* The list: each thread has at most one entry, and each entry one thread.
ListShape ==
  /\ storageServerList \in Seq(Entries)
  /\ server \in [Slots -> 0..Len(storageServerList)]
  /\ \A e \in DOMAIN storageServerList : Len(storageServerList[e].paths) <= MaxPaths
  /\ table \in Bucket /\ seen \in [Slots -> Bucket]
  /\ \A k \in Slots :
       /\ server[k] # 0 <=> receivingInfo[k] = 2
       /\ handler[k] \in {"link", "watch"} => server[k] # 0
       /\ handler[k] = "link" => storageServerList[server[k]].paths # <<>>
  /\ \A j, k \in Slots : server[j] = server[k] /\ server[k] # 0 => j = k

Registered == {k \in Slots : server[k] # 0}

Filled == Len(storageServerList) = Cardinality(Registered)

RestShape ==
  /\ told \in [Conns -> Numbers] /\ closed \subseteq Conns
  /\ crashed \in BOOLEAN /\ faults \subseteq Faults

Shape == StorageShape /\ AcceptShape /\ ThreadShape /\ ListShape /\ Filled /\ RestShape

Past == {"connect", "watch", "ended"}

\* A number was sent by the thread it names, over its connection.
Told ==
  \A c \in Conns : told[c] # 0 =>
    /\ told[c] \in Slots /\ socket[told[c]] = c /\ c \in infoSent
    /\ handler[told[c]] \in Past

\* A thread that was not confused learns the server's name first.
Named ==
  "crossed" \notin faults =>
    /\ \A k \in Slots : handler[k] = "connect" /\ server[k] = 0 => "hungUp" \in faults
    /\ \A k \in Slots :
         handler[k] = "parse" /\ receivingInfo[k] = 1 /\ strtokPlace.owner = k =>
           strtokPlace.at = 2
    /\ \A k \in Slots : server[k] # 0 =>
         socket[k] \in Conns /\ storageServerList[server[k]].server = socket[k].server

\* The first n paths of a file, as many as there is room for.
FirstPaths(paths, s, n) ==
  /\ Len(paths) = IF n < MaxPaths THEN n ELSE MaxPaths
  /\ \A i \in 1..Len(paths) : paths[i] = PathsFile[s][i]

\* The paths a thread has read are in its entry.
Reading(k) ==
  /\ handler[k] \in {"parse", "link"} => buffer[k] = Message(socket[k].server)
  /\ handler[k] \in {"parse", "link"} /\ receivingInfo[k] = 2 /\ strtokPlace.owner = k =>
       /\ strtokPlace.at \in 3..Len(Message(socket[k].server))
       /\ FirstPaths(storageServerList[server[k]].paths, socket[k].server, strtokPlace.at - 3)

InOrder == faults \cap {"crossed", "cut"} = {} => \A k \in Slots : Reading(k)

\* The paths of an entry can be found in the bucket, but for the one whose node
\* its thread has not linked yet.
Found(k) ==
  server[k] # 0 =>
    \A i \in DOMAIN storageServerList[server[k]].paths :
      \/ [path |-> storageServerList[server[k]].paths[i], server |-> server[k]] \in ToSet(table)
      \/ handler[k] = "link" /\ i = Len(storageServerList[server[k]].paths)

Linked == "insertsCrossed" \notin faults => \A k \in Slots : Found(k)

\* A server that was sent its number had all its paths read.
AllRead(c) ==
  told[c] # 0 /\ "COMPLETED" \notin ToSet(PathsFile[c.server]) =>
    /\ server[told[c]] # 0
    /\ FirstPaths(storageServerList[server[told[c]]].paths, c.server, Len(PathsFile[c.server]))

Complete == faults \cap {"crossed", "cut"} = {} => \A c \in Conns : AllRead(c)

IInv ==
  Shape /\ Told /\ Named /\ InOrder /\ Linked /\ Complete /\ SurvivesRegistrations

----------------------------------------------------------------------------
(* Connections and messages *)

LEMMA ConnIs ==
  /\ \A s \in Servers : \A n \in 1..MaxStarts[s] : [server |-> s, start |-> n] \in Conns
  /\ \A c \in Conns : c.server \in Servers
  BY DEF Conns

LEMMA MessageIs ==
  ASSUME NEW s \in Servers
  PROVE  /\ Message(s) \in Seq(Tokens2 \cup {"INFO"})
         /\ Len(PathsFile[s]) \in Nat /\ Len(Message(s)) = Len(PathsFile[s]) + 3
         /\ Message(s)[2] = s
         /\ \A i \in 1..Len(PathsFile[s]) :
              Message(s)[i + 2] = PathsFile[s][i] /\ PathsFile[s][i] \in PathNames
         /\ Message(s)[Len(Message(s))] = "COMPLETED"
  <1> DEFINE P == PathsFile[s]
             T == Tokens2 \cup {"INFO"}
  <1>1. P \in Seq(T) /\ ToSet(P) \subseteq PathNames
    <2>1. P \in Seq(ToSet(P)) /\ ToSet(P) \subseteq PathNames
      BY PathsAssumption DEF PathNames
    <2>2. ToSet(P) \subseteq T
      BY <2>1 DEF Tokens2
    <2>3. QED
      BY <2>1, <2>2, SeqMonotonic
  <1>2. PICK n \in Nat : n = Len(P) /\ DOMAIN P = 1..n
    BY <1>1, LenProperties
  <1>3. \A i \in 1..n : P[i] \in PathNames
    BY <1>1, <1>2 DEF ToSet
  <1>4. <<"INFO", s>> \in Seq(T) /\ <<"COMPLETED">> \in Seq(T)
    <2>1. s \in T /\ "INFO" \in T /\ "COMPLETED" \in T
      <3>1. s \in PathNames
        BY DEF PathNames
      <3>2. QED
        BY <3>1 DEF Tokens2
    <2> HIDE DEF T
    <2>2. QED
      BY <2>1
  <1>5. Len(<<"INFO", s>>) = 2 /\ Len(<<"COMPLETED">>) = 1 /\ <<"INFO", s>>[2] = s
        /\ <<"COMPLETED">>[1] = "COMPLETED"
    OBVIOUS
  <1> HIDE DEF P, T
  <1>6. PICK h : h = <<"INFO", s>> \o P
    OBVIOUS
  <1>7. /\ h \in Seq(T) /\ Len(h) = 2 + n
        /\ \A i \in 1..2 + n : h[i] = IF i <= 2 THEN <<"INFO", s>>[i] ELSE P[i - 2]
    BY <1>1, <1>2, <1>4, <1>5, <1>6, ConcatProperties
  <1>8. PICK m : m = h \o <<"COMPLETED">>
    OBVIOUS
  <1>9. /\ m \in Seq(T) /\ Len(m) = (2 + n) + 1
        /\ \A i \in 1..(2 + n) + 1 :
             m[i] = IF i <= 2 + n THEN h[i] ELSE <<"COMPLETED">>[i - (2 + n)]
    BY <1>4, <1>5, <1>7, <1>8, ConcatProperties
  <1>10. Message(s) = m
    BY <1>6, <1>8 DEF Message, P
  <1>11. m[2] = s
    <2>1. m[2] = h[2] /\ h[2] = <<"INFO", s>>[2]
      BY <1>7, <1>9
    <2>2. QED
      BY <2>1, <1>5
  <1>12. ASSUME NEW i \in 1..n PROVE m[i + 2] = P[i] /\ P[i] \in PathNames
    <2>1. i + 2 \in 1..2 + n /\ i + 2 \in 1..(2 + n) + 1 /\ ~(i + 2 <= 2) /\ (i + 2) - 2 = i
      OBVIOUS
    <2>2. m[i + 2] = h[i + 2] /\ h[i + 2] = P[(i + 2) - 2]
      BY <2>1, <1>7, <1>9
    <2>3. QED
      BY <2>1, <2>2, <1>3
  <1>13. m[n + 3] = "COMPLETED"
    <2>1. n + 3 \in 1..(2 + n) + 1 /\ ~(n + 3 <= 2 + n) /\ (n + 3) - (2 + n) = 1
      OBVIOUS
    <2>2. QED
      BY <2>1, <1>5, <1>9
  <1>14. Len(m) = n + 3
    BY <1>9
  <1>15. QED
    BY <1>2, <1>9, <1>10, <1>11, <1>12, <1>13, <1>14 DEF P, T

\* The beginning of a message.
LEMMA BeginningIs ==
  ASSUME NEW s \in Servers, NEW n \in 2..Len(Message(s))
  PROVE  LET b == SubSeq(Message(s), 1, n)
         IN  /\ b \in Seq(Tokens2 \cup {"INFO"}) /\ Len(b) = n /\ b # <<>>
             /\ \A i \in 1..n : b[i] = Message(s)[i]
             /\ n = Len(Message(s)) => b = Message(s)
  <1> DEFINE m == Message(s)
             T == Tokens2 \cup {"INFO"}
  <1>1. m \in Seq(T) /\ Len(m) \in Nat
    BY MessageIs, LenProperties
  <1>2. \A i \in 1..n : m[i] \in T
    BY <1>1, ElementOfSeq
  <1>3. 1 \in Int /\ n \in Int /\ n >= 2
    BY <1>1
  <1> HIDE DEF m, T
  <1>4. /\ SubSeq(m, 1, n) \in Seq(T)
        /\ Len(SubSeq(m, 1, n)) = IF 1 <= n THEN n - 1 + 1 ELSE 0
        /\ \A i \in 1..n - 1 + 1 : SubSeq(m, 1, n)[i] = m[1 + i - 1]
    BY <1>2, <1>3, SubSeqProperties
  <1>5. PICK b : b = SubSeq(m, 1, n)
    OBVIOUS
  <1>6. b \in Seq(T) /\ Len(b) = n
    BY <1>3, <1>4, <1>5
  <1>7. ASSUME NEW i \in 1..n PROVE b[i] = m[i]
    <2>1. i \in 1..n - 1 + 1 /\ 1 + i - 1 = i
      BY <1>3
    <2>2. QED
      BY <2>1, <1>4, <1>5
  <1>8. n = Len(m) => b = m
    BY <1>1, <1>5, SubSeqFull
  <1>9. b # <<>>
    BY <1>3, <1>6
  <1>10. QED
    BY <1>5, <1>6, <1>7, <1>8, <1>9 DEF m, T

----------------------------------------------------------------------------
(* The storage servers' state *)

LEMMA StorageInit == Init => StorageShape
  BY ServersAssumption DEF Init, StorageShape, ServerSteps

\* The steps of the name server leave it alone.
NameServerSteps == Acceptor \/ (\E k \in Slots : Handler(k)) \/ UNCHANGED vars

LEMMA StorageKept == NameServerSteps => UNCHANGED storage
  BY DEF NameServerSteps, Acceptor, Accept, AcceptBeyond, AcceptWithoutThread, AcceptLocked, Take,
         Handler, Receive, ReceiveAtLeast, ReceiveFails, NextToken, LinkNode, InitConnection,
         NoticeDown, vars

LEMMA CurrentIs ==
  ASSUME StorageShape, NEW s \in Servers, pc[s] # "down"
  PROVE  Current(s) \in Conns
  BY ConnIs, ServersAssumption DEF Current, StorageShape

LEMMA StorageStep == StorageShape /\ [Next]_vars => StorageShape'
  <1> SUFFICES ASSUME StorageShape, [Next]_vars PROVE StorageShape'
    OBVIOUS
  <1>1. ASSUME NEW s \in Servers, Connect(s) PROVE StorageShape'
    <2>1. start[s] \in 0..MaxStarts[s] /\ MaxStarts[s] \in Nat /\ start[s] < MaxStarts[s]
      BY <1>1, ServersAssumption DEF StorageShape, Connect
    <2>2. start[s] + 1 \in 0..MaxStarts[s] /\ start[s] + 1 # 0
      BY <2>1
    <2>3. QED
      BY <1>1, <2>2 DEF Connect, ServerGoes, StorageShape, ServerSteps
  <1>2. ASSUME NEW s \in Servers, SendInfo(s) PROVE StorageShape'
    <2>1. Current(s) \in Conns
      BY <1>2, CurrentIs DEF SendInfo, ServerGoes
    <2>2. QED
      BY <1>2, <2>1 DEF SendInfo, ServerGoes, StorageShape, ServerSteps
  <1>3. ASSUME NEW s \in Servers, OpenPort(s) \/ ReceiveId(s) \/ Stop(s) PROVE StorageShape'
    BY <1>3 DEF OpenPort, ReceiveId, Stop, ServerGoes, StorageShape, ServerSteps
  <1>4. CASE NameServerSteps
    BY <1>4, StorageKept DEF storage, StorageShape
  <1>5. QED
    BY <1>1, <1>2, <1>3, <1>4 DEF Next, Register, Rest, NameServerSteps

----------------------------------------------------------------------------
(* The accept loop *)

LEMMA AcceptInit == Init => AcceptShape
  BY EmptySeq, BoundsAssumption DEF Init, AcceptShape, Numbers, Slots

LEMMA AcceptKept ==
  ASSUME AcceptShape, UNCHANGED accepting,
         \A k \in Slots : handler'[k] # "none" => handler[k] # "none"
  PROVE  AcceptShape'
  BY DEF AcceptShape, accepting

LEMMA TakeTyped ==
  ASSUME AcceptShape, Take
  PROVE  queue' \in Seq(Conns) /\ Head(queue) \in Conns
  BY HeadTailProperties DEF AcceptShape, Take

LEMMA AcceptStep == StorageShape /\ AcceptShape /\ ThreadShape /\ [Next]_vars => AcceptShape'
  <1> SUFFICES ASSUME StorageShape, AcceptShape, ThreadShape, [Next]_vars PROVE AcceptShape'
    OBVIOUS
  <1>0. MaxServers \in Nat /\ ss_count \in 0..MaxServers /\ handler \in [Slots -> HandlerSteps]
        /\ args \in [Slots -> Conns \cup {Nobody}]
    BY BoundsAssumption DEF AcceptShape, Numbers, ThreadShape
  <1>1. ASSUME NEW s \in Servers, Connect(s) PROVE AcceptShape'
    <2>1. start[s] + 1 \in 1..MaxStarts[s]
      <3>1. start[s] \in 0..MaxStarts[s] /\ MaxStarts[s] \in Nat /\ start[s] < MaxStarts[s]
        BY <1>1, ServersAssumption DEF StorageShape, Connect
      <3>2. QED
        BY <3>1
    <2>2. [server |-> s, start |-> start[s] + 1] \in Conns
      BY <2>1, ConnIs
    <2>3. queue' \in Seq(Conns)
      BY <1>1, <2>2, AppendProperties DEF Connect, AcceptShape
    <2>4. QED
      BY <1>1, <2>3 DEF Connect, AcceptShape
  <1>2. ASSUME NEW s \in Servers, SendInfo(s) \/ OpenPort(s) \/ ReceiveId(s) \/ Stop(s)
        PROVE  AcceptShape'
    BY <1>2, AcceptKept DEF SendInfo, OpenPort, ReceiveId, Stop
  <1>3. ASSUME Accept PROVE AcceptShape'
    <2>1. ss_count + 1 \in Slots /\ ss_count' = ss_count + 1
      BY <1>0, <1>3 DEF Accept, Slots
    <2>2. queue' \in Seq(Conns) /\ Head(queue) \in Conns
      BY <1>3, TakeTyped DEF Accept
    <2>3. args' = [args EXCEPT ![ss_count + 1] = Head(queue)]
          /\ handler' = [handler EXCEPT ![ss_count + 1] = "recv"]
      BY <1>3 DEF Accept
    <2>4. ASSUME NEW k \in Slots
          PROVE  /\ handler'[k] # "none" => k <= ss_count'
                 /\ k <= ss_count' => args'[k] \in Conns
      <3>1. CASE k = ss_count + 1
        BY <3>1, <2>1, <2>2, <2>3, <1>0
      <3>2. CASE k # ss_count + 1
        <4>1. k \in Nat /\ ss_count \in Nat
          BY <1>0 DEF Slots
        <4>2. k <= ss_count + 1 => k <= ss_count
          BY <3>2, <4>1
        <4>3. k <= ss_count => k <= ss_count + 1
          BY <4>1
        <4>4. handler'[k] = handler[k] /\ args'[k] = args[k]
          BY <3>2, <2>1, <2>3, <1>0
        <4>5. QED
          BY <4>2, <4>3, <4>4, <2>1 DEF AcceptShape
      <3>3. QED
        BY <3>1, <3>2
    <2>5. args' \in [Slots -> Conns \cup {Nobody}]
      BY <2>2, <2>3, <1>0
    <2>6. ss_count' \in Numbers
      BY <2>1, <1>0 DEF Slots, Numbers
    <2>7. QED
      BY <1>3, <2>2, <2>4, <2>5, <2>6 DEF Accept, AcceptShape
  <1>4. ASSUME AcceptBeyond PROVE AcceptShape'
    BY <1>4, TakeTyped DEF AcceptBeyond, AcceptShape
  <1>5. ASSUME AcceptWithoutThread \/ AcceptLocked PROVE AcceptShape'
    <2>1. queue' \in Seq(Conns) /\ Head(queue) \in Conns
      BY <1>5, TakeTyped DEF AcceptWithoutThread, AcceptLocked
    <2>2. args' = [args EXCEPT ![ss_count + 1] = Head(queue)] /\ UNCHANGED <<ss_count, handler>>
          /\ acceptor' \in {"locked", "stuck"}
      BY <1>5 DEF AcceptWithoutThread, AcceptLocked
    <2>3. ASSUME NEW k \in Slots PROVE k <= ss_count' => args'[k] \in Conns
      BY <2>1, <2>2, <1>0 DEF AcceptShape
    <2>4. QED
      BY <2>1, <2>2, <2>3, <1>0 DEF AcceptShape
  <1>6. ASSUME NEW k \in Slots, Handler(k) PROVE AcceptShape'
    <2>1. UNCHANGED accepting /\ handler[k] # "none"
          /\ \/ \E step : handler' = [handler EXCEPT ![k] = step]
             \/ UNCHANGED handler
      BY <1>6 DEF Handler, Receive, ReceiveAtLeast, ReceiveFails, NextToken, EndOfInfo, AddServer,
                  AddPath, LinkNode, InitConnection, NoticeDown, At, Goto
    <2>2. QED
      BY <2>1, <1>0, AcceptKept
  <1>7. CASE UNCHANGED vars
    BY <1>7, AcceptKept DEF vars
  <1>8. QED
    BY <1>1, <1>2, <1>3, <1>4, <1>5, <1>6, <1>7 DEF Next, Register, Acceptor, Rest

----------------------------------------------------------------------------
(* The threads *)

LEMMA MessageTokens ==
  ASSUME NEW s \in Servers, NEW i \in 2..Len(Message(s))
  PROVE  Message(s)[i] \in Tokens2
  <1>1. PICK n \in Nat : n = Len(PathsFile[s]) /\ Len(Message(s)) = n + 3
    BY MessageIs
  <1>2. CASE i = 2
    BY <1>2, MessageIs DEF Tokens2, PathNames
  <1>3. CASE i = n + 3
    BY <1>1, <1>3, MessageIs DEF Tokens2
  <1>4. CASE i \in 3..n + 2
    <2>1. PICK j \in 1..n : i = j + 2
      <3>1. i - 2 \in 1..n /\ i = (i - 2) + 2
        BY <1>4
      <3>2. QED
        BY <3>1
    <2>2. Message(s)[j + 2] = PathsFile[s][j] /\ PathsFile[s][j] \in PathNames
      BY <1>1, <2>1, MessageIs
    <2>3. QED
      BY <2>1, <2>2 DEF Tokens2
  <1>5. QED
    BY <1>1, <1>2, <1>3, <1>4

\* What strtok finds.
LEMMA TokenIs ==
  ASSUME ThreadShape, strtokPlace.owner # 0, NEW token \in Tokens, token # NULL
  PROVE  LET o == strtokPlace.owner
         IN  /\ o \in Slots /\ strtokPlace.at \in 2..Len(buffer[o])
             /\ token = buffer[o][strtokPlace.at] /\ token \in Tokens2
  <1>1. PICK o : o = strtokPlace.owner
    OBVIOUS
  <1>2. PICK a : a = strtokPlace.at
    OBVIOUS
  <1>3. o \in Slots /\ a \in Nat /\ a >= 2
    BY <1>1, <1>2, BoundsAssumption DEF ThreadShape, Numbers, Slots
  <1>4. ~(a > Len(buffer[o])) /\ token = buffer[o][a]
    BY <1>1, <1>2 DEF Tokens
  <1>5. buffer[o] # <<>>
    <2>1. Len(<<>>) = 0
      OBVIOUS
    <2>2. QED
      BY <2>1, <1>3, <1>4
  <1>6. PICK n \in 2..Len(Message(socket[o].server)) :
          socket[o] \in Conns /\ buffer[o] = SubSeq(Message(socket[o].server), 1, n)
    BY <1>3, <1>5 DEF ThreadShape, Holds
  <1>7. PICK s \in Servers : s = socket[o].server
    BY <1>6, ConnIs
  <1>8. n \in 2..Len(Message(s)) /\ Len(Message(s)) \in Nat
    BY <1>6, <1>7, MessageIs
  <1>9. Len(buffer[o]) = n /\ \A i \in 1..n : buffer[o][i] = Message(s)[i]
    BY <1>6, <1>7, <1>8, BeginningIs
  <1>10. a \in 2..n /\ a \in 1..n /\ a \in 2..Len(Message(s))
    BY <1>3, <1>4, <1>8, <1>9
  <1>11. token \in Tokens2
    BY <1>4, <1>9, <1>10, MessageTokens
  <1>12. QED
    BY <1>1, <1>2, <1>3, <1>4, <1>9, <1>10, <1>11

\* What NextToken does to the place of strtok.
LEMMA PlaceTyped ==
  ASSUME ThreadShape, NEW token,
         strtokPlace' = IF token = NULL THEN strtokPlace ELSE [strtokPlace EXCEPT !.at = @ + 1]
  PROVE  /\ strtokPlace' \in [owner : Numbers, at : Nat]
         /\ strtokPlace'.owner = strtokPlace.owner
         /\ strtokPlace'.owner # 0 => strtokPlace'.at >= 2
         /\ strtokPlace'.at = IF token = NULL THEN strtokPlace.at ELSE strtokPlace.at + 1
  BY DEF ThreadShape

LEMMA ThreadInit == Init => ThreadShape
  <1> SUFFICES ASSUME Init PROVE ThreadShape
    OBVIOUS
  <1>1. strtokPlace \in [owner : Numbers, at : Nat] /\ strtokPlace.owner = 0
    BY BoundsAssumption DEF Init, Numbers
  <1>2. QED
    BY <1>1 DEF Init, ThreadShape, HandlerSteps, Holds

\* Of the steps that leave the buffers and the place of strtok alone.
LEMMA ThreadKept ==
  ASSUME ThreadShape, StorageShape, UNCHANGED <<socket, buffer, receivingInfo, strtokPlace>>,
         infoSent \subseteq infoSent',
         handler' \in [Slots -> HandlerSteps], watched' \in [Slots -> Conns \cup {Nobody}],
         \A k \in Slots : \/ handler'[k] = handler[k]
                          \/ handler[k] = "none" /\ handler'[k] = "recv"
                          \/ handler[k] = "link" /\ handler'[k] = "parse"
                          \/ handler'[k] \in Past
  PROVE  ThreadShape'
  <1>1. ASSUME NEW k \in Slots
        PROVE  /\ Holds(k)'
               /\ handler'[k] \in {"none", "recv"} => receivingInfo'[k] = 0 /\ buffer'[k] = <<>>
               /\ handler'[k] \in {"parse", "link"} =>
                    /\ socket'[k] \in infoSent' /\ receivingInfo'[k] # 0
                    /\ strtokPlace'.owner # 0 /\ buffer'[k] # <<>>
    BY DEF ThreadShape, Holds, Past
  <1>2. QED
    BY <1>1 DEF ThreadShape

LEMMA ThreadStep ==
  StorageShape /\ AcceptShape /\ ThreadShape /\ ListShape /\ [Next]_vars => ThreadShape'
  <1> SUFFICES ASSUME StorageShape, AcceptShape, ThreadShape, ListShape, [Next]_vars
               PROVE  ThreadShape'
    OBVIOUS
  <1>0. handler \in [Slots -> HandlerSteps] /\ watched \in [Slots -> Conns \cup {Nobody}]
        /\ socket \in [Slots -> Conns \cup {Nobody}] /\ receivingInfo \in [Slots -> 0..2]
        /\ DOMAIN buffer = Slots /\ Slots \subseteq Numbers /\ 0 \notin Slots
        /\ infoSent \subseteq Conns
    BY BoundsAssumption DEF ThreadShape, Slots, Numbers, StorageShape
  <1>1. ASSUME NEW s \in Servers, Connect(s) \/ Register(s) \/ Stop(s) PROVE ThreadShape'
    <2>1. UNCHANGED <<handler, local, strtokPlace>> /\ infoSent \subseteq infoSent'
      BY <1>1 DEF Connect, Register, SendInfo, OpenPort, ReceiveId, Stop
    <2>2. QED
      BY <2>1, <1>0, ThreadKept DEF local
  <1>2. ASSUME Accept PROVE ThreadShape'
    <2>1. /\ handler' = [handler EXCEPT ![ss_count + 1] = "recv"]
          /\ UNCHANGED <<socket, buffer, receivingInfo, strtokPlace, watched, infoSent>>
      BY <1>2 DEF Accept, Take, local, storage
    <2>2. handler' \in [Slots -> HandlerSteps]
      BY <2>1, <1>0 DEF HandlerSteps
    <2>3. ss_count + 1 \in Slots => handler[ss_count + 1] = "none"
      BY BoundsAssumption DEF AcceptShape, Slots, Numbers
    <2>4. \A k \in Slots : handler'[k] = handler[k]
                            \/ (handler[k] = "none" /\ handler'[k] = "recv")
      BY <2>1, <2>3, <1>0
    <2>5. QED
      BY <2>1, <2>2, <2>4, <1>0, ThreadKept
  <1>3. ASSUME AcceptBeyond \/ AcceptWithoutThread \/ AcceptLocked \/ UNCHANGED vars
        PROVE  ThreadShape'
    <2>1. UNCHANGED <<handler, local, strtokPlace, infoSent>>
      BY <1>3 DEF AcceptBeyond, AcceptWithoutThread, AcceptLocked, Take, storage, vars
    <2>2. QED
      BY <2>1, <1>0, ThreadKept DEF local
  <1>4. ASSUME NEW k \in Slots, Receive(k) PROVE ThreadShape'
    <2> DEFINE c == args[k]
               message == Message(c.server)
    <2>1. /\ handler[k] = "recv" /\ socket' = [socket EXCEPT ![k] = c]
          /\ strtokPlace' = [owner |-> k, at |-> 2]
          /\ UNCHANGED <<infoSent, watched>>
          /\ \/ /\ c \in infoSent
                /\ \E n \in 2..Len(message) : buffer' = [buffer EXCEPT ![k] = SubSeq(message, 1, n)]
                /\ receivingInfo' = [receivingInfo EXCEPT ![k] = 1]
                /\ handler' = [handler EXCEPT ![k] = "parse"]
             \/ /\ handler' = [handler EXCEPT ![k] = "connect"]
                /\ UNCHANGED <<buffer, receivingInfo>>
      BY <1>4 DEF Receive, ReceiveAtLeast, At, Goto, storage
    <2>2. c \in Conns /\ c.server \in Servers
      BY <2>1, ConnIs DEF AcceptShape
    <2>3. socket' \in [Slots -> Conns \cup {Nobody}] /\ socket'[k] = c
          /\ \A j \in Slots : j # k => socket'[j] = socket[j]
      BY <2>1, <2>2, <1>0
    <2>4. strtokPlace' \in [owner : Numbers, at : Nat] /\ strtokPlace'.owner = k
          /\ strtokPlace'.at = 2 /\ k # 0
      BY <2>1, <1>0
    <2>5. receivingInfo[k] = 0 /\ buffer[k] = <<>>
      BY <2>1 DEF ThreadShape
    <2>6. CASE /\ c \in infoSent
               /\ \E n \in 2..Len(message) : buffer' = [buffer EXCEPT ![k] = SubSeq(message, 1, n)]
               /\ receivingInfo' = [receivingInfo EXCEPT ![k] = 1]
               /\ handler' = [handler EXCEPT ![k] = "parse"]
      <3>1. PICK n \in 2..Len(message) : buffer' = [buffer EXCEPT ![k] = SubSeq(message, 1, n)]
        BY <2>6
      <3>2. buffer'[k] = SubSeq(message, 1, n) /\ buffer'[k] # <<>>
        <4>1. SubSeq(message, 1, n) # <<>>
          BY <2>2, BeginningIs
        <4>2. QED
          BY <3>1, <4>1, <1>0
      <3>3. Holds(k)'
        BY <2>2, <2>3, <3>2 DEF Holds
      <3>4. ASSUME NEW j \in Slots, j # k
            PROVE  /\ Holds(j)' /\ buffer'[j] = buffer[j] /\ receivingInfo'[j] = receivingInfo[j]
                   /\ handler'[j] = handler[j]
        <4>1. buffer'[j] = buffer[j] /\ socket'[j] = socket[j]
          BY <2>3, <3>1, <3>4, <1>0
        <4>2. QED
          BY <4>1, <2>6, <3>4, <1>0 DEF Holds, ThreadShape
      <3>5. /\ handler' \in [Slots -> HandlerSteps] /\ handler'[k] = "parse"
            /\ receivingInfo' \in [Slots -> 0..2] /\ receivingInfo'[k] = 1
            /\ DOMAIN buffer' = Slots
        BY <2>6, <3>1, <1>0 DEF HandlerSteps
      <3>6. ASSUME NEW j \in Slots
            PROVE  /\ Holds(j)'
                   /\ handler'[j] \in {"none", "recv"} =>
                        receivingInfo'[j] = 0 /\ buffer'[j] = <<>>
                   /\ handler'[j] \in {"parse", "link"} =>
                        /\ socket'[j] \in infoSent' /\ receivingInfo'[j] # 0
                        /\ strtokPlace'.owner # 0 /\ buffer'[j] # <<>>
        <4>1. CASE j = k
          <5>1. socket'[k] \in infoSent' /\ receivingInfo'[k] # 0 /\ strtokPlace'.owner # 0
            BY <2>1, <2>3, <2>4, <2>6, <3>5
          <5>2. handler'[k] \notin {"none", "recv"}
            BY <3>5
          <5>3. QED
            BY <4>1, <5>1, <5>2, <3>2, <3>3
        <4>2. CASE j # k
          BY <4>2, <3>4, <2>1, <2>3, <2>4 DEF ThreadShape
        <4>3. QED
          BY <4>1, <4>2
      <3>7. QED
        BY <2>1, <2>3, <2>4, <3>5, <3>6, <1>0 DEF ThreadShape
    <2>7. CASE /\ handler' = [handler EXCEPT ![k] = "connect"]
               /\ UNCHANGED <<buffer, receivingInfo>>
      <3>1. handler' \in [Slots -> HandlerSteps] /\ handler'[k] = "connect"
            /\ \A j \in Slots : j # k => handler'[j] = handler[j]
        BY <2>7, <1>0 DEF HandlerSteps
      <3>2. ASSUME NEW j \in Slots
            PROVE  /\ Holds(j)'
                   /\ handler'[j] \in {"none", "recv"} =>
                        receivingInfo'[j] = 0 /\ buffer'[j] = <<>>
                   /\ handler'[j] \in {"parse", "link"} =>
                        /\ socket'[j] \in infoSent' /\ receivingInfo'[j] # 0
                        /\ strtokPlace'.owner # 0 /\ buffer'[j] # <<>>
        <4>1. CASE j = k
          BY <4>1, <2>5, <2>7, <3>1 DEF Holds
        <4>2. CASE j # k
          BY <4>2, <3>1, <2>1, <2>3, <2>4, <2>7 DEF ThreadShape, Holds
        <4>3. QED
          BY <4>1, <4>2
      <3>3. QED
        BY <2>1, <2>3, <2>4, <2>7, <3>1, <3>2, <1>0 DEF ThreadShape
    <2>8. QED
      BY <2>1, <2>6, <2>7
  <1>5. ASSUME NEW k \in Slots, NextToken(k) PROVE ThreadShape'
    <2>1. PICK token \in Tokens :
            /\ strtokPlace' = IF token = NULL THEN strtokPlace
                              ELSE [strtokPlace EXCEPT !.at = @ + 1]
            /\ EndOfInfo(k, token) \/ AddServer(k, token) \/ AddPath(k, token)
      BY <1>5 DEF NextToken
    <2>2. handler[k] = "parse" /\ UNCHANGED <<infoSent, socket, buffer, watched>>
      BY <1>5 DEF NextToken, At, storage
    <2>3. \/ UNCHANGED receivingInfo
          \/ receivingInfo' = [receivingInfo EXCEPT ![k] = 2]
      BY <2>1 DEF EndOfInfo, AddServer, AddPath
    <2>4. \/ UNCHANGED handler
          \/ handler' = [handler EXCEPT ![k] = "link"]
          \/ handler' = [handler EXCEPT ![k] = "connect"]
      BY <2>1 DEF EndOfInfo, AddServer, AddPath, Goto
    <2>5. /\ receivingInfo' \in [Slots -> 0..2] /\ receivingInfo'[k] # 0
          /\ \A j \in Slots : j # k => receivingInfo'[j] = receivingInfo[j]
      BY <2>2, <2>3, <1>0 DEF ThreadShape
    <2>6. /\ handler' \in [Slots -> HandlerSteps] /\ handler'[k] \in {"parse", "link", "connect"}
          /\ \A j \in Slots : j # k => handler'[j] = handler[j]
      BY <2>2, <2>4, <1>0 DEF HandlerSteps
    <2>7. ASSUME NEW j \in Slots
          PROVE  /\ Holds(j)'
                 /\ handler'[j] \in {"none", "recv"} =>
                      receivingInfo'[j] = 0 /\ buffer'[j] = <<>>
                 /\ handler'[j] \in {"parse", "link"} =>
                      /\ socket'[j] \in infoSent' /\ receivingInfo'[j] # 0
                      /\ strtokPlace.owner # 0 /\ buffer'[j] # <<>>
      <3>1. Holds(j)'
        BY <2>2 DEF Holds, ThreadShape
      <3>2. CASE j = k
        BY <3>1, <3>2, <2>2, <2>5, <2>6 DEF ThreadShape
      <3>3. CASE j # k
        BY <3>1, <3>3, <2>2, <2>5, <2>6 DEF ThreadShape
      <3>4. QED
        BY <3>2, <3>3
    <2>8. /\ strtokPlace' \in [owner : Numbers, at : Nat]
          /\ strtokPlace'.owner = strtokPlace.owner
          /\ strtokPlace'.owner # 0 => strtokPlace'.at >= 2
      BY <2>1, PlaceTyped
    <2>9. QED
      BY <2>2, <2>5, <2>6, <2>7, <2>8, <1>0 DEF ThreadShape
  <1>6. ASSUME NEW k \in Slots, ReceiveFails(k) \/ LinkNode(k) \/ NoticeDown(k)
        PROVE  ThreadShape'
    <2>1. /\ UNCHANGED <<socket, buffer, receivingInfo, strtokPlace, watched, infoSent>>
          /\ \/ handler' = [handler EXCEPT ![k] = "ended"]
             \/ handler[k] = "link" /\ handler' = [handler EXCEPT ![k] = "parse"]
      BY <1>6 DEF ReceiveFails, LinkNode, NoticeDown, At, Goto, local, storage
    <2>2. /\ handler' \in [Slots -> HandlerSteps]
          /\ \A j \in Slots : \/ handler'[j] = handler[j]
                              \/ handler[j] = "link" /\ handler'[j] = "parse"
                              \/ handler'[j] \in Past
      BY <2>1, <1>0 DEF HandlerSteps, Past
    <2>3. QED
      BY <2>1, <2>2, <1>0, ThreadKept
  <1>7. ASSUME NEW k \in Slots, InitConnection(k) PROVE ThreadShape'
    <2>1. UNCHANGED <<socket, buffer, receivingInfo, strtokPlace, infoSent>>
      BY <1>7 DEF InitConnection, storage
    <2>2. CASE UNCHANGED <<handler, watched>>
      BY <2>1, <2>2, <1>0, ThreadKept
    <2>3. CASE handler' = [handler EXCEPT ![k] = "ended"] /\ UNCHANGED watched
      <3>1. /\ handler' \in [Slots -> HandlerSteps]
            /\ \A j \in Slots : handler'[j] = handler[j] \/ handler'[j] \in Past
        BY <2>3, <1>0 DEF HandlerSteps, Past
      <3>2. QED
        BY <2>1, <2>3, <3>1, <1>0, ThreadKept
    <2>4. ASSUME server[k] # 0,
                 storageServerList[server[k]].server # Nobody,
                 pc[storageServerList[server[k]].server] # "down",
                 handler' = [handler EXCEPT ![k] = "watch"],
                 watched' = [watched EXCEPT ![k] = Current(storageServerList[server[k]].server)]
          PROVE  ThreadShape'
      <3>1. /\ handler' \in [Slots -> HandlerSteps]
            /\ \A j \in Slots : handler'[j] = handler[j] \/ handler'[j] \in Past
        BY <2>4, <1>0 DEF HandlerSteps, Past
      <3>2. storageServerList[server[k]] \in Entries
        <4>1. server[k] \in 1..Len(storageServerList)
          BY <2>4, LenProperties DEF ListShape
        <4>2. QED
          BY <4>1, ElementOfSeq DEF ListShape
      <3>3. Current(storageServerList[server[k]].server) \in Conns
        BY <2>4, <3>2, CurrentIs DEF Entries
      <3>4. QED
        BY <2>1, <2>4, <3>1, <3>3, <1>0, ThreadKept
    <2>5. QED
      BY <1>7, <2>2, <2>3, <2>4 DEF InitConnection, Goto
  <1>8. QED
    BY <1>1, <1>2, <1>3, <1>4, <1>5, <1>6, <1>7 DEF Next, Acceptor, Handler, Rest

----------------------------------------------------------------------------
(* What the steps of a thread do to the list *)

LEMMA EntryIs ==
  ASSUME ListShape, NEW k \in Slots, server[k] # 0
  PROVE  /\ server[k] \in 1..Len(storageServerList) /\ server[k] \in DOMAIN storageServerList
         /\ storageServerList[server[k]] \in Entries
         /\ storageServerList[server[k]].paths \in Seq(PathNames)
         /\ Len(storageServerList[server[k]].paths) \in Nat
         /\ Len(storageServerList[server[k]].paths) <= MaxPaths
  <1>1. server[k] \in 1..Len(storageServerList) /\ server[k] \in DOMAIN storageServerList
    BY LenProperties DEF ListShape
  <1>2. storageServerList[server[k]] \in Entries
    BY <1>1, ElementOfSeq DEF ListShape
  <1>3. storageServerList[server[k]].paths \in Seq(PathNames)
    BY <1>2 DEF Entries
  <1>4. Len(storageServerList[server[k]].paths) \in Nat
    BY <1>3, LenProperties
  <1>5. QED
    BY <1>1, <1>2, <1>3, <1>4 DEF ListShape

LEMMA ListLen ==
  ASSUME ListShape
  PROVE  /\ Len(storageServerList) \in Nat
         /\ DOMAIN storageServerList = 1..Len(storageServerList)
         /\ \A e \in 1..Len(storageServerList) : storageServerList[e] \in Entries
  BY LenProperties, ElementOfSeq DEF ListShape

LEMMA ServerAdded ==
  ASSUME ListShape, NEW k \in Slots, NEW token, AddServer(k, token)
  PROVE  LET n == Len(storageServerList)
         IN  /\ storageServerList' \in Seq(Entries) /\ Len(storageServerList') = n + 1
             /\ DOMAIN storageServerList' = 1..n + 1
             /\ \A e \in 1..n : storageServerList'[e] = storageServerList[e]
             /\ storageServerList'[n + 1] = Entry(token)
             /\ server' \in [Slots -> 0..n + 1] /\ server'[k] = n + 1
             /\ \A j \in Slots : j # k => server'[j] = server[j]
             /\ server[k] = 0
  <1> DEFINE n == Len(storageServerList)
  <1>1. n \in Nat
    BY ListLen
  <1>2. Entry(token) \in Entries
    <2>1. <<>> \in Seq(PathNames)
      BY EmptySeq
    <2>2. QED
      BY <2>1 DEF Entry, Entries
  <1>3. storageServerList' = Append(storageServerList, Entry(token))
    BY DEF AddServer
  <1>4. /\ storageServerList' \in Seq(Entries) /\ Len(storageServerList') = n + 1
        /\ \A e \in 1..n : storageServerList'[e] = storageServerList[e]
        /\ storageServerList'[n + 1] = Entry(token)
    BY <1>2, <1>3, AppendProperties DEF ListShape
  <1>5. DOMAIN storageServerList' = 1..n + 1
    BY <1>4, LenProperties
  <1>6. server[k] = 0
    BY DEF AddServer, ListShape
  <1>7. server' = [server EXCEPT ![k] = n + 1]
    BY DEF AddServer
  <1> HIDE DEF n
  <1>8. /\ server' \in [Slots -> 0..n + 1] /\ server'[k] = n + 1
        /\ \A j \in Slots : j # k => server'[j] = server[j]
    BY <1>1, <1>7 DEF ListShape, n
  <1>9. QED
    BY <1>4, <1>5, <1>6, <1>8 DEF n

\* One entry is changed, and only in its paths or the mark of running.
LEMMA EntryChanged ==
  ASSUME ListShape, NEW k \in Slots, server[k] # 0, NEW x \in Entries,
         storageServerList' = [storageServerList EXCEPT ![server[k]] = x]
  PROVE  /\ storageServerList' \in Seq(Entries)
         /\ Len(storageServerList') = Len(storageServerList)
         /\ DOMAIN storageServerList' = DOMAIN storageServerList
         /\ storageServerList'[server[k]] = x
         /\ \A e \in 1..Len(storageServerList) :
              e # server[k] => storageServerList'[e] = storageServerList[e]
  <1>1. PICK n : n = server[k]
    OBVIOUS
  <1>2. n \in 1..Len(storageServerList)
    BY <1>1, EntryIs
  <1>3. storageServerList' = [storageServerList EXCEPT ![n] = x]
    BY <1>1
  <1>4. /\ storageServerList' \in Seq(Entries)
        /\ Len(storageServerList') = Len(storageServerList)
        /\ \A e \in 1..Len(storageServerList) :
             storageServerList'[e] = IF e = n THEN x ELSE storageServerList[e]
    BY <1>2, <1>3, ExceptSeq DEF ListShape
  <1>5. DOMAIN storageServerList' = DOMAIN storageServerList
    BY <1>3
  <1>6. QED
    BY <1>1, <1>2, <1>4, <1>5

LEMMA PathAdded ==
  ASSUME ListShape, NEW k \in Slots, server[k] # 0, NEW token \in PathNames,
         storageServerList' =
           [storageServerList EXCEPT ![server[k]].paths = Append(@, token)]
  PROVE  LET paths == storageServerList[server[k]].paths
         IN  /\ storageServerList' \in Seq(Entries)
             /\ Len(storageServerList') = Len(storageServerList)
             /\ DOMAIN storageServerList' = DOMAIN storageServerList
             /\ storageServerList'[server[k]].server = storageServerList[server[k]].server
             /\ storageServerList'[server[k]].paths \in Seq(PathNames)
             /\ storageServerList'[server[k]].paths # <<>>
             /\ Len(storageServerList'[server[k]].paths) = Len(paths) + 1
             /\ DOMAIN storageServerList'[server[k]].paths = 1..Len(paths) + 1
             /\ \A i \in 1..Len(paths) : storageServerList'[server[k]].paths[i] = paths[i]
             /\ storageServerList'[server[k]].paths[Len(paths) + 1] = token
             /\ \A e \in 1..Len(storageServerList) :
                  e # server[k] => storageServerList'[e] = storageServerList[e]
  <1>1. PICK e : e = storageServerList[server[k]]
    OBVIOUS
  <1>2. e \in Entries /\ e.paths \in Seq(PathNames)
    BY <1>1, EntryIs
  <1>3. PICK q : q = Append(e.paths, token)
    OBVIOUS
  <1>4. /\ q \in Seq(PathNames) /\ q # <<>> /\ Len(q) = Len(e.paths) + 1
        /\ \A i \in 1..Len(e.paths) : q[i] = e.paths[i]
        /\ q[Len(e.paths) + 1] = token
    BY <1>2, <1>3, AppendProperties
  <1>5. DOMAIN q = 1..Len(e.paths) + 1
    BY <1>4, LenProperties
  <1>6. PICK x : x = [e EXCEPT !.paths = q]
    OBVIOUS
  <1>7. x \in Entries /\ x.paths = q /\ x.server = e.server
    BY <1>2, <1>4, <1>6 DEF Entries
  <1>8. storageServerList' = [storageServerList EXCEPT ![server[k]] = x]
    BY <1>1, <1>3, <1>6
  <1>9. /\ storageServerList' \in Seq(Entries)
        /\ Len(storageServerList') = Len(storageServerList)
        /\ DOMAIN storageServerList' = DOMAIN storageServerList
        /\ storageServerList'[server[k]] = x
        /\ \A i \in 1..Len(storageServerList) :
             i # server[k] => storageServerList'[i] = storageServerList[i]
    BY <1>7, <1>8, EntryChanged
  <1>10. QED
    BY <1>1, <1>4, <1>5, <1>7, <1>9

LEMMA RunningChanged ==
  ASSUME ListShape, NEW k \in Slots, server[k] # 0, NEW b \in BOOLEAN,
         storageServerList' = [storageServerList EXCEPT ![server[k]].running = b]
  PROVE  /\ storageServerList' \in Seq(Entries)
         /\ Len(storageServerList') = Len(storageServerList)
         /\ DOMAIN storageServerList' = DOMAIN storageServerList
         /\ \A e \in 1..Len(storageServerList) :
              /\ storageServerList'[e].server = storageServerList[e].server
              /\ storageServerList'[e].paths = storageServerList[e].paths
  <1>1. PICK e : e = storageServerList[server[k]]
    OBVIOUS
  <1>2. e \in Entries
    BY <1>1, EntryIs
  <1>3. PICK x : x = [e EXCEPT !.running = b]
    OBVIOUS
  <1>4. x \in Entries /\ x.paths = e.paths /\ x.server = e.server
    BY <1>2, <1>3 DEF Entries
  <1>5. storageServerList' = [storageServerList EXCEPT ![server[k]] = x]
    BY <1>1, <1>3
  <1>6. /\ storageServerList' \in Seq(Entries)
        /\ Len(storageServerList') = Len(storageServerList)
        /\ DOMAIN storageServerList' = DOMAIN storageServerList
        /\ storageServerList'[server[k]] = x
        /\ \A i \in 1..Len(storageServerList) :
             i # server[k] => storageServerList'[i] = storageServerList[i]
    BY <1>4, <1>5, EntryChanged
  <1>7. QED
    BY <1>1, <1>4, <1>6

\* What a step does to the list, the bucket, and what the threads have read.
Quiet ==
  /\ UNCHANGED <<storageServerList, server, table, seen, socket, buffer, receivingInfo,
                 strtokPlace, told>>
  /\ faults \subseteq faults' /\ infoSent \subseteq infoSent'
  /\ \A k \in Slots : \/ handler'[k] = handler[k]
                      \/ handler[k] = "none" /\ handler'[k] = "recv"
                      \/ handler[k] \in {"recv", "connect"} /\ handler'[k] = "ended"

Ends(k) ==
  /\ handler[k] = "parse" /\ strtokPlace.owner # 0
  /\ UNCHANGED <<socket, buffer, infoSent>>
  /\ \E token \in Tokens :
       /\ strtokPlace' = IF token = NULL THEN strtokPlace ELSE [strtokPlace EXCEPT !.at = @ + 1]
       /\ EndOfInfo(k, token)
  /\ faults' = IF strtokPlace.owner = k THEN faults ELSE faults \cup {"crossed"}

Adds(k) ==
  /\ handler[k] = "parse" /\ strtokPlace.owner # 0
  /\ UNCHANGED <<socket, buffer, told, infoSent>>
  /\ \E token \in Tokens :
       /\ token # NULL /\ strtokPlace' = [strtokPlace EXCEPT !.at = @ + 1]
       /\ AddServer(k, token) \/ AddPath(k, token)
  /\ faults' = IF strtokPlace.owner = k THEN faults ELSE faults \cup {"crossed"}

Watches(k) ==
  /\ server[k] # 0 /\ UNCHANGED <<server, table, seen, receivingInfo>>
  /\ \E b \in BOOLEAN :
       storageServerList' = [storageServerList EXCEPT ![server[k]].running = b]
  /\ handler' = [handler EXCEPT ![k] = "watch"] \/ handler' = [handler EXCEPT ![k] = "ended"]
  /\ UNCHANGED <<faults, told, socket, buffer, strtokPlace, infoSent>>
  /\ handler[k] \in Past

LEMMA Moves ==
  ASSUME AcceptShape, ThreadShape, ListShape, [Next]_vars
  PROVE  \/ Quiet
         \/ \E k \in Slots : Receive(k) \/ Ends(k) \/ Adds(k) \/ LinkNode(k) \/ Watches(k)
  <1>0. handler \in [Slots -> HandlerSteps] /\ receivingInfo \in [Slots -> 0..2]
    BY DEF ThreadShape
  <1>1. ASSUME NEW s \in Servers, Connect(s) \/ Register(s) \/ Stop(s) PROVE Quiet
    BY <1>1 DEF Quiet, Connect, Register, SendInfo, OpenPort, ReceiveId, Stop, local, directory,
                replies
  <1>2. CASE Acceptor
    <2>1. UNCHANGED <<local, directory, strtokPlace, replies, storage>> /\ faults \subseteq faults'
          /\ \/ UNCHANGED handler
             \/ handler' = [handler EXCEPT ![ss_count + 1] = "recv"]
      BY <1>2 DEF Acceptor, Accept, AcceptBeyond, AcceptWithoutThread, AcceptLocked, Take
    <2>2. ss_count + 1 \in Slots => handler[ss_count + 1] = "none"
      BY BoundsAssumption DEF AcceptShape, Slots, Numbers
    <2>3. \A k \in Slots : handler'[k] = handler[k]
                            \/ (handler[k] = "none" /\ handler'[k] = "recv")
      BY <2>1, <2>2, <1>0
    <2>4. QED
      BY <2>1, <2>3 DEF Quiet, local, directory, replies, storage
  <1>3. ASSUME NEW k \in Slots, ReceiveFails(k) PROVE Quiet
    <2>1. UNCHANGED <<local, directory, strtokPlace, replies, storage, faults>>
          /\ handler' = [handler EXCEPT ![k] = "ended"] /\ handler[k] = "recv"
      BY <1>3 DEF ReceiveFails, Goto, At
    <2>2. QED
      BY <2>1, <1>0 DEF Quiet, local, directory, replies, storage
  <1>4. ASSUME NEW k \in Slots, NextToken(k) PROVE Ends(k) \/ Adds(k)
    <2>1. PICK token \in Tokens :
            /\ strtokPlace' = IF token = NULL THEN strtokPlace
                              ELSE [strtokPlace EXCEPT !.at = @ + 1]
            /\ EndOfInfo(k, token) \/ AddServer(k, token) \/ AddPath(k, token)
      BY <1>4 DEF NextToken
    <2>2. handler[k] = "parse" /\ UNCHANGED <<socket, buffer, infoSent>>
          /\ faults' = IF strtokPlace.owner = k THEN faults ELSE faults \cup {"crossed"}
      BY <1>4 DEF NextToken, At, storage
    <2>3. strtokPlace.owner # 0
      BY <2>2 DEF ThreadShape
    <2>4. CASE EndOfInfo(k, token)
      BY <2>1, <2>2, <2>3, <2>4 DEF Ends
    <2>5. CASE AddServer(k, token) \/ AddPath(k, token)
      <3>1. token # NULL /\ UNCHANGED told
        BY <2>5 DEF AddServer, AddPath, replies
      <3>2. QED
        BY <2>1, <2>2, <2>3, <2>5, <3>1 DEF Adds
    <2>6. QED
      BY <2>1, <2>4, <2>5
  <1>5. ASSUME NEW k \in Slots, InitConnection(k) PROVE Quiet \/ Watches(k)
    <2>1. UNCHANGED <<server, table, seen, receivingInfo, faults, told, socket, buffer,
                      strtokPlace, infoSent>>
          /\ handler[k] = "connect"
      BY <1>5 DEF InitConnection, replies, At, storage
    <2>2. CASE UNCHANGED <<handler, storageServerList>>
      BY <2>1, <2>2 DEF Quiet
    <2>3. CASE handler' = [handler EXCEPT ![k] = "ended"] /\ UNCHANGED storageServerList
      BY <2>1, <2>3, <1>0 DEF Quiet
    <2>4. CASE /\ handler' = [handler EXCEPT ![k] = "watch"] /\ server[k] # 0
               /\ storageServerList' = [storageServerList EXCEPT ![server[k]].running = TRUE]
      BY <2>1, <2>4 DEF Watches, Past
    <2>5. QED
      BY <1>5, <2>2, <2>3, <2>4 DEF InitConnection, Goto
  <1>6. ASSUME NEW k \in Slots, NoticeDown(k) PROVE Watches(k)
    <2>1. handler[k] = "watch" /\ handler' = [handler EXCEPT ![k] = "ended"]
          /\ UNCHANGED <<server, table, seen, receivingInfo, faults, told, socket, buffer,
                         strtokPlace, infoSent>>
          /\ storageServerList' = [storageServerList EXCEPT ![server[k]].running = FALSE]
      BY <1>6 DEF NoticeDown, At, Goto, local, replies, storage
    <2>2. server[k] # 0
      BY <2>1 DEF ListShape
    <2>3. QED
      BY <2>1, <2>2 DEF Watches, Past
  <1>7. CASE UNCHANGED vars
    BY <1>7 DEF Quiet, vars, local, directory, replies, storage
  <1>8. QED
    BY <1>1, <1>2, <1>3, <1>4, <1>5, <1>6, <1>7 DEF Next, Handler, Rest

\* What Receive and EndOfInfo do.
LEMMA Received ==
  ASSUME AcceptShape, ThreadShape, NEW k \in Slots, Receive(k)
  PROVE  LET c == args[k]
             message == Message(c.server)
         IN  /\ handler[k] = "recv" /\ c \in Conns /\ c.server \in Servers
             /\ UNCHANGED <<storageServerList, server, table, seen, told, infoSent>>
             /\ receivingInfo[k] = 0 /\ receivingInfo'[k] \in {0, 1}
             /\ strtokPlace'.owner = k /\ strtokPlace'.at = 2
             /\ socket'[k] = c
             /\ \/ /\ c \in infoSent /\ handler'[k] = "parse" /\ receivingInfo'[k] = 1
                   /\ \E n \in 2..Len(message) :
                        /\ buffer'[k] = SubSeq(message, 1, n)
                        /\ faults' = IF n = Len(message) THEN faults ELSE faults \cup {"cut"}
                \/ handler'[k] = "connect" /\ faults' = faults \cup {"hungUp"}
             /\ \A j \in Slots : j # k =>
                  /\ handler'[j] = handler[j] /\ socket'[j] = socket[j]
                  /\ buffer'[j] = buffer[j] /\ receivingInfo'[j] = receivingInfo[j]
  <1>0. /\ handler \in [Slots -> HandlerSteps] /\ socket \in [Slots -> Conns \cup {Nobody}]
        /\ receivingInfo \in [Slots -> 0..2] /\ DOMAIN buffer = Slots
    BY DEF ThreadShape
  <1> DEFINE c == args[k]
             message == Message(c.server)
  <1>1. /\ handler[k] = "recv" /\ UNCHANGED <<server, seen, directory, told, storage>>
        /\ socket' = [socket EXCEPT ![k] = c]
        /\ strtokPlace' = [owner |-> k, at |-> 2]
        /\ \/ /\ c \in infoSent
              /\ \E n \in 2..Len(message) :
                   /\ buffer' = [buffer EXCEPT ![k] = SubSeq(message, 1, n)]
                   /\ faults' = IF n = Len(message) THEN faults ELSE faults \cup {"cut"}
              /\ receivingInfo' = [receivingInfo EXCEPT ![k] = 1]
              /\ handler' = [handler EXCEPT ![k] = "parse"]
           \/ /\ handler' = [handler EXCEPT ![k] = "connect"]
              /\ faults' = faults \cup {"hungUp"}
              /\ UNCHANGED <<buffer, receivingInfo>>
    BY DEF Receive, ReceiveAtLeast, At, Goto
  <1>2. c \in Conns /\ c.server \in Servers
    BY <1>1, ConnIs DEF AcceptShape
  <1>3. receivingInfo[k] = 0
    BY <1>1 DEF ThreadShape
  <1>4. /\ socket'[k] = c /\ strtokPlace'.owner = k /\ strtokPlace'.at = 2
        /\ \A j \in Slots : j # k => socket'[j] = socket[j]
    BY <1>1, <1>0
  <1> HIDE DEF c, message
  <1>5. CASE /\ c \in infoSent
             /\ \E n \in 2..Len(message) :
                  /\ buffer' = [buffer EXCEPT ![k] = SubSeq(message, 1, n)]
                  /\ faults' = IF n = Len(message) THEN faults ELSE faults \cup {"cut"}
             /\ receivingInfo' = [receivingInfo EXCEPT ![k] = 1]
             /\ handler' = [handler EXCEPT ![k] = "parse"]
    <2>1. PICK n \in 2..Len(message) :
            /\ buffer' = [buffer EXCEPT ![k] = SubSeq(message, 1, n)]
            /\ faults' = IF n = Len(message) THEN faults ELSE faults \cup {"cut"}
      BY <1>5
    <2>2. /\ buffer'[k] = SubSeq(message, 1, n) /\ receivingInfo'[k] = 1 /\ handler'[k] = "parse"
          /\ \A j \in Slots : j # k =>
               /\ handler'[j] = handler[j] /\ buffer'[j] = buffer[j]
               /\ receivingInfo'[j] = receivingInfo[j]
      BY <1>0, <1>5, <2>1
    <2>3. QED
      BY <1>1, <1>2, <1>3, <1>4, <1>5, <2>1, <2>2 DEF c, message, directory, storage
  <1>6. CASE /\ handler' = [handler EXCEPT ![k] = "connect"]
             /\ faults' = faults \cup {"hungUp"}
             /\ UNCHANGED <<buffer, receivingInfo>>
    <2>1. handler'[k] = "connect" /\ \A j \in Slots : j # k => handler'[j] = handler[j]
      BY <1>0, <1>6
    <2>2. QED
      BY <1>1, <1>2, <1>3, <1>4, <1>6, <2>1 DEF c, message, directory, storage
  <1>7. QED
    BY <1>1, <1>5, <1>6 DEF c, message

LEMMA Ended ==
  ASSUME ThreadShape, NEW k \in Slots, Ends(k)
  PROVE  /\ UNCHANGED <<storageServerList, server, table, seen, receivingInfo>>
         /\ handler'[k] = "connect" /\ strtokPlace'.owner = strtokPlace.owner
         /\ \A j \in Slots : j # k => handler'[j] = handler[j]
  <1>1. PICK token \in Tokens :
          /\ strtokPlace' = IF token = NULL THEN strtokPlace
                            ELSE [strtokPlace EXCEPT !.at = @ + 1]
          /\ EndOfInfo(k, token)
    BY DEF Ends
  <1>2. strtokPlace'.owner = strtokPlace.owner
    BY <1>1, PlaceTyped
  <1>3. UNCHANGED <<storageServerList, server, table, seen, receivingInfo>>
        /\ handler' = [handler EXCEPT ![k] = "connect"]
    BY <1>1 DEF EndOfInfo, Goto, directory
  <1>4. QED
    BY <1>2, <1>3 DEF ThreadShape

----------------------------------------------------------------------------
(* The list and its length *)

LEMMA ListInit == Init => ListShape /\ Filled
  <1> SUFFICES ASSUME Init PROVE ListShape /\ Filled
    OBVIOUS
  <1>1. storageServerList = <<>> /\ Len(storageServerList) = 0
        /\ DOMAIN storageServerList = {}
    BY DEF Init
  <1>2. storageServerList \in Seq(Entries) /\ table \in Bucket
        /\ seen \in [Slots -> Bucket]
    BY EmptySeq DEF Init, Bucket
  <1>3. Registered = {}
    BY DEF Init, Registered
  <1>4. server \in [Slots -> 0..Len(storageServerList)]
    BY <1>1 DEF Init
  <1>5. QED
    BY <1>1, <1>2, <1>3, <1>4, FS_EmptySet DEF Init, ListShape, Filled

\* There is room in the numbers for every entry.
LEMMA ListFits ==
  ASSUME Filled, ListShape
  PROVE  /\ Len(storageServerList) <= MaxServers
         /\ \A k \in Slots : server[k] # 0 => server[k] \in Slots
         /\ IsFiniteSet(Registered)
  <1>1. IsFiniteSet(Slots) /\ Cardinality(Slots) = MaxServers
    BY FS_Interval, BoundsAssumption DEF Slots
  <1>2. IsFiniteSet(Registered) /\ Cardinality(Registered) <= MaxServers
    BY <1>1, FS_Subset DEF Registered
  <1>3. Len(storageServerList) <= MaxServers
    BY <1>2 DEF Filled
  <1>4. ASSUME NEW k \in Slots, server[k] # 0 PROVE server[k] \in Slots
    BY <1>3, <1>4, BoundsAssumption, ListLen DEF ListShape, Slots
  <1>5. QED
    BY <1>2, <1>3, <1>4

LEMMA LinkEffect ==
  ASSUME ThreadShape, ListShape, Filled, NEW k \in Slots, LinkNode(k)
  PROVE  LET paths == storageServerList[server[k]].paths
             node  == [path |-> paths[Len(paths)], server |-> server[k]]
         IN  /\ server[k] # 0 /\ paths \in Seq(PathNames) /\ Len(paths) \in Nat \ {0}
             /\ node \in [path : PathNames, server : Slots]
             /\ table' \in Bucket /\ ToSet(table') = {node} \cup ToSet(seen[k])
  <1>1. handler[k] = "link" /\ server[k] # 0 /\ storageServerList[server[k]].paths # <<>>
    BY DEF LinkNode, At, ListShape
  <1>2. PICK paths : paths = storageServerList[server[k]].paths
    OBVIOUS
  <1>3. paths \in Seq(PathNames) /\ Len(paths) \in Nat \ {0}
    BY <1>1, <1>2, EntryIs, EmptySeq
  <1>4. paths[Len(paths)] \in PathNames
    BY <1>3, ElementOfSeq
  <1>5. PICK node : node = [path |-> paths[Len(paths)], server |-> server[k]]
    OBVIOUS
  <1>6. node \in [path : PathNames, server : Slots]
    BY <1>1, <1>4, <1>5, ListFits
  <1>7. table' = <<node>> \o seen[k]
    BY <1>2, <1>5 DEF LinkNode, Last
  <1> DEFINE N == [path : PathNames, server : Slots]
  <1>8. <<node>> \in Seq(N) /\ Len(<<node>>) = 1 /\ <<node>>[1] = node
    BY <1>6
  <1>9. seen[k] \in Seq(N)
    BY DEF ListShape, Bucket
  <1> HIDE DEF N
  <1>10. PICK n \in Nat : n = Len(seen[k])
    BY <1>9, LenProperties
  <1>11. /\ table' \in Seq(N) /\ Len(table') = 1 + n
         /\ \A i \in 1..1 + n : table'[i] = IF i <= 1 THEN <<node>>[i] ELSE seen[k][i - 1]
    BY <1>7, <1>8, <1>9, <1>10, ConcatProperties
  <1>12. DOMAIN table' = 1..1 + n /\ DOMAIN seen[k] = 1..n
    BY <1>9, <1>10, <1>11, LenProperties
  <1>13. table'[1] = node /\ \A i \in 1..n : table'[i + 1] = seen[k][i]
    <2>1. table'[1] = node
      BY <1>8, <1>11
    <2>2. ASSUME NEW i \in 1..n PROVE table'[i + 1] = seen[k][i]
      <3>1. i + 1 \in 1..1 + n /\ ~(i + 1 <= 1) /\ (i + 1) - 1 = i
        OBVIOUS
      <3>2. QED
        BY <3>1, <1>11
    <2>3. QED
      BY <2>1, <2>2
  <1>14. ToSet(table') \subseteq {node} \cup ToSet(seen[k])
    <2>1. ASSUME NEW i \in 1..1 + n PROVE table'[i] \in {node} \cup ToSet(seen[k])
      <3>1. CASE i = 1
        BY <3>1, <1>13
      <3>2. CASE i # 1
        <4>1. i - 1 \in 1..n /\ (i - 1) + 1 = i
          BY <3>2
        <4>2. table'[i] = seen[k][i - 1]
          BY <4>1, <1>13
        <4>3. QED
          BY <4>1, <4>2, <1>12 DEF ToSet
      <3>3. QED
        BY <3>1, <3>2
    <2>2. QED
      BY <2>1, <1>12 DEF ToSet
  <1>15. {node} \cup ToSet(seen[k]) \subseteq ToSet(table')
    <2>1. node \in ToSet(table')
      <3>1. 1 \in 1..1 + n
        OBVIOUS
      <3>2. QED
        BY <3>1, <1>12, <1>13 DEF ToSet
    <2>2. ASSUME NEW i \in 1..n PROVE seen[k][i] \in ToSet(table')
      <3>1. i + 1 \in 1..1 + n
        OBVIOUS
      <3>2. QED
        BY <3>1, <1>12, <1>13 DEF ToSet
    <2>3. QED
      BY <2>1, <2>2, <1>12 DEF ToSet
  <1>16. QED
    BY <1>1, <1>2, <1>3, <1>5, <1>6, <1>11, <1>14, <1>15 DEF N, Bucket

LEMMA ListStep ==
  AcceptShape /\ ThreadShape /\ ListShape /\ Filled /\ [Next]_vars => ListShape' /\ Filled'
  <1> SUFFICES ASSUME AcceptShape, ThreadShape, ListShape, Filled, [Next]_vars
               PROVE  ListShape' /\ Filled'
    OBVIOUS
  <1>0. handler \in [Slots -> HandlerSteps] /\ receivingInfo \in [Slots -> 0..2]
        /\ seen \in [Slots -> Bucket] /\ Len(storageServerList) \in Nat
    BY ListLen DEF ThreadShape, ListShape
  <1>1. CASE Quiet \/ \E k \in Slots : Receive(k) \/ Ends(k)
    <2>1. UNCHANGED <<storageServerList, server, table, seen>>
          /\ \A j \in Slots : /\ receivingInfo'[j] = 2 <=> receivingInfo[j] = 2
                              /\ handler'[j] \in {"link", "watch"} => handler'[j] = handler[j]
      BY <1>1, Received, Ended DEF Quiet
    <2>2. QED
      BY <2>1 DEF ListShape, Filled, Registered
  <1>2. ASSUME NEW k \in Slots, Adds(k) PROVE ListShape' /\ Filled'
    <2>1. PICK token \in Tokens : token # NULL /\ (AddServer(k, token) \/ AddPath(k, token))
      BY <1>2 DEF Adds
    <2>2. handler[k] = "parse" /\ strtokPlace.owner # 0
      BY <1>2 DEF Adds
    <2>3. CASE AddServer(k, token)
      <3>1. PICK n \in Nat : n = Len(storageServerList)
        BY <1>0
      <3>2. /\ storageServerList' \in Seq(Entries) /\ Len(storageServerList') = n + 1
            /\ DOMAIN storageServerList' = 1..n + 1
            /\ \A e \in 1..n : storageServerList'[e] = storageServerList[e]
            /\ storageServerList'[n + 1] = Entry(token)
            /\ server' \in [Slots -> 0..n + 1] /\ server'[k] = n + 1
            /\ \A j \in Slots : j # k => server'[j] = server[j]
            /\ server[k] = 0
        BY <2>3, <3>1, ServerAdded
      <3>3. /\ UNCHANGED <<handler, seen, table>>
            /\ receivingInfo' = [receivingInfo EXCEPT ![k] = 2]
        BY <2>3 DEF AddServer
      <3>4. ASSUME NEW e \in 1..n + 1 PROVE Len(storageServerList'[e].paths) <= MaxPaths
        <4>1. CASE e = n + 1
          <5>1. Len(<<>>) = 0
            OBVIOUS
          <5>2. Len(storageServerList'[e].paths) = 0
            BY <4>1, <5>1, <3>2 DEF Entry
          <5>3. QED
            BY <5>2, BoundsAssumption
        <4>2. CASE e \in 1..n
          BY <4>2, <3>1, <3>2, ListLen DEF ListShape
        <4>3. QED
          BY <4>1, <4>2
      <3>5. ASSUME NEW j \in Slots
            PROVE  /\ server'[j] # 0 <=> receivingInfo'[j] = 2
                   /\ handler'[j] \in {"link", "watch"} => server'[j] # 0
                   /\ handler'[j] = "link" => storageServerList'[server'[j]].paths # <<>>
        <4>1. CASE j = k
          BY <4>1, <3>2, <3>3, <2>2, <1>0
        <4>2. CASE j # k
          <5>1. server'[j] = server[j] /\ receivingInfo'[j] = receivingInfo[j]
                /\ handler'[j] = handler[j]
            BY <4>2, <3>2, <3>3, <1>0
          <5>2. server[j] # 0 => storageServerList'[server[j]] = storageServerList[server[j]]
            BY <3>1, <3>2, EntryIs
          <5>3. QED
            BY <5>1, <5>2 DEF ListShape
        <4>3. QED
          BY <4>1, <4>2
      <3>6. \A j \in Slots : server[j] \in 0..n
        BY <3>1 DEF ListShape
      <3>7. ASSUME NEW i \in Slots, NEW j \in Slots, server'[i] = server'[j], server'[j] # 0
            PROVE  i = j
        <4>1. CASE i = k /\ j # k
          BY <4>1, <3>2, <3>6, <3>7
        <4>2. CASE i # k /\ j = k
          BY <4>2, <3>2, <3>6, <3>7
        <4>3. CASE i # k /\ j # k
          BY <4>3, <3>2, <3>7 DEF ListShape
        <4>4. QED
          BY <4>1, <4>2, <4>3
      <3>8. ListShape'
        BY <3>2, <3>3, <3>4, <3>5, <3>7 DEF ListShape
      <3>9. Registered' = Registered \cup {k} /\ k \notin Registered
        <4>1. n + 1 # 0
          BY <3>1
        <4>2. QED
          BY <4>1, <3>2 DEF Registered
      <3>10. Cardinality(Registered') = Cardinality(Registered) + 1
        BY <3>9, ListFits, FS_AddElement
      <3>11. QED
        BY <3>1, <3>2, <3>8, <3>10 DEF Filled
    <2>4. CASE AddPath(k, token)
      <3>1. /\ UNCHANGED <<receivingInfo, server, table>> /\ receivingInfo[k] = 2
            /\ token \in PathNames
        <4>1. token \in Tokens2 /\ token # "COMPLETED"
          BY <2>1, <2>2, <2>4, TokenIs DEF AddPath
        <4>2. QED
          BY <4>1, <2>4 DEF AddPath, Tokens2
      <3>2. server[k] # 0
        BY <3>1 DEF ListShape
      <3>3. CASE UNCHANGED <<storageServerList, seen, handler>>
        BY <3>1, <3>3 DEF ListShape, Filled, Registered
      <3>4. CASE /\ Len(storageServerList[server[k]].paths) < MaxPaths
                 /\ storageServerList' =
                      [storageServerList EXCEPT ![server[k]].paths = Append(@, token)]
                 /\ seen' = [seen EXCEPT ![k] = table]
                 /\ handler' = [handler EXCEPT ![k] = "link"]
        <4>1. /\ storageServerList' \in Seq(Entries)
              /\ Len(storageServerList') = Len(storageServerList)
              /\ DOMAIN storageServerList' = DOMAIN storageServerList
              /\ storageServerList'[server[k]].paths # <<>>
              /\ Len(storageServerList'[server[k]].paths)
                   = Len(storageServerList[server[k]].paths) + 1
              /\ \A e \in 1..Len(storageServerList) :
                   e # server[k] => storageServerList'[e] = storageServerList[e]
          BY <3>1, <3>2, <3>4, PathAdded
        <4>2. seen' \in [Slots -> Bucket]
          BY <3>4, <1>0 DEF ListShape
        <4>3. ASSUME NEW e \in DOMAIN storageServerList
              PROVE  Len(storageServerList'[e].paths) <= MaxPaths
          <5>1. CASE e = server[k]
            <6>1. Len(storageServerList[server[k]].paths) \in Nat /\ MaxPaths \in Nat
              BY <3>2, EntryIs, BoundsAssumption
            <6>2. QED
              BY <5>1, <6>1, <4>1, <3>4
          <5>2. CASE e # server[k]
            BY <5>2, <4>1, ListLen DEF ListShape
          <5>3. QED
            BY <5>1, <5>2
        <4>4. ASSUME NEW j \in Slots
              PROVE  /\ server'[j] # 0 <=> receivingInfo'[j] = 2
                     /\ handler'[j] \in {"link", "watch"} => server'[j] # 0
                     /\ handler'[j] = "link" => storageServerList'[server'[j]].paths # <<>>
          <5>1. CASE j = k
            BY <5>1, <4>1, <3>1, <3>2
          <5>2. CASE j # k
            <6>1. handler'[j] = handler[j]
              BY <5>2, <3>4, <1>0
            <6>2. server[j] # 0 => storageServerList'[server[j]] = storageServerList[server[j]]
              BY <5>2, <4>1, <3>2, EntryIs DEF ListShape
            <6>3. QED
              BY <6>1, <6>2, <3>1 DEF ListShape
          <5>3. QED
            BY <5>1, <5>2
        <4>5. ListShape'
          BY <4>1, <4>2, <4>3, <4>4, <3>1 DEF ListShape
        <4>6. QED
          BY <4>1, <4>5, <3>1 DEF Filled, Registered
      <3>5. QED
        BY <2>4, <3>3, <3>4 DEF AddPath, Goto
    <2>5. QED
      BY <2>1, <2>3, <2>4
  <1>3. ASSUME NEW k \in Slots, LinkNode(k) PROVE ListShape' /\ Filled'
    <2>1. UNCHANGED <<storageServerList, server, receivingInfo>>
          /\ seen' = [seen EXCEPT ![k] = <<>>]
          /\ handler' = [handler EXCEPT ![k] = "parse"]
      BY <1>3 DEF LinkNode, Goto
    <2>2. table' \in Bucket
      BY <1>3, LinkEffect
    <2>3. seen' \in [Slots -> Bucket]
      BY <2>1, <1>0, EmptySeq DEF Bucket
    <2>4. \A j \in Slots : handler'[j] \in {"link", "watch"} => handler'[j] = handler[j]
      BY <2>1, <1>0
    <2>5. QED
      BY <2>1, <2>2, <2>3, <2>4 DEF ListShape, Filled, Registered
  <1>4. ASSUME NEW k \in Slots, Watches(k) PROVE ListShape' /\ Filled'
    <2>1. /\ storageServerList' \in Seq(Entries)
          /\ Len(storageServerList') = Len(storageServerList)
          /\ DOMAIN storageServerList' = DOMAIN storageServerList
          /\ \A e \in 1..Len(storageServerList) :
               storageServerList'[e].paths = storageServerList[e].paths
      BY <1>4, RunningChanged DEF Watches
    <2>2. server[k] # 0 /\ UNCHANGED <<server, table, seen, receivingInfo>>
          /\ (\/ handler' = [handler EXCEPT ![k] = "watch"]
              \/ handler' = [handler EXCEPT ![k] = "ended"])
      BY <1>4 DEF Watches
    <2>3. ASSUME NEW e \in DOMAIN storageServerList
          PROVE  Len(storageServerList'[e].paths) <= MaxPaths
      BY <2>1, ListLen DEF ListShape
    <2>4. ASSUME NEW j \in Slots
          PROVE  /\ handler'[j] \in {"link", "watch"} => server'[j] # 0
                 /\ handler'[j] = "link" => storageServerList'[server'[j]].paths # <<>>
      <3>1. CASE j = k
        BY <3>1, <2>2, <1>0
      <3>2. CASE j # k
        <4>1. handler'[j] = handler[j] /\ server'[j] = server[j]
          BY <3>2, <2>2, <1>0
        <4>2. server[j] # 0 =>
                storageServerList'[server[j]].paths = storageServerList[server[j]].paths
          BY <2>1, EntryIs
        <4>3. QED
          BY <4>1, <4>2 DEF ListShape
      <3>3. QED
        BY <3>1, <3>2
    <2>5. ListShape'
      BY <2>1, <2>2, <2>3, <2>4 DEF ListShape
    <2>6. QED
      BY <2>1, <2>2, <2>5 DEF Filled, Registered
  <1>5. QED
    BY <1>1, <1>2, <1>3, <1>4, Moves

----------------------------------------------------------------------------
(* The rest of the state, and all of it *)

LEMMA RestInit == Init => RestShape
  <1>1. 0 \in Numbers
    BY BoundsAssumption DEF Numbers
  <1>2. QED
    BY <1>1, ZenonT(60) DEF Init, RestShape

LEMMA RestStep ==
  StorageShape /\ AcceptShape /\ ThreadShape /\ RestShape /\ [Next]_vars => RestShape'
  <1> SUFFICES ASSUME StorageShape, AcceptShape, ThreadShape, RestShape, [Next]_vars
               PROVE  RestShape'
    OBVIOUS
  <1>1. ASSUME NEW s \in Servers, Connect(s) \/ Register(s) \/ Stop(s) PROVE RestShape'
    BY <1>1 DEF RestShape, Connect, Register, SendInfo, OpenPort, ReceiveId, Stop, replies
  <1>2. CASE Acceptor
    <2>1. UNCHANGED replies /\ crashed' \in {crashed, TRUE, FALSE}
          /\ faults' \in {faults, faults \cup {"overrun"}}
      BY <1>2 DEF Acceptor, Accept, AcceptBeyond, AcceptWithoutThread, AcceptLocked, Take
    <2>2. QED
      BY <2>1 DEF RestShape, replies, Faults
  <1>3. ASSUME NEW k \in Slots, Receive(k) PROVE RestShape'
    <2>1. handler[k] = "recv" /\ closed' \subseteq closed \cup {args[k]}
          /\ faults' \subseteq faults \cup {"cut", "hungUp"} /\ UNCHANGED <<told, crashed>>
      BY <1>3 DEF Receive, ReceiveAtLeast, At
    <2>2. args[k] \in Conns
      BY <2>1 DEF AcceptShape
    <2>3. QED
      BY <2>1, <2>2 DEF RestShape, Faults
  <1>4. ASSUME NEW k \in Slots, NextToken(k) PROVE RestShape'
    <2>1. /\ \/ UNCHANGED told
             \/ told' = [told EXCEPT ![socket[k]] = k]
          /\ closed' \subseteq closed \cup {socket[k]}
      BY <1>4 DEF NextToken, EndOfInfo, AddServer, AddPath, replies
    <2>2. handler[k] = "parse" /\ faults' \subseteq faults \cup {"crossed"}
          /\ crashed' \in {FALSE, handler[strtokPlace.owner] = "ended"}
      BY <1>4 DEF NextToken, At
    <2>3. socket[k] \in Conns
      BY <2>2 DEF ThreadShape, StorageShape
    <2>4. told' \in [Conns -> Numbers]
      BY <2>1, BoundsAssumption DEF RestShape, Numbers, Slots
    <2>5. crashed' \in BOOLEAN
      BY <2>2, Zenon
    <2>6. QED
      BY <2>1, <2>2, <2>3, <2>4, <2>5 DEF RestShape, Faults
  <1>5. ASSUME NEW k \in Slots, ReceiveFails(k) \/ LinkNode(k) \/ InitConnection(k) \/ NoticeDown(k)
        PROVE  RestShape'
    <2>1. UNCHANGED replies /\ crashed' \in {crashed, TRUE}
          /\ faults' \subseteq faults \cup {"insertsCrossed"}
      BY <1>5 DEF ReceiveFails, LinkNode, InitConnection, NoticeDown, At
    <2>2. QED
      BY <2>1 DEF RestShape, replies, Faults
  <1>6. CASE UNCHANGED vars
    BY <1>6 DEF vars, replies, RestShape
  <1>7. QED
    BY <1>1, <1>2, <1>3, <1>4, <1>5, <1>6 DEF Next, Handler, Rest

LEMMA ShapeInit == Init => Shape
  BY StorageInit, AcceptInit, ThreadInit, ListInit, RestInit DEF Shape

LEMMA ShapeStep == Shape /\ [Next]_vars => Shape'
  BY StorageStep, AcceptStep, ThreadStep, ListStep, RestStep DEF Shape

LEMMA ShapeTypes == Shape => TypeOK
  <1> SUFFICES ASSUME Shape PROVE TypeOK
    OBVIOUS
  <1>1. /\ pc \in [Servers -> ServerSteps] /\ \A s \in Servers : start[s] \in 0..MaxStarts[s]
        /\ infoSent \subseteq Conns
    BY DEF Shape, StorageShape
  <1>2. /\ queue \in Seq(Conns) /\ acceptor \in {"accept", "locked", "stuck"}
        /\ args \in [Slots -> Conns \cup {Nobody}] /\ ss_count \in Numbers
    BY DEF Shape, AcceptShape
  <1>3. /\ handler \in [Slots -> HandlerSteps] /\ socket \in [Slots -> Conns \cup {Nobody}]
        /\ strtokPlace.owner \in Numbers /\ strtokPlace.at \in Nat
        /\ receivingInfo \in [Slots -> 0..2] /\ watched \in [Slots -> Conns \cup {Nobody}]
    BY DEF Shape, ThreadShape
  <1>4. /\ server \in [Slots -> 0..Len(storageServerList)]
        /\ Len(storageServerList) <= MaxServers
        /\ table \in Bucket /\ seen \in [Slots -> Bucket]
    BY ListFits DEF Shape, ListShape
  <1>5. ASSUME NEW e \in DOMAIN storageServerList
        PROVE  /\ storageServerList[e].server \in Servers \cup {Nobody}
               /\ storageServerList[e].paths \in Seq(PathNames)
               /\ Len(storageServerList[e].paths) <= MaxPaths
    <2>1. storageServerList[e] \in Entries
      BY ListLen DEF Shape
    <2>2. QED
      BY <2>1 DEF Shape, ListShape, Entries
  <1>6. /\ told \in [Conns -> Numbers] /\ closed \subseteq Conns
        /\ crashed \in BOOLEAN /\ faults \subseteq Faults
    BY DEF Shape, RestShape
  <1>7. QED
    BY <1>1, <1>2, <1>3, <1>4, <1>5, <1>6 DEF TypeOK

----------------------------------------------------------------------------
(* Who was sent which number *)

LEMMA ToldStep == Shape /\ Told /\ [Next]_vars => Told'
  <1> SUFFICES ASSUME Shape, Told, [Next]_vars, NEW c \in Conns, told'[c] # 0
               PROVE  /\ told'[c] \in Slots /\ socket'[told'[c]] = c /\ c \in infoSent'
                      /\ handler'[told'[c]] \in Past
    BY DEF Told
  <1>0. AcceptShape /\ ThreadShape /\ ListShape /\ told \in [Conns -> Numbers]
    BY DEF Shape, RestShape
  <1>1. ASSUME told'[c] = told[c], infoSent \subseteq infoSent',
               \A j \in Slots : handler[j] \in Past =>
                 socket'[j] = socket[j] /\ handler'[j] \in Past
        PROVE  /\ told'[c] \in Slots /\ socket'[told'[c]] = c /\ c \in infoSent'
               /\ handler'[told'[c]] \in Past
    BY <1>1 DEF Told
  <1>2. CASE Quiet
    BY <1>1, <1>2 DEF Quiet, Past
  <1>3. ASSUME NEW k \in Slots, Receive(k) \/ Adds(k) \/ LinkNode(k)
        PROVE  /\ told'[c] = told[c] /\ infoSent \subseteq infoSent'
               /\ \A j \in Slots : handler[j] \in Past =>
                    socket'[j] = socket[j] /\ handler'[j] \in Past
    <2>1. CASE Receive(k)
      <3>1. /\ handler[k] = "recv" /\ UNCHANGED <<told, infoSent>>
            /\ \A j \in Slots : j # k => handler'[j] = handler[j] /\ socket'[j] = socket[j]
        BY <2>1, <1>0, Received
      <3>2. QED
        BY <3>1 DEF Past
    <2>2. CASE Adds(k) \/ LinkNode(k)
      <3>1. handler[k] \in {"parse", "link"} /\ UNCHANGED <<told, socket, infoSent>>
            /\ \/ UNCHANGED handler
               \/ \E step : handler' = [handler EXCEPT ![k] = step]
        BY <2>2 DEF Adds, AddServer, AddPath, LinkNode, At, Goto, replies, storage
      <3>2. QED
        BY <3>1, <1>0 DEF Past, ThreadShape
    <2>3. QED
      BY <1>3, <2>1, <2>2
  <1>4. ASSUME NEW k \in Slots, Watches(k)
        PROVE  /\ told'[c] = told[c] /\ infoSent \subseteq infoSent'
               /\ \A j \in Slots : handler[j] \in Past =>
                    socket'[j] = socket[j] /\ handler'[j] \in Past
    <2>1. UNCHANGED <<told, socket, infoSent>>
          /\ (\/ handler' = [handler EXCEPT ![k] = "watch"]
              \/ handler' = [handler EXCEPT ![k] = "ended"])
      BY <1>4 DEF Watches
    <2>2. QED
      BY <2>1, <1>0 DEF Past, ThreadShape
  <1>5. ASSUME NEW k \in Slots, Ends(k)
        PROVE  /\ told'[c] \in Slots /\ socket'[told'[c]] = c /\ c \in infoSent'
               /\ handler'[told'[c]] \in Past
    <2>1. handler[k] = "parse" /\ handler'[k] = "connect" /\ UNCHANGED <<socket, infoSent>>
          /\ \A j \in Slots : j # k => handler'[j] = handler[j]
      BY <1>0, <1>5, Ended DEF Ends
    <2>2. \/ UNCHANGED told
          \/ told' = [told EXCEPT ![socket[k]] = k]
      BY <1>5 DEF Ends, EndOfInfo
    <2>3. CASE told'[c] = told[c]
      BY <1>1, <2>1, <2>3 DEF Past
    <2>4. CASE told'[c] # told[c]
      <3>1. c = socket[k] /\ told'[c] = k
        BY <1>0, <2>2, <2>4
      <3>2. socket[k] \in infoSent
        BY <1>0, <2>1 DEF ThreadShape
      <3>3. QED
        BY <2>1, <3>1, <3>2 DEF Past
    <2>5. QED
      BY <2>3, <2>4
  <1>6. QED
    BY <1>0, <1>1, <1>2, <1>3, <1>4, <1>5, Moves

LEMMA ToldUnique == Shape /\ Told => IdsAreUnique
  BY DEF Told, IdsAreUnique

----------------------------------------------------------------------------
(* What a thread reads of its own buffer *)

LEMMA OwnToken ==
  ASSUME ThreadShape, NEW k \in Slots, handler[k] = "parse", strtokPlace.owner = k,
         NEW token \in Tokens
  PROVE  token = IF strtokPlace.at > Len(buffer[k]) THEN NULL ELSE buffer[k][strtokPlace.at]
  BY DEF Tokens

\* The token after the marker is the address.
LEMMA FirstToken ==
  ASSUME ThreadShape, NEW k \in Slots, handler[k] = "parse", strtokPlace.owner = k,
         strtokPlace.at = 2, NEW token \in Tokens
  PROVE  socket[k] \in Conns /\ token = socket[k].server /\ token \in Servers /\ token # NULL
  <1>1. buffer[k] # <<>>
    BY DEF ThreadShape
  <1>2. PICK n \in 2..Len(Message(socket[k].server)) :
          socket[k] \in Conns /\ buffer[k] = SubSeq(Message(socket[k].server), 1, n)
    BY <1>1 DEF ThreadShape, Holds
  <1>3. PICK s \in Servers : s = socket[k].server
    BY <1>2, ConnIs
  <1>4. n \in 2..Len(Message(s)) /\ Len(Message(s)) \in Nat
    BY <1>2, <1>3, MessageIs
  <1>5. Len(buffer[k]) = n /\ \A i \in 1..n : buffer[k][i] = Message(s)[i]
    BY <1>2, <1>3, <1>4, BeginningIs
  <1>6. 2 \in 1..n /\ ~(2 > n)
    BY <1>4
  <1>7. token = buffer[k][2]
    BY <1>5, <1>6, OwnToken
  <1>8. token = s
    BY <1>5, <1>6, <1>7, <1>3, MessageIs
  <1>9. QED
    BY <1>2, <1>3, <1>8, ServersAssumption

LEMMA NamedStep == Shape /\ Named /\ [Next]_vars => Named'
  <1> SUFFICES ASSUME Shape, Named, [Next]_vars, "crossed" \notin faults'
               PROVE  /\ \A j \in Slots :
                           handler'[j] = "connect" /\ server'[j] = 0 => "hungUp" \in faults'
                      /\ \A j \in Slots :
                           handler'[j] = "parse" /\ receivingInfo'[j] = 1
                             /\ strtokPlace'.owner = j => strtokPlace'.at = 2
                      /\ \A j \in Slots : server'[j] # 0 =>
                           /\ socket'[j] \in Conns
                           /\ storageServerList'[server'[j]].server = socket'[j].server
    BY DEF Named
  <1>0. AcceptShape /\ ThreadShape /\ ListShape
    BY DEF Shape
  <1>1. CASE Quiet
    BY <1>1 DEF Quiet, Named
  <1>2. ASSUME NEW k \in Slots, Receive(k)
        PROVE  /\ \A j \in Slots :
                    handler'[j] = "connect" /\ server'[j] = 0 => "hungUp" \in faults'
               /\ \A j \in Slots :
                    handler'[j] = "parse" /\ receivingInfo'[j] = 1
                      /\ strtokPlace'.owner = j => strtokPlace'.at = 2
               /\ \A j \in Slots : server'[j] # 0 =>
                    /\ socket'[j] \in Conns
                    /\ storageServerList'[server'[j]].server = socket'[j].server
    <2>1. /\ UNCHANGED <<storageServerList, server>> /\ receivingInfo[k] = 0
          /\ strtokPlace'.owner = k /\ strtokPlace'.at = 2
          /\ \/ /\ handler'[k] = "parse"
                /\ \E n : faults' = IF n = Len(Message(args[k].server)) THEN faults
                                    ELSE faults \cup {"cut"}
             \/ handler'[k] = "connect" /\ faults' = faults \cup {"hungUp"}
          /\ \A j \in Slots : j # k => handler'[j] = handler[j] /\ socket'[j] = socket[j]
      BY <1>0, <1>2, Received
    <2>2. server[k] = 0
      BY <1>0, <2>1 DEF ListShape
    <2>3. faults \subseteq faults' /\ "crossed" \notin faults
      BY <2>1
    <2>4. handler'[k] = "connect" => "hungUp" \in faults'
      BY <2>1
    <2>5. ASSUME NEW j \in Slots, handler'[j] = "connect", server'[j] = 0
          PROVE  "hungUp" \in faults'
      BY <2>1, <2>3, <2>4, <2>5 DEF Named
    <2>6. ASSUME NEW j \in Slots, server'[j] # 0
          PROVE  /\ socket'[j] \in Conns
                 /\ storageServerList'[server'[j]].server = socket'[j].server
      BY <2>1, <2>2, <2>3, <2>6 DEF Named
    <2>7. QED
      BY <2>1, <2>5, <2>6
  <1>3. ASSUME NEW k \in Slots, Ends(k)
        PROVE  /\ \A j \in Slots :
                    handler'[j] = "connect" /\ server'[j] = 0 => "hungUp" \in faults'
               /\ \A j \in Slots :
                    handler'[j] = "parse" /\ receivingInfo'[j] = 1
                      /\ strtokPlace'.owner = j => strtokPlace'.at = 2
               /\ \A j \in Slots : server'[j] # 0 =>
                    /\ socket'[j] \in Conns
                    /\ storageServerList'[server'[j]].server = socket'[j].server
    <2>1. handler[k] = "parse" /\ strtokPlace.owner = k /\ faults' = faults /\ UNCHANGED socket
      BY <1>3 DEF Ends
    <2>2. UNCHANGED <<storageServerList, server, receivingInfo>> /\ handler'[k] = "connect"
          /\ strtokPlace'.owner = k /\ \A j \in Slots : j # k => handler'[j] = handler[j]
      BY <1>0, <1>3, <2>1, Ended
    <2>3. server[k] # 0
      <3>1. SUFFICES ASSUME server[k] = 0 PROVE FALSE
        OBVIOUS
      <3>2. receivingInfo[k] = 1
        BY <1>0, <2>1, <3>1 DEF ListShape, ThreadShape
      <3>3. strtokPlace.at = 2
        BY <2>1, <3>2 DEF Named
      <3>4. PICK token \in Tokens : EndOfInfo(k, token)
        BY <1>3 DEF Ends
      <3>5. token # NULL
        BY <1>0, <2>1, <3>3, FirstToken
      <3>6. QED
        BY <3>2, <3>4, <3>5 DEF EndOfInfo
    <2>4. QED
      BY <2>1, <2>2, <2>3 DEF Named
  <1>4. ASSUME NEW k \in Slots, Adds(k)
        PROVE  /\ \A j \in Slots :
                    handler'[j] = "connect" /\ server'[j] = 0 => "hungUp" \in faults'
               /\ \A j \in Slots :
                    handler'[j] = "parse" /\ receivingInfo'[j] = 1
                      /\ strtokPlace'.owner = j => strtokPlace'.at = 2
               /\ \A j \in Slots : server'[j] # 0 =>
                    /\ socket'[j] \in Conns
                    /\ storageServerList'[server'[j]].server = socket'[j].server
    <2>1. handler[k] = "parse" /\ strtokPlace.owner = k /\ faults' = faults /\ UNCHANGED socket
      BY <1>4 DEF Adds
    <2>2. PICK token \in Tokens :
            /\ token # NULL /\ strtokPlace' = [strtokPlace EXCEPT !.at = @ + 1]
            /\ AddServer(k, token) \/ AddPath(k, token)
      BY <1>4 DEF Adds
    <2>3. strtokPlace'.owner = k
      BY <1>0, <2>1, <2>2 DEF ThreadShape
    <2>4. CASE AddServer(k, token)
      <3>1. receivingInfo[k] = 1 /\ UNCHANGED handler
            /\ receivingInfo' = [receivingInfo EXCEPT ![k] = 2]
        BY <2>4 DEF AddServer
      <3>2. receivingInfo'[k] = 2
        BY <1>0, <3>1 DEF ThreadShape
      <3>3. strtokPlace.at = 2
        BY <2>1, <3>1 DEF Named
      <3>4. socket[k] \in Conns /\ token = socket[k].server /\ token \in Servers
        BY <1>0, <2>1, <3>3, FirstToken
      <3>5. PICK n \in Nat : n = Len(storageServerList)
        BY <1>0, ListLen
      <3>6. /\ \A e \in 1..n : storageServerList'[e] = storageServerList[e]
            /\ storageServerList'[n + 1] = Entry(token)
            /\ server'[k] = n + 1 /\ \A j \in Slots : j # k => server'[j] = server[j]
            /\ server[k] = 0
        BY <1>0, <2>4, <3>5, ServerAdded
      <3>7. storageServerList'[server'[k]].server = socket[k].server
        BY <3>4, <3>6 DEF Entry
      <3>8. ASSUME NEW j \in Slots, server'[j] # 0
            PROVE  /\ socket'[j] \in Conns
                   /\ storageServerList'[server'[j]].server = socket'[j].server
        <4>1. CASE j = k
          BY <2>1, <3>4, <3>7, <4>1
        <4>2. CASE j # k
          <5>1. server'[j] = server[j] /\ server[j] \in 1..n
            BY <1>0, <3>5, <3>6, <3>8, <4>2, EntryIs
          <5>2. QED
            BY <2>1, <3>6, <3>8, <5>1 DEF Named
        <4>3. QED
          BY <4>1, <4>2
      <3>9. ASSUME NEW j \in Slots, handler'[j] = "connect", server'[j] = 0
            PROVE  "hungUp" \in faults'
        BY <2>1, <3>1, <3>6, <3>9 DEF Named
      <3>10. QED
        BY <2>3, <3>2, <3>8, <3>9
    <2>5. CASE AddPath(k, token)
      <3>1. receivingInfo[k] = 2 /\ UNCHANGED <<receivingInfo, server>>
            /\ \/ UNCHANGED <<storageServerList, handler>>
               \/ /\ storageServerList' =
                       [storageServerList EXCEPT ![server[k]].paths = Append(@, token)]
                  /\ handler' = [handler EXCEPT ![k] = "link"]
        BY <2>5 DEF AddPath, Goto
      <3>2. server[k] # 0 /\ token \in PathNames
        <4>1. token \in Tokens2 /\ token # "COMPLETED"
          <5>1. strtokPlace.owner # 0
            BY <1>4 DEF Adds
          <5>2. QED
            BY <1>0, <2>2, <2>5, <5>1, TokenIs DEF AddPath
        <4>2. QED
          BY <1>0, <3>1, <4>1 DEF ListShape, Tokens2
      <3>3. ASSUME NEW e \in 1..Len(storageServerList)
            PROVE  storageServerList'[e].server = storageServerList[e].server
        <4>1. CASE UNCHANGED storageServerList
          BY <4>1
        <4>2. CASE storageServerList' =
                     [storageServerList EXCEPT ![server[k]].paths = Append(@, token)]
          BY <1>0, <3>2, <4>2, PathAdded
        <4>3. QED
          BY <3>1, <4>1, <4>2
      <3>4. ASSUME NEW j \in Slots, server'[j] # 0
            PROVE  /\ socket'[j] \in Conns
                   /\ storageServerList'[server'[j]].server = socket'[j].server
        <4>1. server[j] \in 1..Len(storageServerList)
          BY <1>0, <3>1, <3>4, EntryIs
        <4>2. QED
          BY <2>1, <3>1, <3>3, <3>4, <4>1 DEF Named
      <3>5. ASSUME NEW j \in Slots, handler'[j] = "connect", server'[j] = 0
            PROVE  "hungUp" \in faults'
        <4>1. handler[j] = "connect"
          BY <1>0, <3>1, <3>5 DEF ThreadShape
        <4>2. QED
          BY <2>1, <3>1, <3>5, <4>1 DEF Named
      <3>6. QED
        BY <2>3, <3>1, <3>4, <3>5
    <2>6. QED
      BY <2>2, <2>4, <2>5
  <1>5. ASSUME NEW k \in Slots, LinkNode(k)
        PROVE  /\ \A j \in Slots :
                    handler'[j] = "connect" /\ server'[j] = 0 => "hungUp" \in faults'
               /\ \A j \in Slots :
                    handler'[j] = "parse" /\ receivingInfo'[j] = 1
                      /\ strtokPlace'.owner = j => strtokPlace'.at = 2
               /\ \A j \in Slots : server'[j] # 0 =>
                    /\ socket'[j] \in Conns
                    /\ storageServerList'[server'[j]].server = socket'[j].server
    <2>1. /\ handler[k] = "link" /\ handler' = [handler EXCEPT ![k] = "parse"]
          /\ UNCHANGED <<storageServerList, server, receivingInfo, socket, strtokPlace>>
          /\ faults \subseteq faults'
      BY <1>5 DEF LinkNode, At, Goto
    <2>2. receivingInfo[k] = 2
      BY <1>0, <2>1 DEF ListShape
    <2>3. handler'[k] = "parse" /\ \A j \in Slots : j # k => handler'[j] = handler[j]
      BY <1>0, <2>1 DEF ThreadShape
    <2>4. QED
      BY <2>1, <2>2, <2>3 DEF Named
  <1>6. ASSUME NEW k \in Slots, Watches(k)
        PROVE  /\ \A j \in Slots :
                    handler'[j] = "connect" /\ server'[j] = 0 => "hungUp" \in faults'
               /\ \A j \in Slots :
                    handler'[j] = "parse" /\ receivingInfo'[j] = 1
                      /\ strtokPlace'.owner = j => strtokPlace'.at = 2
               /\ \A j \in Slots : server'[j] # 0 =>
                    /\ socket'[j] \in Conns
                    /\ storageServerList'[server'[j]].server = socket'[j].server
    <2>1. /\ UNCHANGED <<server, receivingInfo, socket, strtokPlace, faults>>
          /\ \/ handler' = [handler EXCEPT ![k] = "watch"]
             \/ handler' = [handler EXCEPT ![k] = "ended"]
      BY <1>6 DEF Watches
    <2>2. /\ handler'[k] \notin {"connect", "parse"}
          /\ \A j \in Slots : j # k => handler'[j] = handler[j]
      BY <1>0, <2>1 DEF ThreadShape
    <2>3. \A e \in 1..Len(storageServerList) :
            storageServerList'[e].server = storageServerList[e].server
      BY <1>0, <1>6, RunningChanged DEF Watches
    <2>4. ASSUME NEW j \in Slots, server'[j] # 0
          PROVE  /\ socket'[j] \in Conns
                 /\ storageServerList'[server'[j]].server = socket'[j].server
      <3>1. server[j] \in 1..Len(storageServerList)
        BY <1>0, <2>1, <2>4, EntryIs
      <3>2. QED
        BY <2>1, <2>3, <2>4, <3>1 DEF Named
    <2>5. QED
      BY <2>1, <2>2, <2>4 DEF Named
  <1>7. QED
    BY <1>0, <1>1, <1>2, <1>3, <1>4, <1>5, <1>6, Moves

----------------------------------------------------------------------------
(* The name server survives *)

LEMMA SurvivesStep ==
  Shape /\ Named /\ SurvivesRegistrations /\ [Next]_vars => SurvivesRegistrations'
  <1> SUFFICES ASSUME Shape, Named, SurvivesRegistrations, [Next]_vars, crashed'
               PROVE  faults' \cap {"hungUp", "crossed", "overrun"} # {} \/ acceptor' # "accept"
    BY DEF SurvivesRegistrations
  <1>0. crashed => faults \cap {"hungUp", "crossed", "overrun"} # {} \/ acceptor # "accept"
    BY DEF SurvivesRegistrations
  <1>1. ASSUME NEW s \in Servers, Connect(s) \/ Register(s) \/ Stop(s)
        PROVE  UNCHANGED <<crashed, faults, acceptor>>
    BY <1>1 DEF Connect, Register, SendInfo, OpenPort, ReceiveId, Stop, accepting
  <1>2. CASE Accept \/ AcceptLocked
    BY <1>0, <1>2 DEF Accept, AcceptLocked, Take
  <1>3. CASE AcceptBeyond
    BY <1>3 DEF AcceptBeyond
  <1>4. CASE AcceptWithoutThread
    BY <1>4 DEF AcceptWithoutThread
  <1>5. ASSUME NEW k \in Slots, Receive(k) \/ ReceiveFails(k) \/ LinkNode(k) \/ NoticeDown(k)
        PROVE  FALSE
    BY <1>5 DEF Receive, ReceiveAtLeast, ReceiveFails, LinkNode, NoticeDown, At
  <1>6. ASSUME NEW k \in Slots, NextToken(k) PROVE "crossed" \in faults'
    <2>1. handler[k] = "parse" /\ crashed' \in {FALSE, handler[strtokPlace.owner] = "ended"}
          /\ faults' = IF strtokPlace.owner = k THEN faults ELSE faults \cup {"crossed"}
      BY <1>6 DEF NextToken, At
    <2>2. handler[strtokPlace.owner] = "ended"
      BY <2>1
    <2>3. QED
      BY <2>1, <2>2
  <1>7. ASSUME NEW k \in Slots, InitConnection(k)
        PROVE  faults' \cap {"hungUp", "crossed", "overrun"} # {}
    <2>1. handler[k] = "connect" /\ ~crashed /\ UNCHANGED faults
      BY <1>7 DEF InitConnection, At
    <2>2. server[k] = 0
      BY <1>7, <2>1 DEF InitConnection
    <2>3. QED
      BY <2>1, <2>2 DEF Named
  <1>8. CASE UNCHANGED vars
    BY <1>0, <1>8 DEF vars, accepting
  <1>9. QED
    BY <1>0, <1>1, <1>2, <1>3, <1>4, <1>5, <1>6, <1>7, <1>8 DEF Next, Acceptor, Handler, Rest

----------------------------------------------------------------------------
(* The paths arrive in order *)

\* The entries of the other threads stay what they are.
LEMMA AddsElsewhere ==
  ASSUME ThreadShape, ListShape, NEW k \in Slots, Adds(k)
  PROVE  /\ strtokPlace'.owner = strtokPlace.owner /\ strtokPlace'.at = strtokPlace.at + 1
         /\ \A j \in Slots : j # k =>
              /\ handler'[j] = handler[j] /\ receivingInfo'[j] = receivingInfo[j]
              /\ server'[j] = server[j]
              /\ server[j] # 0 => storageServerList'[server[j]] = storageServerList[server[j]]
  <1>1. PICK token \in Tokens :
          /\ token # NULL /\ strtokPlace' = [strtokPlace EXCEPT !.at = @ + 1]
          /\ AddServer(k, token) \/ AddPath(k, token)
    BY DEF Adds
  <1>2. strtokPlace'.owner = strtokPlace.owner /\ strtokPlace'.at = strtokPlace.at + 1
    BY <1>1 DEF ThreadShape
  <1>3. CASE AddServer(k, token)
    <2>1. /\ \A e \in 1..Len(storageServerList) : storageServerList'[e] = storageServerList[e]
          /\ \A j \in Slots : j # k => server'[j] = server[j]
      BY <1>3, ServerAdded
    <2>2. UNCHANGED handler /\ receivingInfo' = [receivingInfo EXCEPT ![k] = 2]
      BY <1>3 DEF AddServer
    <2>3. \A j \in Slots : j # k => receivingInfo'[j] = receivingInfo[j]
      BY <2>2 DEF ThreadShape
    <2>4. \A j \in Slots : server[j] # 0 =>
            storageServerList'[server[j]] = storageServerList[server[j]]
      BY <2>1, EntryIs
    <2>5. QED
      BY <1>2, <2>1, <2>2, <2>3, <2>4
  <1>4. CASE AddPath(k, token)
    <2>1. receivingInfo[k] = 2 /\ UNCHANGED <<receivingInfo, server>>
          /\ \/ UNCHANGED <<storageServerList, handler>>
             \/ /\ storageServerList' =
                     [storageServerList EXCEPT ![server[k]].paths = Append(@, token)]
                /\ handler' = [handler EXCEPT ![k] = "link"]
      BY <1>4 DEF AddPath, Goto
    <2>2. server[k] # 0 /\ token \in PathNames
      <3>1. token \in Tokens2 /\ token # "COMPLETED"
        BY <1>1, <1>4, TokenIs DEF AddPath, Adds
      <3>2. QED
        BY <2>1, <3>1 DEF ListShape, Tokens2
    <2>3. ASSUME NEW j \in Slots, j # k, server[j] # 0
          PROVE  storageServerList'[server[j]] = storageServerList[server[j]]
      <3>1. server[j] # server[k] /\ server[j] \in 1..Len(storageServerList)
        BY <2>3, EntryIs DEF ListShape
      <3>2. CASE storageServerList' =
                   [storageServerList EXCEPT ![server[k]].paths = Append(@, token)]
        BY <2>2, <3>1, <3>2, PathAdded, SMTT(60)
      <3>3. QED
        BY <2>1, <3>2
    <2>4. \A j \in Slots : j # k => handler'[j] = handler[j]
      BY <2>1 DEF ThreadShape
    <2>5. QED
      BY <1>2, <2>1, <2>3, <2>4
  <1>5. QED
    BY <1>1, <1>3, <1>4

LEMMA WatchesElsewhere ==
  ASSUME ThreadShape, ListShape, NEW k \in Slots, Watches(k)
  PROVE  /\ handler'[k] \in {"watch", "ended"}
         /\ \A j \in Slots : j # k => handler'[j] = handler[j]
         /\ \A j \in Slots : server[j] # 0 =>
              storageServerList'[server[j]].paths = storageServerList[server[j]].paths
  <1>1. \A e \in 1..Len(storageServerList) :
          storageServerList'[e].paths = storageServerList[e].paths
    BY RunningChanged DEF Watches
  <1>2. \A j \in Slots : server[j] # 0 =>
          storageServerList'[server[j]].paths = storageServerList[server[j]].paths
    BY <1>1, EntryIs
  <1>3. handler'[k] \in {"watch", "ended"} /\ \A j \in Slots : j # k => handler'[j] = handler[j]
    BY DEF Watches, ThreadShape
  <1>4. QED
    BY <1>2, <1>3

\* A thread that has not been confused finds the next path of the file.
LEMMA NextPath ==
  ASSUME ThreadShape, ListShape, NEW k \in Slots, Reading(k), handler[k] = "parse",
         receivingInfo[k] = 2, strtokPlace.owner = k, NEW token \in Tokens
  PROVE  LET s == socket[k].server
             a == strtokPlace.at
         IN  /\ s \in Servers /\ socket[k] \in Conns
             /\ a \in 3..Len(PathsFile[s]) + 3 /\ Len(PathsFile[s]) \in Nat
             /\ FirstPaths(storageServerList[server[k]].paths, s, a - 3)
             /\ token # NULL
             /\ \/ /\ a = Len(PathsFile[s]) + 3 /\ token = "COMPLETED"
                \/ /\ a < Len(PathsFile[s]) + 3 /\ a - 2 \in 1..Len(PathsFile[s])
                   /\ token = PathsFile[s][a - 2] /\ token \in ToSet(PathsFile[s])
  <1>1. buffer[k] # <<>> /\ socket[k] \in Conns
    BY DEF ThreadShape, Holds
  <1>2. PICK s \in Servers : s = socket[k].server
    BY <1>1, ConnIs
  <1>3. PICK n \in Nat : n = Len(PathsFile[s])
    BY MessageIs
  <1>4. Len(Message(s)) = n + 3
    BY <1>3, MessageIs
  <1>5. PICK a : a = strtokPlace.at
    OBVIOUS
  <1>6. /\ buffer[k] = Message(s) /\ a \in 3..n + 3
        /\ FirstPaths(storageServerList[server[k]].paths, s, a - 3)
    BY <1>2, <1>4, <1>5 DEF Reading
  <1>7. token = Message(s)[a]
    <2>1. ~(a > n + 3)
      BY <1>6
    <2>2. QED
      BY <1>4, <1>5, <1>6, <2>1, OwnToken
  <1>8. CASE a = n + 3
    <2>1. token = "COMPLETED"
      BY <1>4, <1>7, <1>8, MessageIs
    <2>2. QED
      BY <1>1, <1>2, <1>3, <1>5, <1>6, <1>8, <2>1 DEF NULL
  <1>9. CASE a # n + 3
    <2>1. PICK i \in 1..n : i = a - 2 /\ a = i + 2 /\ a < n + 3
      BY <1>6, <1>9
    <2>2. token = PathsFile[s][i]
      BY <1>3, <1>7, <2>1, MessageIs
    <2>3. token \in ToSet(PathsFile[s])
      <3>1. PathsFile[s] \in Seq(ToSet(PathsFile[s]))
        BY PathsAssumption
      <3>2. i \in 1..Len(PathsFile[s])
        BY <1>3
      <3>3. QED
        BY <2>2, <3>1, <3>2, ElementOfSeq
    <2>4. token # NULL
      BY <2>3, PathsAssumption
    <2>5. QED
      BY <1>1, <1>2, <1>3, <1>5, <1>6, <2>1, <2>2, <2>3, <2>4
  <1>10. QED
    BY <1>8, <1>9

LEMMA InOrderStep == Shape /\ Named /\ InOrder /\ [Next]_vars => InOrder'
  <1> SUFFICES ASSUME Shape, Named, InOrder, [Next]_vars,
                      faults' \cap {"crossed", "cut"} = {}
               PROVE  \A j \in Slots : Reading(j)'
    BY DEF InOrder
  <1>0. AcceptShape /\ ThreadShape /\ ListShape
    BY DEF Shape
  <1>1. CASE Quiet
    <2>1. \A j \in Slots : Reading(j)
      BY <1>1 DEF Quiet, InOrder
    <2>2. \A j \in Slots : handler'[j] \in {"parse", "link"} => handler'[j] = handler[j]
      BY <1>1 DEF Quiet
    <2>3. UNCHANGED <<storageServerList, server, socket, buffer, receivingInfo, strtokPlace>>
      BY <1>1 DEF Quiet
    <2>4. QED
      BY <2>1, <2>2, <2>3 DEF Reading
  <1>2. ASSUME NEW k \in Slots, Receive(k) PROVE \A j \in Slots : Reading(j)'
    <2> DEFINE message == Message(args[k].server)
    <2>1. /\ args[k].server \in Servers /\ socket'[k] = args[k]
          /\ receivingInfo'[k] \in {0, 1} /\ strtokPlace'.owner = k
          /\ \/ /\ handler'[k] = "parse"
                /\ \E n \in 2..Len(message) :
                     /\ buffer'[k] = SubSeq(message, 1, n)
                     /\ faults' = IF n = Len(message) THEN faults ELSE faults \cup {"cut"}
             \/ handler'[k] = "connect" /\ faults' = faults \cup {"hungUp"}
          /\ \A j \in Slots : j # k =>
               /\ handler'[j] = handler[j] /\ socket'[j] = socket[j] /\ buffer'[j] = buffer[j]
      BY <1>0, <1>2, Received
    <2>2. faults \subseteq faults'
      BY <2>1
    <2>3. \A j \in Slots : Reading(j)
      BY <2>2 DEF InOrder
    <2>4. ASSUME NEW j \in Slots PROVE Reading(j)'
      <3>1. CASE j = k
        <4>1. CASE handler'[k] = "connect"
          BY <3>1, <4>1 DEF Reading
        <4>2. CASE handler'[k] = "parse"
          <5>1. PICK n \in 2..Len(message) :
                  /\ buffer'[k] = SubSeq(message, 1, n)
                  /\ faults' = IF n = Len(message) THEN faults ELSE faults \cup {"cut"}
            BY <2>1, <4>2
          <5>2. n = Len(message)
            BY <5>1
          <5>3. buffer'[k] = message
            BY <2>1, <5>1, <5>2, BeginningIs
          <5>4. QED
            BY <2>1, <3>1, <5>3 DEF Reading
        <4>3. QED
          BY <2>1, <4>1, <4>2
      <3>2. CASE j # k
        BY <2>1, <2>3, <3>2 DEF Reading
      <3>3. QED
        BY <3>1, <3>2
    <2>5. QED
      BY <2>4
  <1>3. ASSUME NEW k \in Slots, Ends(k) PROVE \A j \in Slots : Reading(j)'
    <2>1. handler[k] = "parse" /\ strtokPlace.owner = k /\ faults' = faults
          /\ UNCHANGED <<socket, buffer>>
      BY <1>3 DEF Ends
    <2>2. UNCHANGED <<storageServerList, server, receivingInfo>> /\ handler'[k] = "connect"
          /\ strtokPlace'.owner = k /\ \A j \in Slots : j # k => handler'[j] = handler[j]
      BY <1>0, <1>3, <2>1, Ended
    <2>3. QED
      BY <2>1, <2>2 DEF InOrder, Reading
  <1>4. ASSUME NEW k \in Slots, Adds(k) PROVE \A j \in Slots : Reading(j)'
    <2>1. handler[k] = "parse" /\ strtokPlace.owner = k /\ faults' = faults
          /\ UNCHANGED <<socket, buffer>>
      BY <1>4 DEF Adds
    <2>2. PICK token \in Tokens : token # NULL /\ (AddServer(k, token) \/ AddPath(k, token))
      BY <1>4 DEF Adds
    <2>3. /\ strtokPlace'.owner = k /\ strtokPlace'.at = strtokPlace.at + 1
          /\ \A j \in Slots : j # k => handler'[j] = handler[j]
      BY <1>0, <1>4, <2>1, AddsElsewhere
    <2>4. Reading(k)
      BY <2>1 DEF InOrder
    <2>5. PICK s \in Servers : s = socket[k].server
      BY <1>0, <2>1, ConnIs DEF ThreadShape, Holds
    <2>6. CASE AddServer(k, token)
      <3>1. strtokPlace.at = 2
        BY <2>1, <2>6 DEF Named, AddServer
      <3>2. strtokPlace'.at = 3
        BY <2>3, <3>1
      <3>3. storageServerList'[server'[k]].paths = <<>>
        <4>1. PICK e : e = Len(storageServerList) + 1
          OBVIOUS
        <4>2. server'[k] = e /\ storageServerList'[e] = Entry(token)
          BY <1>0, <2>6, <4>1, ServerAdded
        <4>3. QED
          BY <4>2 DEF Entry
      <3>4. 3 \in 3..Len(Message(s)) /\ 3 - 3 = 0
        <4>1. Len(PathsFile[s]) \in Nat /\ Len(Message(s)) = Len(PathsFile[s]) + 3
          BY MessageIs
        <4>2. QED
          BY <4>1
      <3>5. FirstPaths(<<>>, s, 0)
        <4>1. Len(<<>>) = 0 /\ 0 < MaxPaths
          BY BoundsAssumption
        <4>2. QED
          BY <4>1 DEF FirstPaths
      <3>6. Reading(k)'
        BY <2>1, <2>4, <2>5, <3>2, <3>3, <3>4, <3>5 DEF Reading
      <3>7. QED
        BY <2>1, <2>3, <3>6 DEF InOrder, Reading
    <2>7. CASE AddPath(k, token)
      <3>1. receivingInfo[k] = 2 /\ token # "COMPLETED" /\ UNCHANGED <<receivingInfo, server>>
            /\ \/ /\ Len(storageServerList[server[k]].paths) < MaxPaths
                  /\ storageServerList' =
                       [storageServerList EXCEPT ![server[k]].paths = Append(@, token)]
                  /\ handler' = [handler EXCEPT ![k] = "link"]
               \/ /\ ~(Len(storageServerList[server[k]].paths) < MaxPaths)
                  /\ UNCHANGED <<storageServerList, handler>>
        BY <2>7 DEF AddPath, Goto
      <3>2. server[k] # 0
        BY <1>0, <3>1 DEF ListShape
      <3>3. PICK n \in Nat : n = Len(PathsFile[s])
        BY MessageIs
      <3>4. PICK a : a = strtokPlace.at
        OBVIOUS
      <3>5. /\ a \in 3..n + 3 /\ FirstPaths(storageServerList[server[k]].paths, s, a - 3)
            /\ a < n + 3 /\ a - 2 \in 1..n /\ token = PathsFile[s][a - 2]
            /\ token \in ToSet(PathsFile[s])
        BY <1>0, <2>1, <2>4, <2>5, <3>1, <3>3, <3>4, NextPath
      <3>6. token \in PathNames
        BY <3>5 DEF PathNames
      <3>7. PICK m \in Nat : m = a - 3 /\ a - 2 = m + 1 /\ (a + 1) - 3 = m + 1
        BY <3>5
      <3>8. PICK paths : paths = storageServerList[server[k]].paths
        OBVIOUS
      <3>9. PICK l \in Nat : l = Len(paths)
        BY <1>0, <3>2, <3>8, EntryIs
      <3>10. l = (IF m < MaxPaths THEN m ELSE MaxPaths)
             /\ \A i \in 1..l : paths[i] = PathsFile[s][i]
        BY <3>5, <3>7, <3>8, <3>9 DEF FirstPaths
      <3>11. MaxPaths \in Nat
        BY BoundsAssumption
      <3>12. FirstPaths(storageServerList'[server'[k]].paths, s, m + 1)
        <4>1. CASE /\ l < MaxPaths
                   /\ storageServerList' =
                        [storageServerList EXCEPT ![server[k]].paths = Append(@, token)]
          <5>1. PICK q : q = storageServerList'[server[k]].paths
            OBVIOUS
          <5>2. /\ Len(q) = l + 1 /\ \A i \in 1..l : q[i] = paths[i]
                /\ q[l + 1] = token
            <6>1. LET p == storageServerList[server[k]].paths
                  IN  /\ Len(storageServerList'[server[k]].paths) = Len(p) + 1
                      /\ \A i \in 1..Len(p) : storageServerList'[server[k]].paths[i] = p[i]
                      /\ storageServerList'[server[k]].paths[Len(p) + 1] = token
              BY <1>0, <3>2, <3>6, <4>1, PathAdded
            <6>2. QED
              BY <3>8, <3>9, <5>1, <6>1
          <5>3. l = m
            BY <3>10, <3>11, <4>1
          <5>4. l + 1 = IF m + 1 < MaxPaths THEN m + 1 ELSE MaxPaths
            BY <3>11, <4>1, <5>3
          <5>5. ASSUME NEW i \in 1..l + 1 PROVE q[i] = PathsFile[s][i]
            <6>1. CASE i = l + 1
              BY <3>5, <3>7, <5>2, <5>3, <6>1
            <6>2. CASE i \in 1..l
              BY <3>10, <5>2, <6>2
            <6>3. QED
              BY <6>1, <6>2
          <5>6. QED
            BY <3>1, <5>1, <5>2, <5>4, <5>5 DEF FirstPaths
        <4>2. CASE ~(l < MaxPaths) /\ UNCHANGED storageServerList
          <5>1. l = IF m + 1 < MaxPaths THEN m + 1 ELSE MaxPaths
            BY <3>10, <3>11, <4>2
          <5>2. QED
            BY <3>1, <3>8, <3>9, <3>10, <4>2, <5>1 DEF FirstPaths
        <4>3. QED
          BY <3>1, <3>8, <3>9, <4>1, <4>2
      <3>13. strtokPlace'.at - 3 = m + 1 /\ strtokPlace'.at \in 3..Len(Message(s))
        <4>1. Len(Message(s)) = n + 3
          BY <3>3, MessageIs
        <4>2. strtokPlace'.at = a + 1
          BY <2>3, <3>4
        <4>3. a + 1 \in 3..n + 3
          BY <3>5
        <4>4. QED
          BY <3>7, <4>1, <4>2, <4>3
      <3>14. Reading(k)'
        BY <2>1, <2>4, <2>5, <3>12, <3>13 DEF Reading
      <3>15. QED
        BY <2>1, <2>3, <3>14 DEF InOrder, Reading
    <2>8. QED
      BY <2>2, <2>6, <2>7
  <1>5. ASSUME NEW k \in Slots, LinkNode(k) PROVE \A j \in Slots : Reading(j)'
    <2>1. /\ handler[k] = "link" /\ handler' = [handler EXCEPT ![k] = "parse"]
          /\ UNCHANGED <<storageServerList, server, receivingInfo, socket, buffer, strtokPlace>>
          /\ faults \subseteq faults'
      BY <1>5 DEF LinkNode, At, Goto
    <2>2. \A j \in Slots : Reading(j)
      BY <2>1 DEF InOrder
    <2>3. handler'[k] = "parse" /\ \A j \in Slots : j # k => handler'[j] = handler[j]
      BY <1>0, <2>1 DEF ThreadShape
    <2>4. \A j \in Slots : handler'[j] \in {"parse", "link"} => handler[j] \in {"parse", "link"}
      BY <2>1, <2>3
    <2>5. QED
      BY <2>1, <2>2, <2>4 DEF Reading
  <1>6. ASSUME NEW k \in Slots, Watches(k) PROVE \A j \in Slots : Reading(j)'
    <2>1. UNCHANGED <<server, receivingInfo, socket, buffer, strtokPlace, faults>>
      BY <1>6 DEF Watches
    <2>2. /\ handler'[k] \in {"watch", "ended"}
          /\ \A j \in Slots : j # k => handler'[j] = handler[j]
          /\ \A j \in Slots : server[j] # 0 =>
               storageServerList'[server[j]].paths = storageServerList[server[j]].paths
      BY <1>0, <1>6, WatchesElsewhere
    <2>3. \A j \in Slots : receivingInfo[j] = 2 => server[j] # 0
      BY <1>0 DEF ListShape
    <2>4. QED
      BY <2>1, <2>2, <2>3 DEF InOrder, Reading
  <1>7. QED
    BY <1>0, <1>1, <1>2, <1>3, <1>4, <1>5, <1>6, Moves

----------------------------------------------------------------------------
(* The bucket leads to the paths *)

LEMMA LinkedStep == Shape /\ Linked /\ [Next]_vars => Linked'
  <1> SUFFICES ASSUME Shape, Linked, [Next]_vars, "insertsCrossed" \notin faults'
               PROVE  \A j \in Slots : Found(j)'
    BY DEF Linked
  <1>0. AcceptShape /\ ThreadShape /\ ListShape /\ Filled
    BY DEF Shape
  <1>1. CASE Quiet
    <2>1. \A j \in Slots : Found(j)
      BY <1>1 DEF Quiet, Linked
    <2>2. UNCHANGED <<storageServerList, server, table>>
          /\ \A j \in Slots : handler[j] = "link" => handler'[j] = "link"
      BY <1>1 DEF Quiet
    <2>3. QED
      BY <2>1, <2>2 DEF Found
  <1>2. ASSUME NEW k \in Slots, Receive(k) \/ Ends(k) PROVE \A j \in Slots : Found(j)'
    <2>1. UNCHANGED <<storageServerList, server, table>> /\ faults \subseteq faults'
          /\ handler[k] # "link" /\ \A j \in Slots : j # k => handler'[j] = handler[j]
      <3>1. CASE Receive(k)
        BY <1>0, <3>1, Received
      <3>2. CASE Ends(k)
        BY <1>0, <3>2, Ended DEF Ends
      <3>3. QED
        BY <1>2, <3>1, <3>2
    <2>2. \A j \in Slots : Found(j)
      BY <2>1 DEF Linked
    <2>3. QED
      BY <2>1, <2>2 DEF Found
  <1>3. ASSUME NEW k \in Slots, Adds(k) PROVE \A j \in Slots : Found(j)'
    <2>1. handler[k] = "parse" /\ faults \subseteq faults'
      BY <1>3 DEF Adds
    <2>2. PICK token \in Tokens : token # NULL /\ (AddServer(k, token) \/ AddPath(k, token))
      BY <1>3 DEF Adds
    <2>3. UNCHANGED table
      BY <2>2 DEF AddServer, AddPath
    <2>4. \A j \in Slots : Found(j)
      BY <2>1 DEF Linked
    <2>5. ASSUME NEW j \in Slots, j # k PROVE Found(j)'
      <3>1. /\ handler'[j] = handler[j] /\ server'[j] = server[j]
            /\ server[j] # 0 => storageServerList'[server[j]] = storageServerList[server[j]]
        BY <1>0, <1>3, <2>5, AddsElsewhere
      <3>2. QED
        BY <2>3, <2>4, <3>1 DEF Found
    <2>6. CASE AddServer(k, token)
      <3>1. storageServerList'[server'[k]].paths = <<>>
        <4>1. PICK e : e = Len(storageServerList) + 1
          OBVIOUS
        <4>2. server'[k] = e /\ storageServerList'[e] = Entry(token)
          BY <1>0, <2>6, <4>1, ServerAdded
        <4>3. QED
          BY <4>2 DEF Entry
      <3>2. Found(k)'
        BY <3>1 DEF Found
      <3>3. QED
        BY <2>5, <3>2
    <2>7. CASE AddPath(k, token)
      <3>1. receivingInfo[k] = 2 /\ token # "COMPLETED" /\ UNCHANGED server
            /\ \/ /\ storageServerList' =
                       [storageServerList EXCEPT ![server[k]].paths = Append(@, token)]
                  /\ handler' = [handler EXCEPT ![k] = "link"]
               \/ UNCHANGED <<storageServerList, handler>>
        BY <2>7 DEF AddPath, Goto
      <3>2. CASE UNCHANGED <<storageServerList, handler>>
        BY <2>3, <2>4, <3>1, <3>2 DEF Found
      <3>3. CASE /\ storageServerList' =
                      [storageServerList EXCEPT ![server[k]].paths = Append(@, token)]
                 /\ handler' = [handler EXCEPT ![k] = "link"]
        <4>1. server[k] # 0
          BY <1>0, <3>1 DEF ListShape
        <4>2. token \in PathNames
          <5>1. token \in Tokens2
            BY <1>0, <1>3, <2>2, TokenIs DEF Adds
          <5>2. QED
            BY <3>1, <5>1 DEF Tokens2
        <4>3. PICK paths : paths = storageServerList[server[k]].paths
          OBVIOUS
        <4>4. PICK q : q = storageServerList'[server[k]].paths
          OBVIOUS
        <4>5. PICK l \in Nat : l = Len(paths) /\ DOMAIN paths = 1..l
          BY <1>0, <4>1, <4>3, EntryIs, LenProperties
        <4>6. Len(q) = l + 1 /\ DOMAIN q = 1..l + 1 /\ \A i \in 1..l : q[i] = paths[i]
          <5>1. LET p == storageServerList[server[k]].paths
                IN  /\ Len(storageServerList'[server[k]].paths) = Len(p) + 1
                    /\ DOMAIN storageServerList'[server[k]].paths = 1..Len(p) + 1
                    /\ \A i \in 1..Len(p) : storageServerList'[server[k]].paths[i] = p[i]
            BY <1>0, <3>3, <4>1, <4>2, PathAdded
          <5>2. QED
            BY <4>3, <4>4, <4>5, <5>1
        <4>7. handler'[k] = "link"
          BY <1>0, <3>3 DEF ThreadShape
        <4>8. \A i \in 1..l : [path |-> paths[i], server |-> server[k]] \in ToSet(table)
          BY <2>1, <2>4, <4>1, <4>3, <4>5 DEF Found
        <4>9. ASSUME NEW i \in 1..l + 1
              PROVE  \/ [path |-> q[i], server |-> server[k]] \in ToSet(table)
                     \/ i = l + 1
          <5>1. CASE i = l + 1
            BY <5>1
          <5>2. CASE i \in 1..l
            BY <4>6, <4>8, <5>2
          <5>3. QED
            BY <5>1, <5>2
        <4>10. Found(k)'
          BY <2>3, <3>1, <4>4, <4>6, <4>7, <4>9 DEF Found
        <4>11. QED
          BY <2>5, <4>10
      <3>4. QED
        BY <3>1, <3>2, <3>3
    <2>8. QED
      BY <2>2, <2>6, <2>7
  <1>4. ASSUME NEW k \in Slots, LinkNode(k) PROVE \A j \in Slots : Found(j)'
    <2>1. /\ UNCHANGED <<storageServerList, server>> /\ handler[k] = "link"
          /\ handler' = [handler EXCEPT ![k] = "parse"]
          /\ faults' = IF table = seen[k] THEN faults ELSE faults \cup {"insertsCrossed"}
      BY <1>4 DEF LinkNode, At, Goto
    <2>2. table = seen[k] /\ "insertsCrossed" \notin faults
      BY <2>1
    <2>3. PICK paths : paths = storageServerList[server[k]].paths
      OBVIOUS
    <2>4. ToSet(table') = {[path |-> paths[Len(paths)], server |-> server[k]]} \cup ToSet(table)
      BY <1>0, <1>4, <2>2, <2>3, LinkEffect
    <2>5. \A j \in Slots : Found(j)
      BY <2>2 DEF Linked
    <2>6. Found(k)'
      BY <2>1, <2>3, <2>4, <2>5 DEF Found
    <2>7. ASSUME NEW j \in Slots, j # k PROVE Found(j)'
      <3>1. handler'[j] = handler[j]
        BY <1>0, <2>1, <2>7 DEF ThreadShape
      <3>2. QED
        BY <2>1, <2>4, <2>5, <3>1 DEF Found
    <2>8. QED
      BY <2>6, <2>7
  <1>5. ASSUME NEW k \in Slots, Watches(k) PROVE \A j \in Slots : Found(j)'
    <2>1. UNCHANGED <<server, table, faults>> /\ handler[k] # "link"
      BY <1>5 DEF Watches, Past
    <2>2. /\ \A j \in Slots : j # k => handler'[j] = handler[j]
          /\ \A j \in Slots : server[j] # 0 =>
               storageServerList'[server[j]].paths = storageServerList[server[j]].paths
      BY <1>0, <1>5, WatchesElsewhere
    <2>3. \A j \in Slots : Found(j)
      BY <2>1 DEF Linked
    <2>4. QED
      BY <2>1, <2>2, <2>3 DEF Found
  <1>6. QED
    BY <1>0, <1>1, <1>2, <1>3, <1>4, <1>5, Moves

----------------------------------------------------------------------------
(* Who was sent a number had all its paths read *)

LEMMA CompleteStep == Shape /\ Told /\ InOrder /\ Complete /\ [Next]_vars => Complete'
  <1> SUFFICES ASSUME Shape, Told, InOrder, Complete, [Next]_vars,
                      faults' \cap {"crossed", "cut"} = {}, NEW c \in Conns
               PROVE  AllRead(c)'
    BY DEF Complete
  <1>0. AcceptShape /\ ThreadShape /\ ListShape /\ told \in [Conns -> Numbers]
    BY DEF Shape, RestShape
  <1>1. told[c] # 0 => told[c] \in Slots /\ handler[told[c]] \in Past
    BY DEF Told
  <1>2. ASSUME faults \subseteq faults', told'[c] = told[c],
               \A j \in Slots : handler[j] \in Past /\ server[j] # 0 =>
                 /\ server'[j] = server[j]
                 /\ storageServerList'[server[j]].paths = storageServerList[server[j]].paths
        PROVE  AllRead(c)'
    <2>1. AllRead(c)
      BY <1>2 DEF Complete
    <2>2. QED
      BY <1>1, <1>2, <2>1 DEF AllRead
  <1>3. CASE Quiet
    BY <1>2, <1>3 DEF Quiet
  <1>4. ASSUME NEW k \in Slots, Receive(k) PROVE AllRead(c)'
    <2>1. UNCHANGED <<storageServerList, server, told>> /\ faults \subseteq faults'
      BY <1>0, <1>4, Received
    <2>2. QED
      BY <1>2, <2>1
  <1>5. ASSUME NEW k \in Slots, Adds(k) PROVE AllRead(c)'
    <2>1. UNCHANGED told /\ faults \subseteq faults' /\ handler[k] = "parse"
      BY <1>5 DEF Adds
    <2>2. ASSUME NEW j \in Slots, handler[j] \in Past, server[j] # 0
          PROVE  /\ server'[j] = server[j]
                 /\ storageServerList'[server[j]].paths = storageServerList[server[j]].paths
      <3>1. j # k
        BY <2>1, <2>2 DEF Past
      <3>2. QED
        BY <1>0, <1>5, <2>2, <3>1, AddsElsewhere
    <2>3. QED
      BY <1>2, <2>1, <2>2
  <1>6. ASSUME NEW k \in Slots, LinkNode(k) PROVE AllRead(c)'
    <2>1. UNCHANGED <<storageServerList, server, told>> /\ faults \subseteq faults'
      BY <1>6 DEF LinkNode, replies
    <2>2. QED
      BY <1>2, <2>1
  <1>7. ASSUME NEW k \in Slots, Watches(k) PROVE AllRead(c)'
    <2>1. UNCHANGED <<told, server, faults>>
      BY <1>7 DEF Watches
    <2>2. \A j \in Slots : server[j] # 0 =>
            storageServerList'[server[j]].paths = storageServerList[server[j]].paths
      BY <1>0, <1>7, WatchesElsewhere
    <2>3. QED
      BY <1>2, <2>1, <2>2
  <1>8. ASSUME NEW k \in Slots, Ends(k) PROVE AllRead(c)'
    <2>1. /\ handler[k] = "parse" /\ strtokPlace.owner = k /\ faults' = faults
          /\ UNCHANGED <<storageServerList, server>>
      <3>1. UNCHANGED <<storageServerList, server>>
        BY <1>0, <1>8, Ended
      <3>2. QED
        BY <1>8, <3>1 DEF Ends
    <2>2. CASE told'[c] = told[c]
      BY <1>2, <2>1, <2>2
    <2>3. CASE told'[c] # told[c]
      <3>1. PICK token \in Tokens : EndOfInfo(k, token)
        BY <1>8 DEF Ends
      <3>2. token # NULL /\ token = "COMPLETED" /\ receivingInfo[k] = 2
            /\ told' = [told EXCEPT ![socket[k]] = k]
        BY <2>3, <3>1 DEF EndOfInfo
      <3>3. c = socket[k] /\ told'[c] = k
        BY <1>0, <2>3, <3>2
      <3>4. Reading(k)
        BY <2>1 DEF InOrder
      <3>5. PICK n \in Nat : n = Len(PathsFile[c.server])
        BY ConnIs, MessageIs
      <3>6. PICK a : a = strtokPlace.at
        OBVIOUS
      <3>7. /\ a \in 3..n + 3
            /\ FirstPaths(storageServerList[server[k]].paths, c.server, a - 3)
            /\ a = n + 3 \/ token \in ToSet(PathsFile[c.server])
        BY <1>0, <2>1, <3>2, <3>3, <3>4, <3>5, <3>6, NextPath
      <3>8. server[k] # 0
        BY <1>0, <3>2 DEF ListShape
      <3>9. CASE "COMPLETED" \in ToSet(PathsFile[c.server])
        BY <3>9 DEF AllRead
      <3>10. CASE a = n + 3
        <4>1. a - 3 = n
          BY <3>10
        <4>2. QED
          BY <2>1, <3>3, <3>5, <3>7, <3>8, <4>1 DEF AllRead
      <3>11. QED
        BY <3>2, <3>7, <3>9, <3>10
    <2>4. QED
      BY <2>2, <2>3
  <1>9. QED
    BY <1>0, <1>3, <1>4, <1>5, <1>6, <1>7, <1>8, Moves

\* The paths in the entry are those that Kept keeps.
LEMMA KeptIs ==
  ASSUME NEW s \in Servers, NEW paths \in Seq(PathNames), FirstPaths(paths, s, Len(PathsFile[s]))
  PROVE  paths = Kept(PathsFile[s])
  <1>1. PICK n \in Nat : n = Len(PathsFile[s])
    BY MessageIs
  <1>2. PICK l \in Nat : l = (IF n < MaxPaths THEN n ELSE MaxPaths) /\ l <= n
    <2>1. MaxPaths \in Nat
      BY BoundsAssumption
    <2>2. QED
      BY <2>1
  <1>3. Len(paths) = l /\ \A i \in 1..l : paths[i] = PathsFile[s][i]
    BY <1>1, <1>2 DEF FirstPaths
  <1>4. \A i \in 1..l : PathsFile[s][i] \in PathNames
    <2>1. \A i \in 1..n : PathsFile[s][i] \in PathNames
      BY <1>1, MessageIs
    <2>2. QED
      BY <1>2, <2>1
  <1>5. PICK kept : kept = SubSeq(PathsFile[s], 1, l)
    OBVIOUS
  <1>6. /\ kept \in Seq(PathNames) /\ Len(kept) = (IF 1 <= l THEN l - 1 + 1 ELSE 0)
        /\ \A i \in 1..l - 1 + 1 : kept[i] = PathsFile[s][1 + i - 1]
    BY <1>4, <1>5, SubSeqProperties
  <1>7. Len(kept) = l
    BY <1>6
  <1>8. ASSUME NEW i \in 1..l PROVE kept[i] = paths[i]
    <2>1. i \in 1..l - 1 + 1 /\ 1 + i - 1 = i
      OBVIOUS
    <2>2. QED
      BY <1>3, <1>6, <2>1
  <1>9. paths = kept
    BY <1>3, <1>6, <1>7, <1>8, SeqEqual
  <1>10. Kept(PathsFile[s]) = kept
    BY <1>1, <1>2, <1>5 DEF Kept
  <1>11. QED
    BY <1>9, <1>10

LEMMA FullFromParts ==
  Shape /\ Told /\ Named /\ Linked /\ Complete => RegisteredInFull
  <1> SUFFICES ASSUME Shape, Told, Named, Linked, Complete,
                      faults \cap {"crossed", "cut", "insertsCrossed"} = {},
                      NEW c \in Conns, told[c] # 0, "COMPLETED" \notin ToSet(PathsFile[c.server])
               PROVE  \E e \in DOMAIN storageServerList :
                        /\ storageServerList[e].server = c.server
                        /\ storageServerList[e].paths = Kept(PathsFile[c.server])
                        /\ \A p \in ToSet(storageServerList[e].paths) :
                             [path |-> p, server |-> e] \in ToSet(table)
    BY DEF RegisteredInFull
  <1>1. PICK k \in Slots : k = told[c] /\ socket[k] = c /\ handler[k] \in Past
    BY DEF Told
  <1>2. /\ server[k] # 0
        /\ FirstPaths(storageServerList[server[k]].paths, c.server, Len(PathsFile[c.server]))
    BY <1>1 DEF Complete, AllRead
  <1>3. /\ server[k] \in DOMAIN storageServerList
        /\ storageServerList[server[k]].paths \in Seq(PathNames)
    BY <1>2, EntryIs DEF Shape
  <1>4. storageServerList[server[k]].server = c.server
    BY <1>1, <1>2 DEF Named
  <1>5. storageServerList[server[k]].paths = Kept(PathsFile[c.server])
    BY <1>2, <1>3, KeptIs, ConnIs
  <1>6. ASSUME NEW p \in ToSet(storageServerList[server[k]].paths)
        PROVE  [path |-> p, server |-> server[k]] \in ToSet(table)
    <2>1. PICK i \in DOMAIN storageServerList[server[k]].paths :
            p = storageServerList[server[k]].paths[i]
      BY DEF ToSet
    <2>2. Found(k) /\ handler[k] # "link"
      BY <1>1 DEF Linked, Past
    <2>3. QED
      BY <1>2, <2>1, <2>2 DEF Found
  <1>7. QED
    BY <1>3, <1>4, <1>5, <1>6

----------------------------------------------------------------------------
(* The theorems *)

LEMMA InitIInv == Init => IInv
  <1> SUFFICES ASSUME Init PROVE IInv
    OBVIOUS
  <1>1. Shape
    BY ShapeInit
  <1>2. /\ \A c \in Conns : told[c] = 0
        /\ \A k \in Slots : handler[k] = "none" /\ server[k] = 0
        /\ ~crashed
    BY DEF Init
  <1>3. Told /\ Named /\ InOrder /\ Linked /\ Complete /\ SurvivesRegistrations
    BY <1>2 DEF Told, Named, InOrder, Reading, Linked, Found, Complete, AllRead,
                SurvivesRegistrations
  <1>4. QED
    BY <1>1, <1>3 DEF IInv

LEMMA InductiveInv == Spec => []IInv
  <1>1. Init => IInv
    BY InitIInv
  <1>2. IInv /\ [Next]_vars => IInv'
    BY ShapeStep, ToldStep, NamedStep, InOrderStep, LinkedStep, CompleteStep, SurvivesStep
       DEF IInv
  <1>3. QED
    BY <1>1, <1>2, PTL DEF Spec

\* Type correctness of both ends of a registration; in particular there are never
\* more storage servers in the list than threads, nor more paths than the limit.
THEOREM TypeCorrect == Spec => []TypeOK
  <1>1. IInv => TypeOK
    BY ShapeTypes DEF IInv
  <1>2. QED
    BY <1>1, InductiveInv, PTL

\* No two registrations are sent the same ss_id, whatever strtok mixes up: the
\* number is that of the thread, and a thread serves one connection
\* (handleStorageServer).
THEOREM NumbersAreUnique == Spec => []IdsAreUnique
  <1>1. IInv => IdsAreUnique
    BY ToldUnique DEF IInv
  <1>2. QED
    BY <1>1, InductiveInv, PTL

\* Registrations bring the name server down in no other way than those named: a
\* thread gets to initConnectionToStorageServer without a server only after a
\* connection that ended without a message or after strtok changed buffers, and
\* the list outgrows its arrays only after MAX_SERVERS connections.
THEOREM Survives == Spec => []SurvivesRegistrations
  <1>1. IInv => SurvivesRegistrations
    BY DEF IInv
  <1>2. QED
    BY <1>1, InductiveInv, PTL

\* A server that was sent its ss_id is in the list with the paths of its file, and
\* the bucket leads to each, for registrations that overlap in any way but the two
\* named (handleStorageServer, addStorageServerInfo, insertIntoHashTable).
THEOREM InFull == Spec => []RegisteredInFull
  <1>1. IInv => RegisteredInFull
    BY FullFromParts DEF IInv
  <1>2. QED
    BY <1>1, InductiveInv, PTL
=============================================================================
