-------------------------- MODULE NameServer_proofs --------------------------
(***************************************************************************)
(* Proofs about NameServer, for any finite set of threads and of paths,    *)
(* any list of servers and any requests.                                   *)
(*                                                                         *)
(* Stages says what a thread has settled by the time it reaches each step; *)
(* with the types it is inductive (Shape) and carries the others: that the *)
(* counts add up, whose operation number a thread works under (OwnInv),    *)
(* what a thread that has a path to itself finds there (AloneInv), what    *)
(* the storage servers have done and the directory has yet to record       *)
(* (AccountsInv), and the room under the limit (RoomInv).  FreshInv says   *)
(* that what a thread has read of a bucket is still so unless the thread   *)
(* is among the stale ones.                                                *)
(***************************************************************************)
EXTENDS NameServer, SumLemmas, SequenceTheorems, FiniteSetTheorems, TLAPS

Talking  == {"connect", "confirm", "await", "record", "insert", "delete", "load", "store"}
Answered == {"record", "insert", "delete", "load", "store", "reply", "done"}

\* What a thread has settled by the time it reaches each step.
Stages(t) ==
  /\ pc[t] \in {"choose", "find", "findUnset"} => Op(t) \in CreateOps \cup DeleteOps
  /\ pc[t] \in {"locate", "address"} => Op(t) = "READ_FILE"
  /\ pc[t] = "lookup" => Op(t) = "COPY_FILES"
  /\ pc[t] = "address" => server[t] \in Servers
  /\ pc[t] \in Talking \/ work[t] # "none" =>
       /\ Op(t) \in CreateOps \cup DeleteOps \cup {"COPY_FILES"}
       /\ server[t] \in Servers
       /\ Op(t) \in CopyOps => target[t] \in Servers
  /\ work[t] # "none" =>
       /\ pc[t] \in Answered \cup {"await"}
       /\ sent[t] \in Ops
  /\ pc[t] = "record" => answer[t] = work[t] /\ work[t] \notin {"none", "todo"}
  /\ pc[t] \in {"insert", "delete", "load", "store"} => answer[t] = "VALID"
  /\ pc[t] \in {"load", "store"} => delta[t] # 0
  /\ answer[t] # "none" => pc[t] \in Answered
  /\ answer[t] = "VALID" => work[t] = "VALID"
  /\ answer[t] \in Servers => Op(t) = "READ_FILE"
  /\ delta[t] # 0 => pc[t] \in {"load", "store"}
  /\ t \in writers => pc[t] = "done" /\ answer[t] \in Servers

Shape == TypeOK /\ \A t \in Threads : Stages(t)

\* A path that is about to be deleted is listed, unless the list has changed.
Fresh(t) == pc[t] = "delete" /\ t \notin stale => table[Path(t)] # <<>>

FreshInv == \A t \in Threads : Fresh(t)

\* With nothing mixed up, a thread works under its own operation number.
Own(t) ==
  /\ pc[t] = "confirm" \/ work[t] # "none" => sent[t] = Op(t)
  /\ pc[t] = "findUnset" => Op(t) \in DeleteOps
  /\ pc[t] \in {"accept", "type", "choose"} => server[t] = NoServer
  /\ pc[t] = "insert" => Op(t) \notin DeleteOps
  /\ pc[t] = "insert" /\ "copied" \notin faults => Op(t) \in CreateOps
  /\ pc[t] = "delete" => Op(t) \in DeleteOps
  /\ pc[t] \in {"load", "store"} => delta[t] = IF Op(t) \in DeleteOps THEN -1 ELSE 1

OwnInv == "mixed" \notin faults => \A t \in Threads : Own(t)

\* No server occurs twice.
NoRepeats(seq) == \A i, j \in DOMAIN seq : seq[i] = seq[j] => i = j

\* What a thread that nobody else disturbs finds under its path: the entries
\* are holders until its own operation is carried out, a deletion goes to
\* the first of them, and what it was told is so.
Alone(t) ==
  LET entries == table[Path(t)]
      stored(s) == disk[s][Path(t)]
      recorded == answer[t] = "VALID" /\ pc[t] \in {"load", "store", "reply", "done"}
  IN  /\ work[t] \in {"none", "todo"} => ToSet(entries) \subseteq Holders(disk, Path(t))
      /\ pc[t] \notin {"load", "store", "reply", "done"} => NoRepeats(entries)
      /\ pc[t] = "address" => stored(server[t]) # "none"
      /\ answer[t] \in Servers => stored(answer[t]) # "none"
      /\ Op(t) = "CREATE_FILE" =>
           /\ work[t] = "VALID" => stored(server[t]) = "file"
           /\ recorded => entries # <<>> /\ Head(entries) = server[t]
      /\ Op(t) = "DELETE_FILE" =>
           /\ work[t] = "VALID" /\ "revived" \notin faults => stored(server[t]) = "none"
           /\ pc[t] \in {"connect", "confirm", "await", "record", "delete"} =>
                entries # <<>> /\ Head(entries) = server[t]
           /\ recorded => server[t] \notin ToSet(entries)

AloneInv ==
  faults \cap {"mixed", "tangled"} = {} =>
    \A t \in Threads :
      (\A u \in Threads \ {t} : ~Touches(u, Path(t))) => Alone(t)

\* The operations of a kind that are done on a server and not yet recorded.
Pending(ops, p, s) ==
  {t \in Threads : /\ Op(t) \in ops /\ Path(t) = p /\ server[t] = s
                   /\ work[t] = "VALID" /\ pc[t] \in {"await", "record", "insert", "delete"}}

Listed(p, s) == IF s \in ToSet(table[p]) THEN 1 ELSE 0
Held(p, s)   == IF disk[s][p] # "none" THEN 1 ELSE 0

\* What the directory lists and what a server holds differ by the operations
\* the directory has yet to record.
Account(p, s) ==
  Listed(p, s) + Cardinality(Pending(CreateOps, p, s))
    = Held(p, s) + Cardinality(Pending(DeleteOps, p, s))

AccountsInv ==
  faults \subseteq {"raced", "hungUp"} =>
    /\ \A t \in Threads : work[t] = "todo" => pc[t] = "await"
    /\ \A p \in Paths : NoRepeats(table[p])
    /\ \A p \in Paths, s \in Servers : Account(p, s)

\* The threads that a server was chosen for, and those of them that are through.
Choosers(s) == {t \in Threads : Op(t) \in CreateOps /\ server[t] = s}
Added(s)    == {t \in Choosers(s) : answer[t] = "VALID" /\ pc[t] \in {"reply", "done"}}

\* A server is chosen below the limit, and every creation that is through can
\* have taken it one path up.
Room(s) == MaxPaths + Cardinality(Added(s))

RoomInv ==
  faults \cap {"mixed", "copied"} = {} =>
    /\ \A s \in Servers : count[s] <= Room(s) - (IF Choosers(s) = {} THEN 0 ELSE 1)
    /\ \A t \in Threads :
         /\ pc[t] \in {"load", "store"} => Op(t) \notin CopyOps
         /\ pc[t] = "store" =>
              loaded[t] + delta[t] <= Room(server[t]) - (IF Op(t) \in DeleteOps THEN 1 ELSE 0)

----------------------------------------------------------------------------
(* The servers, the initial directory and the choice of a server *)

LEMMA ServersFinite == IsFiniteSet(Servers) /\ Cardinality(Servers) \in Nat
<1>1. PICK n \in Nat : n = Len(ServerList)
  BY ServersAssumption, LenProperties
<1>2. ServerList \in [1..n -> Servers]
  BY <1>1, ServersAssumption, LenProperties
<1>3. ServerList \in Surjection(1..n, Servers)
  BY <1>2 DEF Servers, Surjection
<1>4. IsFiniteSet(1..n)
  BY FS_Interval
<1> QED
  BY <1>3, <1>4, FS_Surjection, FS_CardinalityType

(* A finite set of servers has one with the least value.                   *)
LEMMA LeastExists ==
  ASSUME NEW S, IsFiniteSet(S), S # {}, NEW f \in [S -> Int]
  PROVE  \E m \in S : \A x \in S : f[m] <= f[x]
<1> DEFINE Good == {T \in SUBSET S : T = {} \/ \E m \in T : \A x \in T : f[m] <= f[x]}
<1>1. {} \in Good
  OBVIOUS
<1>2. ASSUME NEW T \in SUBSET S, T # {}, T \ {Pick(T)} \in Good
      PROVE  T \in Good
  <2>1. Pick(T) \in T
    BY <1>2 DEF Pick
  <2>2. CASE T \ {Pick(T)} = {}
    <3>1. T = {Pick(T)} /\ f[Pick(T)] \in Int
      BY <2>1, <2>2
    <3> QED
      BY <3>1
  <2>3. CASE T \ {Pick(T)} # {}
    <3>1. PICK m \in T \ {Pick(T)} : \A x \in T \ {Pick(T)} : f[m] <= f[x]
      BY <1>2, <2>3
    <3>2. CASE f[m] <= f[Pick(T)]
      BY <2>1, <3>1, <3>2
    <3>3. CASE ~(f[m] <= f[Pick(T)])
      <4>1. \A x \in T : f[Pick(T)] <= f[x]
        BY <2>1, <3>1, <3>3
      <4> QED
        BY <2>1, <4>1
    <3> QED
      BY <3>2, <3>3
  <2> QED
    BY <2>2, <2>3
<1>3. SUBSET S \subseteq Good
  <2> HIDE DEF Good
  <2> QED
    BY <1>1, <1>2, SubsetInduction
<1> QED
  BY <1>3

(* Emptiest chooses one of the open servers, if there is one.              *)
LEMMA EmptiestIsOpen ==
  ASSUME count \in [Servers -> Int], NEW open \in SUBSET DOMAIN ServerList
  PROVE  IF open = {} THEN Emptiest(open) = NoServer
                      ELSE \E i \in open : Emptiest(open) = ServerList[i]
<1> SUFFICES ASSUME open # {}
             PROVE  \E i \in open : Emptiest(open) = ServerList[i]
  BY DEF Emptiest
<1> DEFINE size(i) == count[ServerList[i]]
           best == {i \in open : \A j \in open :
                      size(i) < size(j) \/ (size(i) = size(j) /\ i <= j)}
<1>1. DOMAIN ServerList = 1..Len(ServerList) /\ Len(ServerList) \in Nat
  BY ServersAssumption, LenProperties
<1>2. IsFiniteSet(open) /\ \A i \in open : i \in Int /\ size(i) \in Int
  <2>1. IsFiniteSet(open)
    <3>1. IsFiniteSet(1..Len(ServerList))
      BY <1>1, FS_Interval
    <3> QED
      BY <1>1, <3>1, FS_Subset
  <2>2. \A i \in open : i \in Int
    BY <1>1
  <2> QED
    BY <2>1, <2>2 DEF Servers
<1>3. PICK m \in open : \A x \in open : size(m) <= size(x)
  <2> DEFINE f == [i \in open |-> size(i)]
  <2>1. f \in [open -> Int]
    BY <1>2
  <2>2. \E m \in open : \A x \in open : f[m] <= f[x]
    <3> HIDE DEF f
    <3> QED
      BY <1>2, <2>1, LeastExists
  <2> QED
    BY <2>2
<1> DEFINE least == {x \in open : size(x) = size(m)}
<1>4. PICK i \in least : \A x \in least : i <= x
  <2> DEFINE f == [x \in least |-> x]
  <2>1. f \in [least -> Int] /\ IsFiniteSet(least) /\ least # {}
    BY <1>2, FS_Subset
  <2>2. \E n \in least : \A x \in least : f[n] <= f[x]
    <3> HIDE DEF f, least
    <3> QED
      BY <2>1, LeastExists
  <2> QED
    BY <2>2
<1>5. i \in best
  <2>1. ASSUME NEW j \in open
        PROVE  size(i) < size(j) \/ (size(i) = size(j) /\ i <= j)
    <3>1. {size(i), size(j), size(m), i, j} \subseteq Int
      BY <1>2
    <3>2. size(i) = size(m) /\ size(m) <= size(j)
      BY <1>3
    <3>3. size(j) = size(m) => i <= j
      BY <1>4
    <3> HIDE DEF size
    <3> QED
      BY <3>1, <3>2, <3>3
  <2> QED
    BY <2>1
<1>6. Emptiest(open) = ServerList[CHOOSE x \in best : TRUE]
  BY DEF Emptiest
<1>7. (CHOOSE x \in best : TRUE) \in open
  <2> HIDE DEF size
  <2> QED
    BY <1>5
<1> QED
  BY <1>6, <1>7

LEMMA MinAccessibleHasRoom ==
  ASSUME TypeOK, minAccessiblePathSS # NoServer
  PROVE  /\ minAccessiblePathSS \in Servers
         /\ count[minAccessiblePathSS] < MaxPaths
<1> DEFINE open == {i \in DOMAIN ServerList :
                      count[ServerList[i]] < MaxPaths /\ running[ServerList[i]]}
<1>1. minAccessiblePathSS = Emptiest(open)
  BY DEF minAccessiblePathSS
<1>2. IF open = {} THEN Emptiest(open) = NoServer
                   ELSE \E i \in open : Emptiest(open) = ServerList[i]
  <2>1. open \in SUBSET DOMAIN ServerList /\ count \in [Servers -> Int]
    BY DEF TypeOK
  <2> HIDE DEF open
  <2> QED
    BY <2>1, EmptiestIsOpen
<1>3. PICK i \in open : Emptiest(open) = ServerList[i]
  BY <1>1, <1>2
<1> QED
  BY <1>1, <1>3 DEF Servers

(* The initial entries of a path are its holders, each of them once.       *)
LEMMA InitialEntries ==
  ASSUME Init, NEW p \in Paths
  PROVE  /\ table[p] \in Seq(Servers)
         /\ ToSet(table[p]) = Holders(disk, p)
         /\ \A i, j \in 1..Len(table[p]) : i # j => table[p][i] # table[p][j]
         /\ Len(table[p]) = Cardinality(Holders(disk, p))
<1>1. ToSet(table[p]) = Holders(disk, p)
  BY DEF Init
<1>2. PICK S \in SUBSET Servers : table[p] \in SetToSeqs(S)
  BY DEF Init
<1>3. PICK n \in Nat : n = Cardinality(S)
  BY ServersFinite, FS_Subset, FS_CardinalityType
<1>4. table[p] \in [1..n -> S] /\ \A i, j \in 1..n : i # j => table[p][i] # table[p][j]
  BY <1>2, <1>3 DEF SetToSeqs
<1>5. table[p] \in Seq(Servers) /\ Len(table[p]) = n
  BY <1>4, IsASeq
<1>6. ExistsBijection(1..n, ToSet(table[p]))
  BY <1>4 DEF ExistsBijection, Bijection, Injection, Surjection, IsInjective, ToSet
<1>7. Cardinality(ToSet(table[p])) = n
  <2>1. IsFiniteSet(1..n) /\ Cardinality(1..n) = n
    BY FS_Interval
  <2> QED
    BY <1>6, <2>1, FS_Bijection
<1> QED
  BY <1>1, <1>4, <1>5, <1>7

(* What the hash table returns.                                            *)
LEMMA LookupFinds ==
  ASSUME TypeOK, NEW p \in Paths
  PROVE  /\ searchPathInHashTable(p) \in Servers \cup {NoServer}
         /\ searchPathInHashTable(p) # NoServer =>
              /\ searchPathInHashTable(p) \in Servers
              /\ table[p] # <<>> /\ searchPathInHashTable(p) = Head(table[p])
<1>1. table[p] \in Seq(Servers)
  BY DEF TypeOK
<1> QED
  BY <1>1, HeadTailProperties, ServersAssumption DEF searchPathInHashTable

(* What a thread finds in its bucket: sequences of servers, and elsewhere  *)
(* what the table holds.                                                   *)
LEMMA FoundTyped ==
  ASSUME TypeOK, NEW t \in Threads, NEW entries \in Found(t)
  PROVE  /\ entries \in [Paths -> Seq(Servers)]
         /\ \A p \in Paths : Bucket[p] # Bucket[Path(t)] => entries[p] = table[p]
         /\ t \notin stale => entries = table
<1>1. table \in [Paths -> Seq(Servers)] /\ seen[t] \in [Paths -> Seq(Servers)]
  BY DEF TypeOK
<1>2. CASE t \notin stale
  BY <1>1, <1>2 DEF Found
<1>3. CASE t \in stale
  <2>1. PICK old \in SUBSET {p \in Paths : Bucket[p] = Bucket[Path(t)]} :
          entries = [p \in Paths |-> IF p \in old THEN seen[t][p] ELSE table[p]]
    BY <1>3 DEF Found
  <2>2. \A p \in Paths : (IF p \in old THEN seen[t][p] ELSE table[p]) \in Seq(Servers)
    BY <1>1
  <2> QED
    BY <1>3, <2>1, <2>2
<1> QED
  BY <1>2, <1>3

(* What an insert writes.                                                  *)
LEMMA InsertTyped ==
  ASSUME TypeOK, NEW t \in Threads, NEW s \in Servers, insertIntoHashTable(t, s)
  PROVE  /\ table' \in [Paths -> Seq(Servers)]
         /\ \A p \in Paths : Bucket[p] # Bucket[Path(t)] => table'[p] = table[p]
         /\ t \notin stale => table' = [table EXCEPT ![Path(t)] = <<s>> \o table[Path(t)]]
<1>1. PICK entries \in Found(t) : table' = [entries EXCEPT ![Path(t)] = <<s>> \o @]
  BY DEF insertIntoHashTable
<1>2. PICK P \in Paths : P = Path(t)
  BY DEF TypeOK, Requests, Path
<1>3. /\ entries \in [Paths -> Seq(Servers)]
      /\ \A p \in Paths : Bucket[p] # Bucket[Path(t)] => entries[p] = table[p]
      /\ t \notin stale => entries = table
  BY FoundTyped
<1>4. <<s>> \o entries[P] \in Seq(Servers)
  BY <1>3
<1>5. table' = [entries EXCEPT ![P] = <<s>> \o entries[P]]
  BY <1>1, <1>2
<1> QED
  BY <1>2, <1>3, <1>4, <1>5

(* What a delete writes.                                                   *)
LEMMA DeleteTyped ==
  ASSUME TypeOK, NEW t \in Threads, deletePathFromHashTable(t)
  PROVE  /\ table' \in [Paths -> Seq(Servers)]
         /\ \A p \in Paths : Bucket[p] # Bucket[Path(t)] => table'[p] = table[p]
         /\ t \notin stale /\ table[Path(t)] # <<>> =>
              table' = [table EXCEPT ![Path(t)] = Tail(table[Path(t)])]
<1>1. PICK entries \in Found(t) :
        \/ table' = [entries EXCEPT ![Path(t)] = IF @ = <<>> THEN @ ELSE Tail(@)]
        \/ t \in stale /\ table' = entries
  BY DEF deletePathFromHashTable
<1>2. PICK P \in Paths : P = Path(t)
  BY DEF TypeOK, Requests, Path
<1>3. /\ entries \in [Paths -> Seq(Servers)]
      /\ \A p \in Paths : Bucket[p] # Bucket[Path(t)] => entries[p] = table[p]
      /\ t \notin stale => entries = table
  BY FoundTyped
<1>4. PICK new \in Seq(Servers) : new = IF entries[P] = <<>> THEN entries[P] ELSE Tail(entries[P])
  <2>1. entries[P] \in Seq(Servers)
    BY <1>3
  <2>2. entries[P] # <<>> => Tail(entries[P]) \in Seq(Servers)
    BY <2>1, HeadTailProperties
  <2> QED
    BY <2>1, <2>2
<1>5. table' = [entries EXCEPT ![P] = new] \/ (t \in stale /\ table' = entries)
  BY <1>1, <1>2, <1>4
<1>6. entries[P] # <<>> => new = Tail(entries[P])
  BY <1>4
<1> QED
  BY <1>2, <1>3, <1>5, <1>6

----------------------------------------------------------------------------
(* Types and stages *)

LEMMA ShapeInit == Init => Shape
<1> SUFFICES ASSUME Init PROVE Shape
  OBVIOUS
<1>1. TypeOK
  <2>1. table \in [Paths -> Seq(Servers)]
    BY InitialEntries DEF Init
  <2>2. disk \in [Servers -> [Paths -> Kinds]]
    BY DisksAssumption DEF Init
  <2>3. count \in [Servers -> Int]
    <3>1. \A s \in Servers : Cardinality({p \in Paths : disk[s][p] # "none"}) \in Int
      BY WorkloadsAssumption, FS_Subset, FS_CardinalityType
    <3> QED
      BY <3>1 DEF Init
  <2>4. request \in [Threads -> Requests]
    BY WorkloadsAssumption DEF Init
  <2>5. crashed \in BOOLEAN /\ running \in [Servers -> BOOLEAN]
    BY DEF Init
  <2>6. /\ seen \in [Threads -> [Paths -> Seq(Servers)]]
        /\ stale \subseteq Threads /\ writers \subseteq Threads
    <3>1. NothingSeen \in [Paths -> Seq(Servers)]
      BY DEF NothingSeen
    <3> QED
      BY <3>1 DEF Init
  <2> QED
    BY <2>1, <2>2, <2>3, <2>4, <2>5, <2>6 DEF Init, TypeOK, Steps, Msgs, Codes
<1>2. \A t \in Threads : Stages(t)
  BY ServersAssumption DEF Init, Stages, Talking, Answered, Codes
<1> QED
  BY <1>1, <1>2 DEF Shape

LEMMA AnswerTyped ==
  ASSUME TypeOK, NEW t, NEW c \in Codes,
         answer' = answer \/ answer' = [answer EXCEPT ![t] = c]
  PROVE  answer' \in [Threads -> Codes \cup Servers]
BY DEF TypeOK

LEMMA DiskTyped ==
  ASSUME TypeOK, NEW s \in Servers, NEW p \in Paths, NEW k \in Kinds
  PROVE  [disk EXCEPT ![s][p] = k] \in [Servers -> [Paths -> Kinds]]
BY DEF TypeOK

LEMMA ShapeStep == Shape /\ [Next]_vars => Shape'
<1> SUFFICES ASSUME Shape, [Next]_vars PROVE Shape'
  OBVIOUS
<1> USE ServersAssumption
    DEF Shape, TypeOK, Stages, Talking, Answered, Op, Path, At, Goto, Respond,
        Requests, Steps, Codes, Msgs, Ops, CreateOps, DeleteOps, CopyOps, Text,
        Faults, directory, storage, local
<1>1. ASSUME NEW t \in Threads, ReceiveRequest(t) PROVE Shape'
  <2>1. TypeOK'
    BY <1>1 DEF ReceiveRequest
  <2>2. ASSUME NEW u \in Threads PROVE Stages(u)'
    BY <1>1, SMTT(60) DEF ReceiveRequest
  <2> QED
    BY <2>1, <2>2
<1>2. ASSUME NEW t \in Threads, AbortRequest(t) PROVE Shape'
  <2>1. TypeOK'
    BY <1>2 DEF AbortRequest
  <2>2. ASSUME NEW u \in Threads PROVE Stages(u)'
    <3>1. CASE u = t
      BY <1>2, <3>1, SMTT(60) DEF AbortRequest
    <3>2. CASE u # t
      BY <1>2, <3>2, SMTT(60) DEF AbortRequest
    <3> QED
      BY <3>1, <3>2
  <2> QED
    BY <2>1, <2>2
<1>3. ASSUME NEW t \in Threads, StoreType(t) PROVE Shape'
  <2>0. PICK step \in {"choose", "locate", "lookup", "done"} :
          /\ pc' = [pc EXCEPT ![t] = step]
          /\ step = "choose" => Op(t) \in CreateOps \cup DeleteOps
          /\ step = "locate" => Op(t) = "READ_FILE"
          /\ step = "lookup" => Op(t) = "COPY_FILES"
    <3>1. Op(t) \in Ops
      OBVIOUS
    <3>2. CASE Op(t) \in CreateOps \cup DeleteOps
      BY <1>3, <3>2 DEF StoreType
    <3>3. CASE Op(t) = "READ_FILE"
      BY <1>3, <3>3 DEF StoreType
    <3>4. CASE Op(t) = "COPY_FILES"
      BY <1>3, <3>4 DEF StoreType
    <3>5. CASE Op(t) = "COPY_DIRECTORY"
      BY <1>3, <3>5 DEF StoreType
    <3> QED
      BY <3>1, <3>2, <3>3, <3>4, <3>5
  <2>1. TypeOK'
    <3>1. NS_Msg' = Op(t) /\ Op(t) \in Msgs
      BY <1>3 DEF StoreType
    <3>2. UNCHANGED <<request, local, directory, running, storage, crashed, faults>>
      BY <1>3 DEF StoreType
    <3> QED
      BY <2>0, <3>1, <3>2
  <2>2. ASSUME NEW u \in Threads PROVE Stages(u)'
    <3>0. pc[t] = "type" /\ UNCHANGED <<request, local, directory, running, storage>>
      BY <1>3 DEF StoreType
    <3>1. CASE u = t
      BY <2>0, <3>0, <3>1, SMTT(60)
    <3>2. CASE u # t
      BY <2>0, <3>0, <3>2, SMTT(60)
    <3> QED
      BY <3>1, <3>2
  <2> QED
    BY <2>1, <2>2
<1>4. ASSUME NEW t \in Threads, LocatePath(t) PROVE Shape'
  <2>0. searchPathInHashTable(Path(t)) # NoServer => searchPathInHashTable(Path(t)) \in Servers
    BY LookupFinds
  <2>1. TypeOK'
    <3>1. CASE searchPathInHashTable(Path(t)) = NoServer
      BY <1>4, <3>1 DEF LocatePath
    <3>2. ASSUME NEW s \in Servers, s = searchPathInHashTable(Path(t)), s # NoServer
          PROVE  TypeOK'
      <4>1. server' = [server EXCEPT ![t] = s] /\ NS_Msg' = s
        BY <1>4, <3>2 DEF LocatePath
      <4>2. pc' = [pc EXCEPT ![t] = "address"] /\ crashed' = crashed
        BY <1>4, <3>2 DEF LocatePath
      <4> QED
        BY <1>4, <3>2, <4>1, <4>2 DEF LocatePath
    <3> QED
      BY <2>0, <3>1, <3>2
  <2>2. ASSUME NEW u \in Threads PROVE Stages(u)'
    <3>1. CASE u = t
      BY <2>0, <1>4, <3>1, SMTT(60) DEF LocatePath
    <3>2. CASE u # t
      BY <2>0, <1>4, <3>2, SMTT(60) DEF LocatePath
    <3> QED
      BY <3>1, <3>2
  <2> QED
    BY <2>1, <2>2
<1>5. ASSUME NEW t \in Threads, AppendPort(t) PROVE Shape'
  <2>1. TypeOK'
    BY <1>5 DEF AppendPort
  <2>2. ASSUME NEW u \in Threads PROVE Stages(u)'
    BY <1>5, SMTT(60) DEF AppendPort
  <2> QED
    BY <2>1, <2>2
<1>6. ASSUME NEW t \in Threads, ChooseServer(t) PROVE Shape'
  <2>0. minAccessiblePathSS \in Servers \cup {NoServer}
    BY MinAccessibleHasRoom
  <2>1. TypeOK'
    BY <2>0, <1>6 DEF ChooseServer, NoteMsg
  <2>2. ASSUME NEW u \in Threads PROVE Stages(u)'
    BY <2>0, <1>6, SMTT(60) DEF ChooseServer, NoteMsg
  <2> QED
    BY <2>1, <2>2
<1>7. ASSUME NEW t \in Threads, FindServer(t) PROVE Shape'
  <2>0. searchPathInHashTable(Path(t)) \in Servers \cup {NoServer}
    BY LookupFinds
  <2>1. TypeOK'
    <3>1. PICK s \in Servers \cup {NoServer} : UseServer(t, s)
      BY <2>0, <1>7 DEF FindServer
    <3>2. faults' \subseteq Faults
      BY <1>7 DEF FindServer, NoteMsg
    <3>3. server' \in [Threads -> Servers \cup {NoServer}]
      BY <3>1 DEF UseServer
    <3>4. PICK c \in Codes : answer' = answer \/ answer' = [answer EXCEPT ![t] = c]
      BY <3>1 DEF UseServer
    <3>5. \E next \in {"reply", "connect"} : pc' = [pc EXCEPT ![t] = next]
      BY <3>1 DEF UseServer
    <3>6. answer' \in [Threads -> Codes \cup Servers]
      BY <3>4, AnswerTyped, ZenonT(60)
    <3>7. pc' \in [Threads -> Steps]
      BY <3>5
    <3> QED
      BY <1>7, <3>2, <3>3, <3>6, <3>7 DEF FindServer
  <2>2. ASSUME NEW u \in Threads PROVE Stages(u)'
    <3>1. CASE u = t
      BY <2>0, <1>7, <3>1, SMTT(60) DEF FindServer, UseServer, NoteMsg
    <3>2. CASE u # t
      BY <2>0, <1>7, <3>2, SMTT(60) DEF FindServer, UseServer, NoteMsg
    <3> QED
      BY <3>1, <3>2
  <2> QED
    BY <2>1, <2>2
<1>8. ASSUME NEW t \in Threads, FollowWildPointer(t) PROVE Shape'
  <2>1. TypeOK'
    BY <1>8 DEF FollowWildPointer
  <2>2. ASSUME NEW u \in Threads PROVE Stages(u)'
    BY <1>8, SMTT(60) DEF FollowWildPointer
  <2> QED
    BY <2>1, <2>2
<1>9. ASSUME NEW t \in Threads, LookupPaths(t) PROVE Shape'
  <2>0. /\ searchPathInHashTable(Path(t)) \in Servers \cup {NoServer}
        /\ searchPathInHashTable(request[t].path2) \in Servers \cup {NoServer}
    BY LookupFinds
  <2>1. TypeOK'
    <3>1. /\ server' \in [Threads -> Servers \cup {NoServer}]
          /\ target' \in [Threads -> Servers \cup {NoServer}]
      BY <2>0, <1>9 DEF LookupPaths
    <3>2. PICK c \in Codes : answer' = answer \/ answer' = [answer EXCEPT ![t] = c]
      BY <1>9 DEF LookupPaths
    <3>3. \E next \in {"reply", "connect"} : pc' = [pc EXCEPT ![t] = next]
      BY <1>9 DEF LookupPaths
    <3>4. answer' \in [Threads -> Codes \cup Servers]
      BY <3>2, AnswerTyped, ZenonT(60)
    <3>5. pc' \in [Threads -> Steps]
      BY <3>3
    <3> QED
      BY <1>9, <3>1, <3>4, <3>5 DEF LookupPaths
  <2>2. ASSUME NEW u \in Threads PROVE Stages(u)'
    BY <2>0, <1>9, SMTT(60) DEF LookupPaths
  <2> QED
    BY <2>1, <2>2
<1>10. ASSUME NEW t \in Threads, Refused(t) PROVE Shape'
  <2>1. TypeOK'
    BY <1>10 DEF Refused
  <2>2. ASSUME NEW u \in Threads PROVE Stages(u)'
    BY <1>10, SMTT(60) DEF Refused
  <2> QED
    BY <2>1, <2>2
<1>11. ASSUME NEW t \in Threads, SendOperation(t) PROVE Shape'
  <2>1. TypeOK'
    BY <1>11 DEF SendOperation, NoteMsg
  <2>2. ASSUME NEW u \in Threads PROVE Stages(u)'
    BY <1>11, SMTT(60) DEF SendOperation, NoteMsg
  <2> QED
    BY <2>1, <2>2
<1>12. ASSUME NEW t \in Threads, SendPath(t) PROVE Shape'
  <2>1. TypeOK'
    BY <1>12 DEF SendPath
  <2>2. ASSUME NEW u \in Threads PROVE Stages(u)'
    BY <1>12, SMTT(60) DEF SendPath
  <2> QED
    BY <2>1, <2>2
<1>13. ASSUME NEW t \in Threads, OperationNotConfirmed(t) PROVE Shape'
  <2>1. TypeOK'
    BY <1>13 DEF OperationNotConfirmed
  <2>2. ASSUME NEW u \in Threads PROVE Stages(u)'
    BY <1>13, SMTT(60) DEF OperationNotConfirmed
  <2> QED
    BY <2>1, <2>2
<1>14. ASSUME NEW t \in Threads, ReceiveAnswer(t) PROVE Shape'
  <2>1. TypeOK'
    <3>1. PICK c \in Codes : c = work[t]
      BY <1>14 DEF ReceiveAnswer
    <3>2. answer' = [answer EXCEPT ![t] = c]
      BY <1>14, <3>1 DEF ReceiveAnswer
    <3>3. answer' \in [Threads -> Codes \cup Servers]
      BY <3>2, AnswerTyped, ZenonT(60)
    <3> QED
      BY <1>14, <3>3 DEF ReceiveAnswer
  <2>2. ASSUME NEW u \in Threads PROVE Stages(u)'
    BY <1>14, SMTT(60) DEF ReceiveAnswer
  <2> QED
    BY <2>1, <2>2
<1>15. ASSUME NEW t \in Threads, AnswerNotReceived(t) PROVE Shape'
  <2>1. TypeOK'
    BY <1>15 DEF AnswerNotReceived
  <2>2. ASSUME NEW u \in Threads PROVE Stages(u)'
    BY <1>15, SMTT(60) DEF AnswerNotReceived
  <2> QED
    BY <2>1, <2>2
<1>16. ASSUME NEW t \in Threads, RecordAnswer(t) PROVE Shape'
  <2>1. PICK next \in {"insert", "delete", "reply"} : pc' = [pc EXCEPT ![t] = next]
    BY <1>16 DEF RecordAnswer
  <2>2. /\ UNCHANGED <<request, NS_Msg, server, target, sent, answer, loaded, delta, table,
                       count, running, disk, writers, work, crashed>>
        /\ pc[t] = "record" /\ answer[t] = "VALID" /\ faults' \subseteq Faults
    BY <1>16 DEF RecordAnswer
  <2>3. TypeOK'
    <3>1. seen' \in [Threads -> [Paths -> Seq(Servers)]] /\ stale' \subseteq Threads
      <4>1. \/ UNCHANGED <<seen, stale>>
            \/ seen' = [seen EXCEPT ![t] = table] /\ stale' = stale \ {t}
        BY <1>16 DEF RecordAnswer, ReadBucket
      <4>2. table \in [Paths -> Seq(Servers)] /\ seen \in [Threads -> [Paths -> Seq(Servers)]]
            /\ stale \subseteq Threads
        OBVIOUS
      <4>3. [seen EXCEPT ![t] = table] \in [Threads -> [Paths -> Seq(Servers)]]
        BY ONLY <4>2, t \in Threads
      <4> QED
        BY ONLY <4>1, <4>2, <4>3
    <3>2. pc' \in [Threads -> Steps]
      BY <2>1
    <3> QED
      BY <2>2, <3>1, <3>2
  <2>4. ASSUME NEW u \in Threads PROVE Stages(u)'
    <3>1. Stages(u) /\ (u # t => pc'[u] = pc[u]) /\ (u = t => pc'[u] = next)
      BY <2>1
    <3>2. delta[u] # 0 /\ u = t => FALSE
      BY <2>2, <3>1
    <3> HIDE DEF Shape, TypeOK
    <3> QED
      BY <2>2, <3>1, <3>2
  <2> QED
    BY <2>3, <2>4
<1>17. ASSUME NEW t \in Threads, LeaveDirectory(t) PROVE Shape'
  <2>1. TypeOK'
    BY <1>17 DEF LeaveDirectory
  <2>2. ASSUME NEW u \in Threads PROVE Stages(u)'
    <3>1. CASE u = t
      BY <1>17, <3>1, SMTT(60) DEF LeaveDirectory
    <3>2. CASE u # t
      BY <1>17, <3>2, SMTT(60) DEF LeaveDirectory
    <3> QED
      BY <3>1, <3>2
  <2> QED
    BY <2>1, <2>2
<1>18. ASSUME NEW t \in Threads, LoadCount(t) PROVE Shape'
  <2>1. TypeOK'
    BY <1>18 DEF LoadCount
  <2>2. ASSUME NEW u \in Threads PROVE Stages(u)'
    BY <1>18, SMTT(60) DEF LoadCount
  <2> QED
    BY <2>1, <2>2
<1>19. ASSUME NEW t \in Threads, StoreCount(t) PROVE Shape'
  <2>1. TypeOK'
    <3>1. server[t] \in Servers
      BY <1>19 DEF StoreCount
    <3>2. loaded[t] \in Int /\ delta[t] \in {-1, 0, 1}
      OBVIOUS
    <3>3. count' \in [Servers -> Int]
      BY <1>19, <3>1, <3>2 DEF StoreCount
    <3> QED
      BY <1>19, <3>3 DEF StoreCount
  <2>2. ASSUME NEW u \in Threads PROVE Stages(u)'
    <3>1. CASE u = t
      BY <1>19, <3>1, SMTT(60) DEF StoreCount
    <3>2. CASE u # t
      BY <1>19, <3>2, SMTT(60) DEF StoreCount
    <3> QED
      BY <3>1, <3>2
  <2> QED
    BY <2>1, <2>2
<1>20. ASSUME NEW t \in Threads, SendResponse(t) PROVE Shape'
  <2>1. TypeOK'
    BY <1>20 DEF SendResponse
  <2>2. ASSUME NEW u \in Threads PROVE Stages(u)'
    BY <1>20, SMTT(60) DEF SendResponse
  <2> QED
    BY <2>1, <2>2
<1>21. ASSUME NEW t \in Threads, CarryOut(t) PROVE Shape'
  <2>1. TypeOK'
    BY <1>21 DEF CarryOut, Outcomes, Kinds
  <2>2. ASSUME NEW u \in Threads PROVE Stages(u)'
    BY <1>21, SMTT(60) DEF CarryOut, Outcomes, Kinds
  <2> QED
    BY <2>1, <2>2
<1>22. ASSUME NEW t \in Threads, CarryOutCopy(t) PROVE Shape'
  <2>1. TypeOK'
    <3>1. disk' \in [Servers -> [Paths -> Kinds]]
      <4>1. \/ disk' = disk
            \/ disk' = [disk EXCEPT ![target[t]][BaseName[Path(t)]] = "file"]
        BY <1>22 DEF CarryOutCopy
      <4>2. BaseName[Path(t)] \in Paths /\ "file" \in Kinds
        BY DisksAssumption DEF Kinds
      <4>3. target[t] \in Servers
        BY <1>22 DEF CarryOutCopy
      <4>4. [disk EXCEPT ![target[t]][BaseName[Path(t)]] = "file"]
              \in [Servers -> [Paths -> Kinds]]
        BY <4>2, <4>3, DiskTyped
      <4> QED
        BY <4>1, <4>4
    <3>2. work' \in [Threads -> Codes \cup {"todo"}]
      BY <1>22 DEF CarryOutCopy
    <3>3. faults' \subseteq Faults
      BY <1>22 DEF CarryOutCopy
    <3> QED
      BY <1>22, <3>1, <3>2, <3>3 DEF CarryOutCopy
  <2>2. ASSUME NEW u \in Threads PROVE Stages(u)'
    <3>1. /\ work[t] = "todo" /\ Op(t) \in CopyOps /\ work'[t] \in {"VALID", "GARBLED"}
          /\ \A v \in Threads \ {t} : work'[v] = work[v]
          /\ UNCHANGED <<request, pc, server, target, sent, answer, delta, writers>>
      BY <1>22 DEF CarryOutCopy
    <3>2. Stages(u)
      OBVIOUS
    <3> HIDE DEF Shape, TypeOK
    <3> QED
      BY <3>1, <3>2, SMTT(60)
  <2> QED
    BY <2>1, <2>2
<1>23. ASSUME NEW s \in Servers, PulseMissed(s) PROVE Shape'
  <2>1. TypeOK'
    BY <1>23, ZenonT(60) DEF PulseMissed
  <2>2. ASSUME NEW u \in Threads PROVE Stages(u)'
    BY <1>23, SMTT(60) DEF PulseMissed
  <2> QED
    BY <2>1, <2>2
<1>25. ASSUME NEW t \in Threads, addAccessiblePath(t) PROVE Shape'
  <2>1. PICK s \in Servers : insertIntoHashTable(t, s) /\ server' = [server EXCEPT ![t] = s]
    BY <1>25 DEF addAccessiblePath
  <2>2. table' \in [Paths -> Seq(Servers)]
    BY <2>1, InsertTyped
  <2>3. /\ UNCHANGED <<request, NS_Msg, target, sent, answer, loaded, count, running, disk,
                       writers, work, crashed>>
        /\ pc[t] = "insert" /\ pc' = [pc EXCEPT ![t] = "load"]
        /\ delta' = [delta EXCEPT ![t] = 1] /\ faults' \subseteq Faults
    BY <1>25 DEF addAccessiblePath, Tangle
  <2>4. seen' = [seen EXCEPT ![t] = NothingSeen] /\ stale' \subseteq Threads
    BY <1>25 DEF addAccessiblePath, WroteBucket
  <2>5. NothingSeen \in [Paths -> Seq(Servers)]
    BY DEF NothingSeen
  <2>6. TypeOK'
    <3>1. seen' \in [Threads -> [Paths -> Seq(Servers)]]
      BY <2>4, <2>5
    <3>2. delta' \in [Threads -> {-1, 0, 1}]
      BY <2>3, ZenonT(60)
    <3> QED
      BY <2>1, <2>2, <2>3, <2>4, <3>1, <3>2
  <2>7. ASSUME NEW u \in Threads PROVE Stages(u)'
    <3>1. CASE u = t
      BY <2>1, <2>3, <3>1, SMTT(60)
    <3>2. CASE u # t
      BY <2>1, <2>3, <3>2, SMTT(60)
    <3> QED
      BY <3>1, <3>2
  <2> QED
    BY <2>6, <2>7
<1>26. ASSUME NEW t \in Threads, deleteAccessiblePath(t) PROVE Shape'
  <2>1. table' \in [Paths -> Seq(Servers)]
    BY <1>26, DeleteTyped DEF deleteAccessiblePath
  <2>2. /\ UNCHANGED <<request, NS_Msg, server, target, sent, answer, loaded, count, running,
                       disk, writers, work, crashed>>
        /\ pc[t] = "delete" /\ pc' = [pc EXCEPT ![t] = "load"]
        /\ delta' = [delta EXCEPT ![t] = -1] /\ faults' \subseteq Faults
    BY <1>26 DEF deleteAccessiblePath, Tangle
  <2>3. seen' = [seen EXCEPT ![t] = NothingSeen] /\ stale' \subseteq Threads
    BY <1>26 DEF deleteAccessiblePath, WroteBucket
  <2>4. NothingSeen \in [Paths -> Seq(Servers)]
    BY DEF NothingSeen
  <2>5. TypeOK'
    <3>1. seen' \in [Threads -> [Paths -> Seq(Servers)]]
      BY <2>3, <2>4
    <3>2. delta' \in [Threads -> {-1, 0, 1}]
      BY <2>2, ZenonT(60)
    <3> QED
      BY <2>1, <2>2, <2>3, <3>1, <3>2
  <2>6. ASSUME NEW u \in Threads PROVE Stages(u)'
    <3>1. Stages(u) /\ (u # t => pc'[u] = pc[u] /\ delta'[u] = delta[u])
          /\ (u = t => pc'[u] = "load" /\ delta'[u] = -1 /\ pc[u] = "delete")
      BY <2>2
    <3> HIDE DEF Shape, TypeOK
    <3> QED
      BY <2>2, <3>1
  <2> QED
    BY <2>5, <2>6
<1>27. ASSUME NEW t \in Threads, FollowFreedNode(t) PROVE Shape'
  <2>1. TypeOK'
    BY <1>27 DEF FollowFreedNode
  <2>2. ASSUME NEW u \in Threads PROVE Stages(u)'
    BY <1>27, SMTT(60) DEF FollowFreedNode
  <2> QED
    BY <2>1, <2>2
<1>28. ASSUME NEW t \in Threads, ClientAdmitted(t) PROVE Shape'
  <2>1. TypeOK'
    BY <1>28 DEF ClientAdmitted
  <2>2. ASSUME NEW u \in Threads PROVE Stages(u)'
    BY <1>28, SMTT(60) DEF ClientAdmitted
  <2> QED
    BY <2>1, <2>2
<1>29. ASSUME NEW t \in Threads, ClientWrites(t) PROVE Shape'
  <2>1. answer[t] \in Servers /\ Path(t) \in Paths
    BY <1>29 DEF ClientWrites
  <2>2. PICK k \in Kinds : disk' = [disk EXCEPT ![answer[t]][Path(t)] = k]
    BY <1>29 DEF ClientWrites, Kinds
  <2>3. disk' \in [Servers -> [Paths -> Kinds]]
    BY <2>1, <2>2, DiskTyped
  <2>4. TypeOK'
    BY <1>29, <2>3 DEF ClientWrites
  <2>5. ASSUME NEW u \in Threads PROVE Stages(u)'
    BY <1>29 DEF ClientWrites
  <2> QED
    BY <2>4, <2>5
<1>24. CASE Rest \/ UNCHANGED vars
  <2>1. UNCHANGED vars
    BY <1>24 DEF Rest
  <2>2. TypeOK'
    BY <2>1 DEF vars
  <2>3. ASSUME NEW u \in Threads PROVE Stages(u)'
    BY <2>1 DEF vars
  <2> QED
    BY <2>2, <2>3
<1> HIDE DEF Shape, TypeOK, Stages, Talking, Answered
<1>30. ASSUME NEW t \in Threads, Handle(t) PROVE Shape'
  BY <1>1, <1>2, <1>3, <1>4, <1>5, <1>6, <1>7, <1>8, <1>9, <1>10, <1>11, <1>12, <1>13, <1>14,
     <1>15, <1>16, <1>17, <1>18, <1>19, <1>20, <1>25, <1>26, <1>27, <1>30 DEF Handle
<1>31. CASE StorageServer
  BY <1>21, <1>22, <1>23, <1>28, <1>29, <1>31 DEF StorageServer
<1> QED
  BY <1>24, <1>30, <1>31 DEF Next

(* No step forgets a hazard that has struck.                               *)
LEMMA FaultsGrow == [Next]_vars => faults \subseteq faults'
<1> SUFFICES ASSUME [Next]_vars PROVE faults \subseteq faults'
  OBVIOUS
<1> USE DEF NoteMsg
<1>1. ASSUME NEW t \in Threads, Handle(t) PROVE faults \subseteq faults'
  BY <1>1 DEF Handle, ReceiveRequest, AbortRequest, StoreType, LocatePath, AppendPort,
       ChooseServer, FindServer, FollowWildPointer, LookupPaths, Refused,
       SendOperation, SendPath, OperationNotConfirmed, ReceiveAnswer,
       AnswerNotReceived, RecordAnswer, addAccessiblePath, deleteAccessiblePath,
       FollowFreedNode, LeaveDirectory, LoadCount, StoreCount, SendResponse
<1>2. CASE StorageServer
  BY <1>2 DEF StorageServer, CarryOut, CarryOutCopy, ClientAdmitted, ClientWrites, PulseMissed
<1>3. CASE Rest \/ UNCHANGED vars
  BY <1>3 DEF Rest, vars
<1> QED
  BY <1>1, <1>2, <1>3 DEF Next

(* The two steps that write to a bucket. *)
Writes(t) == addAccessiblePath(t) \/ deleteAccessiblePath(t)

(* What they do to the entries of the path, if no other thread has written *)
(* to the bucket in the meantime.                                          *)
LEMMA WriteEffect ==
  ASSUME Shape, NEW t \in Threads, Writes(t), "tangled" \notin faults'
  PROVE  LET old == table[Path(t)] IN
         /\ Path(t) \in Paths /\ old \in Seq(Servers)
         /\ delta \in [Threads -> {-1, 0, 1}] /\ delta[t] = 0
         /\ table \in [Paths -> Seq(Servers)]
         /\ t \notin stale
         /\ \/ /\ pc[t] = "insert"
               /\ \E s \in Servers :
                    /\ s = IF Op(t) \in CopyOps THEN target[t] ELSE server[t]
                    /\ table' = [table EXCEPT ![Path(t)] = <<s>> \o old]
                    /\ delta' = [delta EXCEPT ![t] = 1]
                    /\ server' = [server EXCEPT ![t] = s]
            \/ /\ pc[t] = "delete" /\ server' = server
               /\ delta' = [delta EXCEPT ![t] = -1]
               /\ old # <<>> => table' = [table EXCEPT ![Path(t)] = Tail(old)]
<1>1. Path(t) \in Paths /\ table[Path(t)] \in Seq(Servers)
  BY DEF Shape, TypeOK, Requests, Path
<1>2. pc[t] \in {"insert", "delete"} /\ Stages(t) /\ TypeOK
  BY DEF Writes, addAccessiblePath, deleteAccessiblePath, At, Shape
<1>3. server[t] \in Servers /\ (Op(t) \in CopyOps => target[t] \in Servers)
  BY <1>2 DEF Stages, Talking
<1>4. delta[t] = 0 /\ delta \in [Threads -> {-1, 0, 1}] /\ table \in [Paths -> Seq(Servers)]
  BY <1>2 DEF Stages, TypeOK
<1>5. t \notin stale
  BY DEF Writes, addAccessiblePath, deleteAccessiblePath, Tangle
<1>6. CASE addAccessiblePath(t)
  <2>1. PICK s \in Servers : s = IF Op(t) \in CopyOps THEN target[t] ELSE server[t]
    BY <1>3
  <2>2. /\ pc[t] = "insert" /\ insertIntoHashTable(t, s) /\ server' = [server EXCEPT ![t] = s]
        /\ delta' = [delta EXCEPT ![t] = 1]
    BY <1>6, <2>1 DEF addAccessiblePath, At
  <2>3. table' = [table EXCEPT ![Path(t)] = <<s>> \o table[Path(t)]]
    BY <1>2, <1>5, <2>2, InsertTyped
  <2> QED
    BY <1>1, <1>4, <1>5, <2>1, <2>2, <2>3
<1>7. CASE deleteAccessiblePath(t)
  <2>1. /\ pc[t] = "delete" /\ deletePathFromHashTable(t) /\ server' = server
        /\ delta' = [delta EXCEPT ![t] = -1]
    BY <1>7 DEF deleteAccessiblePath, At
  <2>2. table[Path(t)] # <<>> => table' = [table EXCEPT ![Path(t)] = Tail(table[Path(t)])]
    BY <1>2, <1>5, <2>1, DeleteTyped
  <2> QED
    BY <1>1, <1>4, <1>5, <2>1, <2>2
<1> QED
  BY <1>6, <1>7 DEF Writes

----------------------------------------------------------------------------
(* The counts *)

(* Only writing to a bucket and storing a count touch what is added up.    *)
LEMMA OtherStepsLeaveSums ==
  ASSUME [Next]_vars, ~ \E t \in Threads : Writes(t) \/ StoreCount(t)
  PROVE  UNCHANGED <<table, count, delta>>
<1> USE DEF directory, local
<1>1. ASSUME NEW t \in Threads, Handle(t) PROVE UNCHANGED <<table, count, delta>>
  BY <1>1 DEF Handle, ReceiveRequest, AbortRequest, StoreType, LocatePath, AppendPort,
       ChooseServer, FindServer, FollowWildPointer, LookupPaths, Refused,
       SendOperation, SendPath, OperationNotConfirmed, ReceiveAnswer,
       AnswerNotReceived, RecordAnswer, FollowFreedNode, LeaveDirectory, LoadCount,
       SendResponse, Writes
<1>2. CASE StorageServer
  BY <1>2 DEF StorageServer, CarryOut, CarryOutCopy, ClientAdmitted, ClientWrites, PulseMissed
<1>3. CASE Rest \/ UNCHANGED vars
  BY <1>3 DEF Rest, vars
<1> QED
  BY <1>1, <1>2, <1>3 DEF Next

Lengths == [p \in Paths |-> Len(table[p])]

LEMMA CountsInit == Init => CountsAddUp
<1> SUFFICES ASSUME Init
             PROVE  SumFunction(count) + SumFunction(delta) = SumFunction(Lengths)
  BY DEF CountsAddUp, Lengths
<1> DEFINE H == [p \in Paths |-> Holders(disk, p)]
<1>1. SumFunction(delta) = 0
  BY WorkloadsAssumption, SumOfZeros DEF Init
<1>2. Lengths = [p \in Paths |-> Cardinality(H[p])]
  BY InitialEntries DEF Lengths
<1>3. count = [s \in Servers |-> Cardinality({p \in Paths : s \in H[p]})]
  <2>1. ASSUME NEW s \in Servers
        PROVE  {p \in Paths : s \in H[p]} = {p \in Paths : disk[s][p] # "none"}
    BY DEF Holders
  <2>2. count = [s \in Servers |-> Cardinality({p \in Paths : disk[s][p] # "none"})]
    BY DEF Init
  <2> HIDE DEF H
  <2> QED
    BY <2>1, <2>2
<1>4. H \in [Paths -> SUBSET Servers]
  BY DEF Holders
<1>5. SumFunction(count) = SumFunction(Lengths)
  <2> HIDE DEF H
  <2> QED
    BY <1>2, <1>3, <1>4, ServersFinite, WorkloadsAssumption, DoubleCounting, SMTT(60)
<1>6. SumFunction(count) \in Int
  <2>1. count \in [Servers -> Int]
    BY ShapeInit DEF Shape, TypeOK
  <2> QED
    BY <2>1, ServersFinite, SumIsInt
<1> QED
  BY <1>1, <1>5, <1>6

LEMMA CountsStep == Shape /\ FreshInv /\ CountsAddUp /\ [Next]_vars => CountsAddUp'
<1> SUFFICES ASSUME Shape, FreshInv, CountsAddUp, [Next]_vars,
                    faults' \cap {"raced", "tangled"} = {}
             PROVE  SumFunction(count') + SumFunction(delta') = SumFunction(Lengths')
  BY DEF CountsAddUp, Lengths
<1>1. SumFunction(count) + SumFunction(delta) = SumFunction(Lengths)
  BY FaultsGrow DEF CountsAddUp, Lengths
<1>2. /\ count \in [Servers -> Int] /\ delta \in [Threads -> Int]
      /\ Lengths \in [Paths -> Int]
  <2>1. \A p \in Paths : Len(table[p]) \in Int
    BY LenProperties DEF Shape, TypeOK
  <2>2. count \in [Servers -> Int] /\ delta \in [Threads -> {-1, 0, 1}]
    BY DEF Shape, TypeOK
  <2> QED
    BY <2>1, <2>2 DEF Lengths
<1>3. /\ IsFiniteSet(Servers) /\ IsFiniteSet(Threads) /\ IsFiniteSet(Paths)
      /\ {SumFunction(count), SumFunction(delta), SumFunction(Lengths)} \subseteq Int
  BY <1>2, ServersFinite, WorkloadsAssumption, SumIsInt
<1>4. ASSUME NEW t \in Threads, Writes(t)
      PROVE  SumFunction(count') + SumFunction(delta') = SumFunction(Lengths')
  <2> DEFINE old == table[Path(t)]
  <2>0. PICK P \in Paths : P = Path(t)
    BY DEF Shape, TypeOK, Requests, Path
  <2>1. count' = count
    BY <1>4 DEF Writes, addAccessiblePath, deleteAccessiblePath
  <2>2. old \in Seq(Servers) /\ delta[t] = 0 /\ table \in [Paths -> Seq(Servers)]
    BY <1>4, WriteEffect
  <2>3. ASSUME NEW new \in Seq(Servers), NEW d \in {-1, 1}, Len(new) = Len(old) + d,
               table' = [table EXCEPT ![P] = new], delta' = [delta EXCEPT ![t] = d]
        PROVE  SumFunction(count') + SumFunction(delta') = SumFunction(Lengths')
    <3>1. Lengths' = [Lengths EXCEPT ![P] = Lengths[P] + d]
      <4>1. Lengths[P] = Len(old)
        BY <2>0 DEF Lengths
      <4>2. ASSUME NEW p \in Paths
            PROVE  Len(table'[p]) = IF p = P THEN Lengths[P] + d ELSE Lengths[p]
        BY <2>2, <2>3, <4>1 DEF Lengths
      <4> QED
        BY <1>2, <2>2, <4>2 DEF Lengths
    <3>2. {Lengths[P], Lengths[P] + d, d} \subseteq Int
      BY <1>2, <2>2
    <3>3. SumFunction(Lengths') = SumFunction(Lengths) + d
      <4>1. PICK L \in [Paths -> Int] : L = Lengths
        BY <1>2
      <4>2. PICK v \in Int : v = Lengths[P] + d
        BY <3>2
      <4>3. SumFunction([L EXCEPT ![P] = v]) = SumFunction(L) + (v - L[P])
        BY <1>3, SumUpdate
      <4> QED
        BY <1>3, <3>1, <3>2, <4>1, <4>2, <4>3
    <3>4. SumFunction([delta EXCEPT ![t] = d]) = SumFunction(delta) + (d - delta[t])
      BY <1>2, <1>3, <3>2, SumUpdate, ZenonT(60)
    <3> QED
      BY <1>1, <1>3, <2>1, <2>2, <2>3, <3>1, <3>2, <3>3, <3>4
  <2>4. ASSUME NEW s \in Servers
        PROVE  <<s>> \o old \in Seq(Servers) /\ Len(<<s>> \o old) = Len(old) + 1
    BY <2>2
  <2>5. old # <<>> => Tail(old) \in Seq(Servers) /\ Len(Tail(old)) = Len(old) - 1
    BY <2>2, HeadTailProperties
  <2>6. CASE pc[t] = "insert"
    <3>1. PICK s \in Servers : /\ table' = [table EXCEPT ![Path(t)] = <<s>> \o old]
                               /\ delta' = [delta EXCEPT ![t] = 1]
      BY <1>4, <2>6, WriteEffect
    <3> QED
      BY <2>0, <2>3, <2>4, <3>1
  <2>7. CASE pc[t] = "delete"
    <3>1. old # <<>>
      BY <1>4, <2>7, WriteEffect DEF FreshInv, Fresh
    <3>2. table' = [table EXCEPT ![Path(t)] = Tail(old)] /\ delta' = [delta EXCEPT ![t] = -1]
      BY <1>4, <2>7, <3>1, WriteEffect
    <3>3. -1 \in {-1, 1} /\ Len(Tail(old)) = Len(old) + (-1)
      BY <2>2, <2>5, <3>1, LenProperties
    <3> QED
      BY <2>0, <2>3, <2>5, <3>1, <3>2, <3>3
  <2> QED
    BY <1>4, <2>6, <2>7, WriteEffect
<1>5. ASSUME NEW t \in Threads, StoreCount(t)
      PROVE  SumFunction(count') + SumFunction(delta') = SumFunction(Lengths')
  <2>1. server[t] \in Servers
    BY <1>5 DEF StoreCount, At, Shape, Stages, Talking
  <2>2. /\ count' = [count EXCEPT ![server[t]] = loaded[t] + delta[t]]
        /\ delta' = [delta EXCEPT ![t] = 0] /\ Lengths' = Lengths
    BY <1>5 DEF StoreCount, Lengths
  <2>3. count[server[t]] = loaded[t]
    BY <1>5 DEF StoreCount
  <2>4. {count[server[t]], delta[t], loaded[t] + delta[t]} \subseteq Int
    BY <1>2, <2>1, <2>3
  <2>5. PICK v \in Int : v = loaded[t] + delta[t]
    BY <2>4
  <2>6. SumFunction([count EXCEPT ![server[t]] = v]) = SumFunction(count) + (v - count[server[t]])
    <3>1. PICK c \in [Servers -> Int] : c = count
      BY <1>2
    <3>2. PICK s \in Servers : s = server[t]
      BY <2>1
    <3>3. SumFunction([c EXCEPT ![s] = v]) = SumFunction(c) + (v - c[s])
      BY <1>3, SumUpdate
    <3> QED
      BY <3>1, <3>2, <3>3
  <2>7. SumFunction(delta') = SumFunction(delta) - delta[t]
    <3>1. PICK z \in Int : z = 0
      OBVIOUS
    <3>2. SumFunction([delta EXCEPT ![t] = z]) = SumFunction(delta) + (z - delta[t])
      <4>1. PICK d \in [Threads -> Int] : d = delta
        BY <1>2
      <4>2. SumFunction([d EXCEPT ![t] = z]) = SumFunction(d) + (z - d[t])
        BY <1>3, SumUpdate
      <4> QED
        BY <4>1, <4>2
    <3> QED
      BY <1>3, <2>2, <2>4, <3>1, <3>2
  <2> QED
    BY <1>1, <1>3, <2>2, <2>3, <2>4, <2>5, <2>6, <2>7
<1>6. CASE ~ \E t \in Threads : Writes(t) \/ StoreCount(t)
  BY <1>1, <1>6, OtherStepsLeaveSums DEF Lengths
<1> QED
  BY <1>4, <1>5, <1>6

----------------------------------------------------------------------------
(* Threads under their own operation numbers *)

LEMMA OwnInit == Init => OwnInv
BY DEF Init, OwnInv, Own

LEMMA OwnStep == Shape /\ OwnInv /\ [Next]_vars => OwnInv'
<1> SUFFICES ASSUME Shape, OwnInv, [Next]_vars, "mixed" \notin faults',
                    NEW u \in Threads
             PROVE  Own(u)'
  BY DEF OwnInv
<1>0. "mixed" \notin faults /\ faults \subseteq faults' /\ Own(u) /\ Stages(u) /\ TypeOK
  BY FaultsGrow DEF OwnInv, Shape
<1> USE <1>0 DEF TypeOK, Stages, Own, Talking, Answered, Op, Path, At, Goto, Respond,
        CreateOps, DeleteOps, CopyOps, Ops, directory, storage, local
<1>1. ASSUME NEW t \in Threads, ReceiveRequest(t) PROVE Own(u)'
  BY <1>1 DEF ReceiveRequest
<1>2. ASSUME NEW t \in Threads, AbortRequest(t) PROVE Own(u)'
  BY <1>2 DEF AbortRequest
<1>3. ASSUME NEW t \in Threads, StoreType(t) PROVE Own(u)'
  BY <1>3 DEF StoreType, Requests
<1>4. ASSUME NEW t \in Threads, LocatePath(t) PROVE Own(u)'
  BY <1>4 DEF LocatePath
<1>5. ASSUME NEW t \in Threads, AppendPort(t) PROVE Own(u)'
  BY <1>5 DEF AppendPort
<1>6. ASSUME NEW t \in Threads, ChooseServer(t) PROVE Own(u)'
  BY <1>6 DEF ChooseServer, NoteMsg
<1>7. ASSUME NEW t \in Threads, FindServer(t) PROVE Own(u)'
  BY <1>7 DEF FindServer, UseServer, NoteMsg
<1>8. ASSUME NEW t \in Threads, FollowWildPointer(t) PROVE Own(u)'
  BY <1>8 DEF FollowWildPointer
<1>9. ASSUME NEW t \in Threads, LookupPaths(t) PROVE Own(u)'
  BY <1>9 DEF LookupPaths
<1>10. ASSUME NEW t \in Threads, Refused(t) PROVE Own(u)'
  BY <1>10 DEF Refused
<1>11. ASSUME NEW t \in Threads, SendOperation(t) PROVE Own(u)'
  BY <1>11 DEF SendOperation, NoteMsg
<1>12. ASSUME NEW t \in Threads, SendPath(t) PROVE Own(u)'
  BY <1>12 DEF SendPath
<1>13. ASSUME NEW t \in Threads, OperationNotConfirmed(t) PROVE Own(u)'
  BY <1>13 DEF OperationNotConfirmed
<1>14. ASSUME NEW t \in Threads, ReceiveAnswer(t) PROVE Own(u)'
  BY <1>14 DEF ReceiveAnswer
<1>15. ASSUME NEW t \in Threads, AnswerNotReceived(t) PROVE Own(u)'
  BY <1>15 DEF AnswerNotReceived
<1>16. ASSUME NEW t \in Threads, RecordAnswer(t) PROVE Own(u)'
  BY <1>16 DEF RecordAnswer
<1>17. ASSUME NEW t \in Threads, LeaveDirectory(t) PROVE Own(u)'
  BY <1>17 DEF LeaveDirectory
<1>18. ASSUME NEW t \in Threads, LoadCount(t) PROVE Own(u)'
  BY <1>18 DEF LoadCount
<1>19. ASSUME NEW t \in Threads, StoreCount(t) PROVE Own(u)'
  BY <1>19 DEF StoreCount
<1>20. ASSUME NEW t \in Threads, SendResponse(t) PROVE Own(u)'
  BY <1>20 DEF SendResponse
<1>21. ASSUME NEW t \in Threads, CarryOut(t) PROVE Own(u)'
  BY <1>21 DEF CarryOut
<1>22. ASSUME NEW t \in Threads, CarryOutCopy(t) PROVE Own(u)'
  BY <1>22 DEF CarryOutCopy
<1>23. ASSUME NEW s \in Servers, PulseMissed(s) PROVE Own(u)'
  BY <1>23 DEF PulseMissed
<1>24. CASE Rest \/ UNCHANGED vars
  BY <1>24 DEF Rest, vars
<1>25. ASSUME NEW t \in Threads, addAccessiblePath(t) PROVE Own(u)'
  BY <1>25 DEF addAccessiblePath
<1>26. ASSUME NEW t \in Threads, deleteAccessiblePath(t) PROVE Own(u)'
  BY <1>26 DEF deleteAccessiblePath
<1>27. ASSUME NEW t \in Threads, FollowFreedNode(t) PROVE Own(u)'
  BY <1>27 DEF FollowFreedNode
<1>28. ASSUME NEW t \in Threads, ClientAdmitted(t) PROVE Own(u)'
  BY <1>28 DEF ClientAdmitted
<1>29. ASSUME NEW t \in Threads, ClientWrites(t) PROVE Own(u)'
  BY <1>29 DEF ClientWrites
<1> QED
  BY <1>1, <1>2, <1>3, <1>4, <1>5, <1>6, <1>7, <1>8, <1>9, <1>10, <1>11, <1>12, <1>13, <1>14,
     <1>15, <1>16, <1>17, <1>18, <1>19, <1>20, <1>21, <1>22, <1>23, <1>24, <1>25, <1>26, <1>27,
     <1>28, <1>29 DEF Next, Handle, StorageServer

----------------------------------------------------------------------------
(* A thread that has its path to itself *)

\* The variables of a thread that Alone looks at.
Mine(t) == <<pc[t], server[t], sent[t], work[t], answer[t]>>

(* A request thread changes its own variables only, no disk, and the table *)
(* only where it writes to a bucket.                                       *)
LEMMA HandleFrame ==
  ASSUME Shape, NEW u \in Threads, Handle(u)
  PROVE  /\ UNCHANGED <<request, disk>>
         /\ \A t \in Threads \ {u} : UNCHANGED Mine(t)
         /\ UNCHANGED table \/ Writes(u)
         /\ UNCHANGED stale \/ RecordAnswer(u) \/ Writes(u)
         /\ pc'[u] = "delete" => pc[u] = "delete" \/ RecordAnswer(u)
<1> USE DEF Shape, TypeOK, Mine, directory, storage, local, Goto, Respond
<1>1. CASE ReceiveRequest(u)
  BY <1>1 DEF ReceiveRequest
<1>2. CASE AbortRequest(u)
  BY <1>2 DEF AbortRequest
<1>3. CASE StoreType(u)
  <2>1. pc'[u] \in {"choose", "locate", "lookup", "done"}
    BY <1>3 DEF StoreType, Requests, Ops, Op, CreateOps, DeleteOps, CopyOps
  <2> QED
    BY <1>3, <2>1 DEF StoreType
<1>4. CASE LocatePath(u)
  BY <1>4 DEF LocatePath
<1>5. CASE AppendPort(u)
  BY <1>5 DEF AppendPort
<1>6. CASE ChooseServer(u)
  BY <1>6 DEF ChooseServer
<1>7. CASE FindServer(u)
  BY <1>7 DEF FindServer, UseServer
<1>8. CASE FollowWildPointer(u)
  BY <1>8 DEF FollowWildPointer
<1>9. CASE LookupPaths(u)
  BY <1>9 DEF LookupPaths
<1>10. CASE Refused(u)
  BY <1>10 DEF Refused
<1>11. CASE SendOperation(u)
  BY <1>11 DEF SendOperation
<1>12. CASE SendPath(u)
  BY <1>12 DEF SendPath
<1>13. CASE OperationNotConfirmed(u)
  BY <1>13 DEF OperationNotConfirmed
<1>14. CASE ReceiveAnswer(u)
  BY <1>14 DEF ReceiveAnswer
<1>15. CASE AnswerNotReceived(u)
  BY <1>15 DEF AnswerNotReceived
<1>16. CASE RecordAnswer(u)
  BY <1>16 DEF RecordAnswer
<1>17. CASE LeaveDirectory(u)
  BY <1>17 DEF LeaveDirectory
<1>18. CASE LoadCount(u)
  BY <1>18 DEF LoadCount
<1>19. CASE StoreCount(u)
  BY <1>19 DEF StoreCount
<1>20. CASE SendResponse(u)
  BY <1>20 DEF SendResponse
<1>21. CASE addAccessiblePath(u)
  BY <1>21 DEF addAccessiblePath, Writes
<1>22. CASE deleteAccessiblePath(u)
  BY <1>22 DEF deleteAccessiblePath, Writes
<1>23. CASE FollowFreedNode(u)
  BY <1>23 DEF FollowFreedNode
<1> QED
  BY <1>1, <1>2, <1>3, <1>4, <1>5, <1>6, <1>7, <1>8, <1>9, <1>10, <1>11, <1>12, <1>13, <1>14,
     <1>15, <1>16, <1>17, <1>18, <1>19, <1>20, <1>21, <1>22, <1>23 DEF Handle

(* What the storage servers, their clients and the heartbeat leave alone.  *)
LEMMA ServerFrame ==
  ASSUME StorageServer
  PROVE  UNCHANGED <<request, pc, server, target, sent, answer, loaded, delta, table, seen,
                     stale, count>>
BY DEF StorageServer, CarryOut, CarryOutCopy, ClientAdmitted, ClientWrites, PulseMissed,
       local, directory

LEMMA RequestStays == Shape /\ [Next]_vars => UNCHANGED request
BY HandleFrame, ServerFrame DEF Next, Rest, vars

LEMMA FreshInit == Init => FreshInv
BY DEF Init, FreshInv, Fresh

LEMMA FreshStep == Shape /\ FreshInv /\ [Next]_vars => FreshInv'
<1> SUFFICES ASSUME Shape, FreshInv, [Next]_vars, NEW u \in Threads, pc'[u] = "delete",
                    u \notin stale'
             PROVE  table'[Path(u)] # <<>>
  BY RequestStays DEF FreshInv, Fresh, Path
<1>1. Fresh(u) /\ TypeOK /\ Path(u) \in Paths
  BY DEF FreshInv, Shape, TypeOK, Requests, Path
<1>2. ASSUME NEW t \in Threads, Handle(t), ~RecordAnswer(t), ~Writes(t)
      PROVE  table'[Path(u)] # <<>>
  BY <1>1, <1>2, HandleFrame DEF Fresh, Mine
<1>3. ASSUME NEW t \in Threads, RecordAnswer(t)
      PROVE  table'[Path(u)] # <<>>
  <2>1. UNCHANGED table /\ (t # u => pc'[u] = pc[u] /\ (u \in stale => u \in stale'))
    BY <1>1, <1>3 DEF RecordAnswer, ReadBucket, Goto, TypeOK
  <2>2. t = u => table[Path(u)] # <<>>
    BY <1>1, <1>3 DEF RecordAnswer, Goto, TypeOK
  <2> QED
    BY <1>1, <2>1, <2>2 DEF Fresh
<1>4. ASSUME NEW t \in Threads, Writes(t)
      PROVE  table'[Path(u)] # <<>>
  <2>1. pc' = [pc EXCEPT ![t] = "load"] /\ WroteBucket(t)
    BY <1>4 DEF Writes, addAccessiblePath, deleteAccessiblePath, Goto
  <2>2. u # t /\ pc[u] = "delete"
    BY <1>1, <2>1 DEF TypeOK
  <2>3. u \notin stale /\ Bucket[Path(u)] # Bucket[Path(t)]
    BY <2>1, <2>2 DEF WroteBucket
  <2>4. table'[Path(u)] = table[Path(u)]
    <3>1. CASE addAccessiblePath(t)
      <4>1. Stages(t) /\ pc[t] = "insert"
        BY <3>1 DEF Shape, addAccessiblePath, At
      <4>2. PICK s \in Servers : insertIntoHashTable(t, s)
        BY <3>1, <4>1 DEF addAccessiblePath, Stages, Talking
      <4> QED
        BY <1>1, <2>3, <4>2, InsertTyped
    <3>2. CASE deleteAccessiblePath(t)
      BY <1>1, <2>3, <3>2, DeleteTyped DEF deleteAccessiblePath
    <3> QED
      BY <1>4, <3>1, <3>2 DEF Writes
  <2> QED
    BY <1>1, <2>2, <2>3, <2>4 DEF Fresh
<1>5. CASE StorageServer \/ Rest \/ UNCHANGED vars
  BY <1>1, <1>5, ServerFrame DEF Fresh, Rest, vars
<1> QED
  BY <1>2, <1>3, <1>4, <1>5 DEF Next

(* What the others do leaves the path of such a thread as it is.           *)
LEMMA OthersLeavePath ==
  ASSUME Shape, [Next]_vars, NEW t \in Threads,
         \A u \in Threads \ {t} : ~Touches(u, Path(t)),
         "tangled" \notin faults',
         ~(Handle(t) \/ CarryOut(t) \/ CarryOutCopy(t) \/ \E u \in Threads : ClientWrites(u))
  PROVE  /\ UNCHANGED <<request, Mine(t), table[Path(t)]>>
         /\ \A s \in Servers : disk'[s][Path(t)] = disk[s][Path(t)]
<1>1. ASSUME NEW u \in Threads \ {t}
      PROVE  Op(u) # "READ_FILE" => Path(u) # Path(t)
  BY DEF Touches
<1>2. \A v \in Threads : Path(v) \in Paths
  BY DEF Shape, TypeOK, Requests, Path
<1>3. ASSUME NEW u \in Threads \ {t}, Handle(u)
      PROVE  /\ UNCHANGED <<request, Mine(t), table[Path(t)]>>
             /\ \A s \in Servers : disk'[s][Path(t)] = disk[s][Path(t)]
  <2>1. CASE UNCHANGED table
    BY <1>3, <2>1, HandleFrame DEF Path
  <2>2. CASE Writes(u)
    <3>1. Path(u) # Path(t)
      <4>1. pc[u] \in {"insert", "delete"} /\ Stages(u)
        BY <2>2, WriteEffect DEF Shape
      <4> QED
        BY <1>1, <4>1 DEF Stages, Talking, CreateOps, DeleteOps
    <3>2. \/ table' = table
          \/ \E new : table' = [table EXCEPT ![Path(u)] = new]
          \/ pc[u] = "delete" /\ table[Path(u)] = <<>>
      BY <2>2, WriteEffect
    <3>3. CASE pc[u] = "delete" /\ table[Path(u)] = <<>>
      <4>1. deletePathFromHashTable(u) /\ u \notin stale
        BY <2>2, <3>3, WriteEffect DEF Writes, addAccessiblePath, deleteAccessiblePath, At
      <4>2. table' = [table EXCEPT ![Path(u)] = table[Path(u)]]
        BY <3>3, <4>1 DEF deletePathFromHashTable, Found
      <4> QED
        BY <1>2, <1>3, <3>1, <4>2, HandleFrame DEF Path, Shape, TypeOK
    <3>4. CASE \E new : table' = [table EXCEPT ![Path(u)] = new]
      <4>1. table'[Path(t)] = table[Path(t)]
        BY <1>2, <3>1, <3>4 DEF Shape, TypeOK
      <4> QED
        BY <1>3, <4>1, HandleFrame DEF Path
    <3> QED
      BY <2>1, <3>2, <3>3, <3>4
  <2> QED
    BY <1>3, <2>1, <2>2, HandleFrame
<1>4. ASSUME NEW u \in Threads \ {t}, CarryOut(u)
      PROVE  /\ UNCHANGED <<request, Mine(t), table[Path(t)]>>
             /\ \A s \in Servers : disk'[s][Path(t)] = disk[s][Path(t)]
  <2>1. Path(u) # Path(t)
    BY <1>1, <1>4 DEF CarryOut, Shape, Stages, CreateOps, DeleteOps
  <2>2. PICK k : disk' = [disk EXCEPT ![server[u]][Path(u)] = k]
    BY <1>4 DEF CarryOut
  <2>3. \A s \in Servers : disk'[s][Path(t)] = disk[s][Path(t)]
    BY <2>1, <2>2 DEF Shape, TypeOK
  <2>4. UNCHANGED <<request, Mine(t), table>>
    BY <1>4 DEF CarryOut, Mine, local, directory, Shape, TypeOK
  <2> QED
    BY <2>3, <2>4 DEF Path
<1>5. ASSUME NEW u \in Threads \ {t}, CarryOutCopy(u)
      PROVE  /\ UNCHANGED <<request, Mine(t), table[Path(t)]>>
             /\ \A s \in Servers : disk'[s][Path(t)] = disk[s][Path(t)]
  <2>1. BaseName[Path(u)] # Path(t)
    BY <1>5 DEF CarryOutCopy, Shape, Stages, CreateOps, DeleteOps, CopyOps, Touches
  <2>2. \A s \in Servers : disk'[s][Path(t)] = disk[s][Path(t)]
    <3>1. CASE UNCHANGED disk
      BY <3>1
    <3>2. CASE disk' = [disk EXCEPT ![target[u]][BaseName[Path(u)]] = "file"]
      BY <2>1, <3>2 DEF Shape, TypeOK
    <3> QED
      BY <1>5, <3>1, <3>2 DEF CarryOutCopy
  <2>3. UNCHANGED <<request, Mine(t), table>>
    BY <1>5 DEF CarryOutCopy, Mine, local, directory, Shape, TypeOK
  <2> QED
    BY <2>2, <2>3 DEF Path
<1>6. ASSUME \/ \E s \in Servers : PulseMissed(s)
             \/ \E u \in Threads : ClientAdmitted(u)
             \/ Rest \/ UNCHANGED vars
      PROVE  UNCHANGED <<request, Mine(t), table, disk>>
  BY <1>6 DEF PulseMissed, ClientAdmitted, Rest, vars, Mine, local, directory, storage
<1> QED
  BY <1>3, <1>4, <1>5, <1>6 DEF Next, StorageServer, Path

(* The first entry is not among the others.                                *)
LEMMA TailLeavesOut ==
  ASSUME NEW seq \in Seq(Servers), seq # <<>>, NoRepeats(seq)
  PROVE  /\ ToSet(Tail(seq)) = ToSet(seq) \ {Head(seq)} /\ Head(seq) \in ToSet(seq)
         /\ NoRepeats(Tail(seq))
<1>1. /\ Len(seq) \in Nat \ {0} /\ DOMAIN seq = 1..Len(seq)
      /\ Tail(seq) \in Seq(Servers) /\ Len(Tail(seq)) = Len(seq) - 1
      /\ DOMAIN Tail(seq) = 1..(Len(seq) - 1)
      /\ \A i \in 1..(Len(seq) - 1) : Tail(seq)[i] = seq[i + 1]
      /\ Head(seq) = seq[1]
  BY EmptySeq, LenProperties, HeadTailProperties
<1>2. ASSUME NEW i \in DOMAIN Tail(seq)
      PROVE  i + 1 \in DOMAIN seq /\ Tail(seq)[i] = seq[i + 1] /\ i + 1 # 1
  BY <1>1
<1>3. ASSUME NEW i \in DOMAIN seq, i # 1
      PROVE  i - 1 \in DOMAIN Tail(seq) /\ Tail(seq)[i - 1] = seq[i]
  BY <1>1, <1>3
<1>4. 1 \in DOMAIN seq
  BY <1>1
<1>5. NoRepeats(Tail(seq))
  BY <1>1, <1>2 DEF NoRepeats
<1>6. ToSet(Tail(seq)) \subseteq ToSet(seq) \ {Head(seq)}
  BY <1>1, <1>2, <1>4 DEF ToSet, NoRepeats
<1>7. ToSet(seq) \ {Head(seq)} \subseteq ToSet(Tail(seq))
  BY <1>1, <1>3 DEF ToSet
<1> QED
  BY <1>1, <1>4, <1>5, <1>6, <1>7 DEF ToSet

LEMMA AloneInit == Init => AloneInv
<1> SUFFICES ASSUME Init, NEW t \in Threads
             PROVE  Alone(t)
  BY DEF AloneInv
<1>1. Path(t) \in Paths
  BY WorkloadsAssumption DEF Init, Requests, Path
<1>2. /\ ToSet(table[Path(t)]) = Holders(disk, Path(t))
      /\ NoRepeats(table[Path(t)])
  BY <1>1, InitialEntries, LenProperties DEF NoRepeats
<1> QED
  BY <1>2, ServersAssumption DEF Init, Alone, Codes

(* A file operation that is reported as done is done.                      *)
LEMMA OutcomeOfFiles ==
  ASSUME NEW k
  PROVE  /\ \A out \in Outcomes("CREATE_FILE", k) : out[2] = "VALID" => out[1] = "file"
         /\ \A out \in Outcomes("DELETE_FILE", k) : out[2] = "VALID" => out[1] = "none"
<1>1. Outcomes("CREATE_FILE", k) \subseteq {<<"file", "VALID">>, <<k, "FAILED">>}
  BY DEF Outcomes, CopyOps
<1>2. Outcomes("DELETE_FILE", k) \subseteq {<<"none", "VALID">>, <<k, "FAILED">>}
  BY DEF Outcomes, CopyOps
<1> QED
  BY <1>1, <1>2

(* What a thread of its own does to its path.                              *)
LEMMA AloneStep == Shape /\ OwnInv /\ AloneInv /\ [Next]_vars => AloneInv'
<1> SUFFICES ASSUME Shape, OwnInv, AloneInv, [Next]_vars,
                    faults' \cap {"mixed", "tangled"} = {},
                    NEW t \in Threads, \A u \in Threads \ {t} : ~Touches(u, Path(t))'
             PROVE  Alone(t)'
  BY DEF AloneInv
<1>1. UNCHANGED request
  BY RequestStays
<1>2. \A u \in Threads \ {t} : ~Touches(u, Path(t))
  BY <1>1 DEF Touches, Op, Path
<1>3. /\ "mixed" \notin faults /\ TypeOK /\ "tangled" \notin faults'
      /\ "revived" \notin faults' => "revived" \notin faults
      /\ Alone(t) /\ Own(t) /\ Stages(t)
  BY <1>2, FaultsGrow DEF AloneInv, OwnInv, Shape
<1>4. Path(t) \in Paths /\ Path(t)' = Path(t) /\ Op(t)' = Op(t)
  BY <1>1, <1>3 DEF TypeOK, Requests, Path, Op
<1> DEFINE entries == table[Path(t)]
           stored(s) == disk[s][Path(t)]
<1>5. entries \in Seq(Servers)
  BY <1>3, <1>4 DEF TypeOK
<1>6. CASE ~(Handle(t) \/ CarryOut(t) \/ CarryOutCopy(t) \/ \E u \in Threads : ClientWrites(u))
  <2>1. /\ UNCHANGED <<Mine(t), entries>>
        /\ \A s \in Servers : disk'[s][Path(t)] = disk[s][Path(t)]
    BY <1>2, <1>3, <1>6, OthersLeavePath
  <2>2. Holders(disk, Path(t))' = Holders(disk, Path(t))
    BY <1>4, <2>1 DEF Holders
  <2>3. server[t] \in Servers \/ work[t] = "none"
    BY <1>3 DEF Stages
  <2> QED
    BY <1>3, <1>4, <2>1, <2>2, <2>3 DEF Alone, Mine, Stages
<1>7. CASE Handle(t) /\ ~Writes(t)
  <2>1. UNCHANGED <<table, disk>>
    BY <1>7, HandleFrame
  <2>2. Holders(disk, Path(t))' = Holders(disk, Path(t))
    BY <1>4, <2>1 DEF Holders
  <2> USE <1>3, <1>4, <2>1, <2>2, ServersAssumption
      DEF Alone, Stages, Own, TypeOK, Talking, Answered, At, Goto, Respond, CreateOps,
          DeleteOps, CopyOps, Ops, Codes, directory, storage, local
  <2>3. CASE ReceiveRequest(t)
    BY <2>3 DEF ReceiveRequest
  <2>4. CASE AbortRequest(t)
    BY <2>4 DEF AbortRequest
  <2>5. CASE StoreType(t)
    <3>1. pc'[t] \in {"choose", "locate", "lookup", "done"}
      BY <2>5 DEF StoreType, Requests, Op
    <3>2. answer'[t] = "none" /\ work'[t] = "none" /\ server' = server
      BY <2>5 DEF StoreType
    <3> QED
      BY <2>5, <3>1, <3>2 DEF StoreType
  <2>6. CASE ChooseServer(t)
    BY <2>6 DEF ChooseServer, NoteMsg
  <2>7. CASE FollowWildPointer(t)
    BY <2>7 DEF FollowWildPointer
  <2>8. CASE LookupPaths(t)
    BY <2>8 DEF LookupPaths
  <2>9. CASE Refused(t)
    BY <2>9 DEF Refused
  <2>10. CASE SendOperation(t)
    BY <2>10 DEF SendOperation, NoteMsg
  <2>11. CASE SendPath(t)
    BY <2>11 DEF SendPath
  <2>12. CASE OperationNotConfirmed(t)
    BY <2>12 DEF OperationNotConfirmed
  <2>13. CASE ReceiveAnswer(t)
    BY <2>13 DEF ReceiveAnswer
  <2>14. CASE AnswerNotReceived(t)
    BY <2>14 DEF AnswerNotReceived
  <2>15. CASE LeaveDirectory(t)
    BY <2>15 DEF LeaveDirectory
  <2>16. CASE LoadCount(t)
    BY <2>16 DEF LoadCount
  <2>17. CASE StoreCount(t)
    BY <2>17 DEF StoreCount
  <2>18. CASE SendResponse(t)
    BY <2>18 DEF SendResponse
  <2>19. CASE LocatePath(t)
    BY <2>19, LookupFinds DEF LocatePath, Holders, ToSet
  <2>20. CASE AppendPort(t)
    BY <2>20 DEF AppendPort
  <2>21. CASE FindServer(t)
    BY <2>21, LookupFinds DEF FindServer, UseServer, NoteMsg
  <2>22. CASE RecordAnswer(t)
    <3>1. /\ pc[t] = "record" /\ answer[t] = "VALID" /\ UNCHANGED <<server, sent, work, answer>>
          /\ pc'[t] \in {"insert", "delete", "reply"}
      BY <2>22 DEF RecordAnswer
    <3>2. pc'[t] = "reply" => Op(t) \notin CopyOps \cup CreateOps /\ entries = <<>>
      BY <2>22 DEF RecordAnswer
    <3>3. pc'[t] = "reply" => NoRepeats(entries) /\ ToSet(entries) = {}
      BY <3>1, <3>2 DEF ToSet
    <3> QED
      BY <3>1, <3>2, <3>3
  <2>23. CASE FollowFreedNode(t)
    BY <2>23 DEF FollowFreedNode
  <2> QED
    BY <1>7, <2>3, <2>4, <2>5, <2>6, <2>7, <2>8, <2>9, <2>10, <2>11, <2>12, <2>13, <2>14, <2>15,
       <2>16, <2>17, <2>18, <2>19, <2>20, <2>21, <2>22, <2>23 DEF Handle, Writes
<1>8. CASE Writes(t)
  <2>1. /\ pc[t] \in {"insert", "delete"} /\ answer[t] = "VALID" /\ work[t] = "VALID"
        /\ server[t] \in Servers
    BY <1>3, <1>8, WriteEffect DEF Stages, Talking
  <2>2. UNCHANGED <<disk, work, answer>> /\ pc'[t] = "load"
    BY <1>3, <1>8 DEF Writes, addAccessiblePath, deleteAccessiblePath, storage, Goto, TypeOK
  <2>3. table \in [Paths -> Seq(Servers)]
    BY <1>3 DEF TypeOK
  <2>4. CASE pc[t] = "insert"
    <3>1. PICK s \in Servers :
            /\ s = IF Op(t) \in CopyOps THEN target[t] ELSE server[t]
            /\ table' = [table EXCEPT ![Path(t)] = <<s>> \o entries]
            /\ server' = [server EXCEPT ![t] = s]
      BY <1>3, <1>8, <2>4, WriteEffect
    <3>2. entries' = <<s>> \o entries /\ server'[t] = s
      BY <1>3, <1>4, <2>3, <3>1 DEF TypeOK
    <3>3. entries' # <<>> /\ Head(entries') = s
      BY <1>5, <3>2
    <3>4. Op(t) = "CREATE_FILE" => s = server[t]
      BY <3>1 DEF CopyOps
    <3>5. Op(t) # "DELETE_FILE"
      BY <1>3, <2>4 DEF Own, DeleteOps
    <3> QED
      BY <1>3, <1>4, <2>1, <2>2, <2>4, <3>2, <3>3, <3>4, <3>5, ServersAssumption
         DEF Alone, Codes
  <2>5. CASE pc[t] = "delete"
    <3>1. server' = server /\ (entries # <<>> => table' = [table EXCEPT ![Path(t)] = Tail(entries)])
      BY <1>3, <1>8, <2>5, WriteEffect
    <3>2. ASSUME Op(t) = "DELETE_FILE"
          PROVE  server[t] \notin ToSet(entries')
      <4>1. entries # <<>> /\ Head(entries) = server[t] /\ NoRepeats(entries)
        BY <1>3, <2>5, <3>2 DEF Alone
      <4>2. entries' = Tail(entries)
        BY <1>4, <2>3, <3>1, <4>1
      <4> QED
        BY <1>5, <4>1, <4>2, TailLeavesOut
    <3>3. Op(t) # "CREATE_FILE"
      BY <1>3, <2>5 DEF Own, DeleteOps
    <3> QED
      BY <1>3, <1>4, <2>1, <2>2, <2>5, <3>1, <3>2, <3>3, ServersAssumption DEF Alone, Codes
  <2> QED
    BY <2>1, <2>4, <2>5
<1>9. CASE CarryOut(t)
  <2>1. /\ work[t] = "todo" /\ sent[t] = Op(t) /\ server[t] \in Servers
        /\ pc[t] \in Answered \cup {"await"} /\ answer[t] # "VALID"
        /\ answer[t] \notin Servers
    BY <1>3, <1>9 DEF CarryOut, Stages, Own, CreateOps, DeleteOps
  <2>2. UNCHANGED <<pc, server, answer, table>>
    BY <1>9 DEF CarryOut, local, directory
  <2>3. PICK out \in Outcomes(Op(t), stored(server[t])) :
          /\ disk' = [disk EXCEPT ![server[t]][Path(t)] = out[1]]
          /\ work' = [work EXCEPT ![t] = out[2]]
    BY <1>9, <2>1 DEF CarryOut
  <2>4. stored(server[t])' = out[1] /\ work'[t] = out[2]
    BY <1>3, <1>4, <2>1, <2>2, <2>3 DEF TypeOK
  <2>5. out[2] \notin {"none", "todo"}
    BY <1>3, <1>9, <2>1 DEF Outcomes, Stages, CreateOps, DeleteOps, CarryOut, CopyOps
  <2>6. Op(t) = "CREATE_FILE" /\ out[2] = "VALID" => out[1] = "file"
    BY <2>3, OutcomeOfFiles
  <2>7. Op(t) = "DELETE_FILE" /\ out[2] = "VALID" => out[1] = "none"
    BY <2>3, OutcomeOfFiles
  <2> QED
    BY <1>3, <1>4, <2>1, <2>2, <2>4, <2>5, <2>6, <2>7 DEF Alone, Answered
<1>10. CASE CarryOutCopy(t)
  <2>1. /\ Op(t) \in CopyOps /\ work'[t] \in {"VALID", "GARBLED"}
        /\ pc[t] \in Answered \cup {"await"} /\ answer[t] \notin Servers
        /\ UNCHANGED <<pc, server, answer, table>>
    BY <1>3, <1>10 DEF CarryOutCopy, Stages, CreateOps, DeleteOps, CopyOps, local, directory, TypeOK
  <2> QED
    BY <1>3, <1>4, <2>1 DEF Alone, Answered, CopyOps
<1>11. CASE \E u \in Threads : ClientWrites(u)
  <2>1. PICK u \in Threads : ClientWrites(u)
    BY <1>11
  <2>2. /\ UNCHANGED <<pc, server, sent, work, answer, table>>
        /\ answer[u] \in Servers /\ Path(u) \in Paths
    BY <2>1 DEF ClientWrites, local, directory, Shape, Stages, TypeOK, Requests, Path
  <2>3. PICK k : /\ k = IF disk[answer[u]][Path(u)] = "dir" THEN "dir" ELSE "file"
                 /\ disk' = [disk EXCEPT ![answer[u]][Path(u)] = k]
    BY <2>1, <2>2 DEF ClientWrites
  <2>4. \A s \in Servers :
          /\ disk[s][Path(t)] # "none" => disk'[s][Path(t)] # "none"
          /\ disk[s][Path(t)] = "file" => disk'[s][Path(t)] = "file"
    BY <1>3, <1>4, <2>2, <2>3 DEF TypeOK
  <2>5. ToSet(entries) \subseteq Holders(disk, Path(t)) =>
          ToSet(entries') \subseteq Holders(disk, Path(t))'
    <3>1. Holders(disk, Path(t)) = {s \in Servers : disk[s][Path(t)] # "none"}
      BY DEF Holders
    <3>2. Holders(disk, Path(t))' = {s \in Servers : disk'[s][Path(t)] # "none"}
      BY <1>4 DEF Holders
    <3>3. Holders(disk, Path(t)) \subseteq Holders(disk, Path(t))'
      BY <2>4, <3>1, <3>2
    <3>4. entries' = entries
      BY <1>4, <2>2
    <3> QED
      BY <3>3, <3>4
  <2>6. "revived" \notin faults' => disk' = disk
    BY <2>1 DEF ClientWrites
  <2>7. server[t] \in Servers \/ work[t] = "none"
    BY <1>3 DEF Stages
  <2>8. pc[t] = "address" => server[t] \in Servers
    BY <1>3 DEF Stages
  <2>9. entries' = entries
    BY <1>4, <2>2
  <2>10. /\ work[t] \in {"none", "todo"} => ToSet(entries') \subseteq Holders(disk, Path(t))'
         /\ pc[t] = "address" => disk'[server[t]][Path(t)] # "none"
         /\ answer[t] \in Servers => disk'[answer[t]][Path(t)] # "none"
    BY <1>3, <2>4, <2>5, <2>8 DEF Alone
  <2>11. ASSUME Op(t) = "CREATE_FILE"
         PROVE  work[t] = "VALID" => disk'[server[t]][Path(t)] = "file"
    BY <1>3, <2>4, <2>7, <2>11 DEF Alone
  <2>12. ASSUME Op(t) = "DELETE_FILE"
         PROVE  work[t] = "VALID" /\ "revived" \notin faults' =>
                  disk'[server[t]][Path(t)] = "none"
    BY <1>3, <2>6, <2>12 DEF Alone
  <2> QED
    BY <1>3, <1>4, <2>2, <2>9, <2>10, <2>11, <2>12 DEF Alone
<1> QED
  BY <1>6, <1>7, <1>8, <1>9, <1>10, <1>11

----------------------------------------------------------------------------
(* The accounts of the directory and the disks *)

\* The thread's operation is done and not yet recorded.
Due(t) == work[t] = "VALID" /\ pc[t] \in {"await", "record", "insert", "delete"}

LEMMA PendingAreDue ==
  ASSUME NEW ops, NEW p, NEW s
  PROVE  Pending(ops, p, s)
           = {t \in Threads : Due(t) /\ Op(t) \in ops /\ Path(t) = p /\ server[t] = s}
BY DEF Pending, Due

LEMMA PendingFinite ==
  ASSUME NEW ops, NEW p, NEW s
  PROVE  IsFiniteSet(Pending(ops, p, s)) /\ Cardinality(Pending(ops, p, s)) \in Nat
<1>1. Pending(ops, p, s) \in SUBSET Threads
  BY DEF Pending
<1> QED
  BY <1>1, WorkloadsAssumption, FS_Subset, FS_CardinalityType

LEMMA AccountsInit == Init => AccountsInv
<1> SUFFICES ASSUME Init
             PROVE  AccountsInv
  OBVIOUS
<1>1. ASSUME NEW p \in Paths
      PROVE  NoRepeats(table[p])
  BY InitialEntries, LenProperties DEF NoRepeats
<1>2. ASSUME NEW p \in Paths, NEW s \in Servers
      PROVE  Account(p, s)
  <2>1. Pending(CreateOps, p, s) = {} /\ Pending(DeleteOps, p, s) = {}
    BY DEF Init, Pending
  <2>2. Listed(p, s) = Held(p, s)
    BY InitialEntries DEF Listed, Held, Holders
  <2> QED
    BY <2>1, <2>2, FS_EmptySet DEF Account
<1>3. \A t \in Threads : work[t] # "todo"
  BY DEF Init
<1> QED
  BY <1>1, <1>2, <1>3 DEF AccountsInv

(* What the storage server does to a path and what it answers.             *)
LEMMA OutcomeChanges ==
  ASSUME NEW o \in CreateOps \cup DeleteOps, NEW k, NEW out \in Outcomes(o, k)
  PROVE  /\ out[2] \notin {"none", "todo"}
         /\ out[2] # "VALID" => out[1] = k
         /\ o \in CreateOps /\ out[2] = "VALID" /\ out[1] # k => k = "none" /\ out[1] # "none"
         /\ o \in DeleteOps /\ out[2] = "VALID" /\ out[1] # k => k # "none" /\ out[1] = "none"
<1> USE DEF Outcomes, CreateOps, DeleteOps, CopyOps
<1>1. CASE o = "CREATE_FILE"
  <2>1. out \in {<<"file", "VALID">>, <<k, "FAILED">>} /\ (out[2] = "VALID" => k = "none")
    BY <1>1
  <2> QED
    BY <1>1, <2>1
<1>2. CASE o = "CREATE_DIRECTORY"
  <2>1. /\ out \in {<<"dir", "VALID">>, <<k, "VALID">>, <<k, "FAILED">>}
        /\ out = <<"dir", "VALID">> => k = "none" \/ k = "dir"
    BY <1>2
  <2> QED
    BY <1>2, <2>1
<1>3. CASE o = "DELETE_FILE"
  <2>1. out \in {<<"none", "VALID">>, <<k, "FAILED">>}
    BY <1>3
  <2> QED
    BY <1>3, <2>1
<1>4. CASE o = "DELETE_DIRECTORY"
  <2>1. out \in {<<"none", "VALID">>, <<k, "VALID">>, <<k, "FAILED">>}
    BY <1>4
  <2> QED
    BY <1>4, <2>1
<1> QED
  BY <1>1, <1>2, <1>3, <1>4

(* Nothing else that a request thread does changes what is due.            *)
LEMMA DueStays ==
  ASSUME Shape, OwnInv, NEW t \in Threads, Handle(t), ~Writes(t),
         faults' \cap {"mixed", "lost", "crossed"} = {}, faults \subseteq faults',
         NEW u \in Threads
  PROVE  /\ Due(u)' <=> Due(u)
         /\ Due(u) => server'[u] = server[u]
         /\ (work[u] = "todo" => pc[u] = "await") => (work'[u] = "todo" => pc'[u] = "await")
<1>0. Own(u) /\ Stages(u) /\ TypeOK
  BY DEF OwnInv, Shape
<1> USE <1>0 DEF TypeOK, Stages, Own, Talking, Answered, At, Goto, Respond, Due,
        directory, storage, local
<1>1. CASE ReceiveRequest(t)
  BY <1>1 DEF ReceiveRequest
<1>2. CASE AbortRequest(t)
  BY <1>2 DEF AbortRequest
<1>3. CASE StoreType(t)
  BY <1>3 DEF StoreType
<1>4. CASE LocatePath(t)
  BY <1>4 DEF LocatePath
<1>5. CASE AppendPort(t)
  BY <1>5 DEF AppendPort
<1>6. CASE ChooseServer(t)
  BY <1>6 DEF ChooseServer, NoteMsg
<1>7. CASE FindServer(t)
  BY <1>7 DEF FindServer, UseServer, NoteMsg
<1>8. CASE FollowWildPointer(t)
  BY <1>8 DEF FollowWildPointer
<1>9. CASE LookupPaths(t)
  BY <1>9 DEF LookupPaths
<1>10. CASE Refused(t)
  BY <1>10 DEF Refused
<1>11. CASE SendOperation(t)
  BY <1>11 DEF SendOperation, NoteMsg
<1>12. CASE SendPath(t)
  BY <1>12 DEF SendPath
<1>13. CASE OperationNotConfirmed(t)
  BY <1>13 DEF OperationNotConfirmed
<1>14. CASE ReceiveAnswer(t)
  BY <1>14 DEF ReceiveAnswer
<1>15. CASE AnswerNotReceived(t)
  BY <1>15 DEF AnswerNotReceived
<1>16. CASE LeaveDirectory(t)
  BY <1>16 DEF LeaveDirectory
<1>17. CASE LoadCount(t)
  BY <1>17 DEF LoadCount
<1>18. CASE StoreCount(t)
  BY <1>18 DEF StoreCount
<1>19. CASE SendResponse(t)
  BY <1>19 DEF SendResponse
<1>20. CASE RecordAnswer(t)
  <2>1. /\ pc[t] = "record" /\ UNCHANGED <<work, server>>
        /\ pc' = [pc EXCEPT ![t] = "insert"] \/ pc' = [pc EXCEPT ![t] = "delete"]
    BY <1>20 DEF RecordAnswer
  <2> QED
    BY <2>1
<1>21. CASE FollowFreedNode(t)
  BY <1>21 DEF FollowFreedNode
<1> QED
  BY <1>1, <1>2, <1>3, <1>4, <1>5, <1>6, <1>7, <1>8, <1>9, <1>10, <1>11, <1>12, <1>13, <1>14,
     <1>15, <1>16, <1>17, <1>18, <1>19, <1>20, <1>21 DEF Handle, Writes

LEMMA AccountsStep == Shape /\ OwnInv /\ AccountsInv /\ [Next]_vars => AccountsInv'
<1> SUFFICES ASSUME Shape, OwnInv, AccountsInv, [Next]_vars,
                    faults' \subseteq {"raced", "hungUp"}
             PROVE  /\ \A t \in Threads : work'[t] = "todo" => pc'[t] = "await"
                    /\ \A p \in Paths : NoRepeats(table[p])'
                    /\ \A p \in Paths, s \in Servers : Account(p, s)'
  BY DEF AccountsInv
<1>1. /\ faults \subseteq faults' /\ "mixed" \notin faults /\ TypeOK
      /\ \A t \in Threads : Own(t) /\ Stages(t) /\ (work[t] = "todo" => pc[t] = "await")
      /\ \A p \in Paths : NoRepeats(table[p])
      /\ \A p \in Paths, s \in Servers : Account(p, s)
  BY FaultsGrow DEF OwnInv, Shape, AccountsInv
<1>2. UNCHANGED request
  BY RequestStays
<1>3. \A t \in Threads : Path(t) \in Paths /\ Path(t)' = Path(t) /\ Op(t)' = Op(t)
  BY <1>1, <1>2 DEF TypeOK, Requests, Path, Op
\* Steps that change neither the directory, nor a disk, nor what is due.
<1>4. ASSUME UNCHANGED <<table, disk>>,
             \A u \in Threads : Op(u) \in CreateOps \cup DeleteOps =>
               (Due(u)' <=> Due(u)) /\ (Due(u) => server'[u] = server[u])
      PROVE  /\ \A p \in Paths : NoRepeats(table[p])'
             /\ \A p \in Paths, s \in Servers : Account(p, s)'
  <2>1. ASSUME NEW p \in Paths, NEW s \in Servers, NEW ops \in {CreateOps, DeleteOps}
        PROVE  Pending(ops, p, s)' = Pending(ops, p, s)
    <3>1. Pending(ops, p, s)' = {u \in Threads : /\ Due(u)' /\ Op(u)' \in ops
                                                 /\ Path(u)' = p /\ server'[u] = s}
      BY DEF Pending, Due
    <3> QED
      BY <1>3, <1>4, <3>1, PendingAreDue
  <2>2. ASSUME NEW p \in Paths, NEW s \in Servers
        PROVE  Listed(p, s)' = Listed(p, s) /\ Held(p, s)' = Held(p, s)
    BY <1>4 DEF Listed, Held
  <2> QED
    BY <1>1, <1>4, <2>1, <2>2 DEF Account, NoRepeats
<1>5. ASSUME NEW t \in Threads, Handle(t), ~Writes(t)
      PROVE  /\ \A u \in Threads : work'[u] = "todo" => pc'[u] = "await"
             /\ \A p \in Paths : NoRepeats(table[p])'
             /\ \A p \in Paths, s \in Servers : Account(p, s)'
  BY <1>1, <1>4, <1>5, HandleFrame, DueStays
<1>6. ASSUME NEW t \in Threads, Writes(t)
      PROVE  /\ \A u \in Threads : work'[u] = "todo" => pc'[u] = "await"
             /\ \A p \in Paths : NoRepeats(table[p])'
             /\ \A p \in Paths, s \in Servers : Account(p, s)'
  <2> DEFINE old == table[Path(t)]
  <2>1. /\ Due(t) /\ ~Due(t)' /\ server[t] \in Servers /\ work' = work /\ disk' = disk
        /\ old \in Seq(Servers) /\ NoRepeats(old) /\ work[t] = "VALID"
    <3>1. pc[t] \in {"insert", "delete"} /\ pc'[t] = "load" /\ UNCHANGED <<disk, work>>
      BY <1>1, <1>6 DEF Writes, addAccessiblePath, deleteAccessiblePath, At, Goto, storage, TypeOK
    <3>2. old \in Seq(Servers) /\ NoRepeats(old)
      BY <1>1, <1>3 DEF TypeOK
    <3> QED
      BY <1>1, <3>1, <3>2 DEF Due, Stages, Talking
  <2>2. \A u \in Threads \ {t} : UNCHANGED <<pc[u], server[u], Due(u)>>
    BY <1>1, <1>6, HandleFrame DEF Handle, Writes, Mine, Due
  <2>3. \/ /\ Op(t) \in CreateOps /\ old = <<>>
           /\ table' = [table EXCEPT ![Path(t)] = <<server[t]>>]
        \/ /\ Op(t) \in DeleteOps /\ old # <<>> /\ Head(old) = server[t]
           /\ table' = [table EXCEPT ![Path(t)] = Tail(old)]
    <3>1. faults' \cap {"copied", "tangled", "doubled", "crossed"} = {} /\ "copied" \notin faults
      BY <1>1
    <3>2. CASE pc[t] = "insert"
      <4>1. Op(t) \in CreateOps /\ Op(t) \notin CopyOps
        BY <1>1, <3>1, <3>2 DEF Own, CreateOps, CopyOps
      <4>2. old = <<>>
        BY <1>6, <3>1, <3>2 DEF Writes, addAccessiblePath, deleteAccessiblePath, At
      <4>3. table' = [table EXCEPT ![Path(t)] = <<server[t]>> \o old]
        BY <1>6, <3>1, <3>2, <4>1, WriteEffect
      <4>4. <<server[t]>> \o old = <<server[t]>>
        BY <2>1, <4>2
      <4> QED
        BY <4>1, <4>2, <4>3, <4>4
    <3>3. CASE pc[t] = "delete"
      <4>1. Op(t) \in DeleteOps
        BY <1>1, <3>3 DEF Own
      <4>2. searchPathInHashTable(Path(t)) = server[t]
        BY <1>6, <3>1, <3>3 DEF Writes, addAccessiblePath, deleteAccessiblePath, At
      <4>3. old # <<>> /\ Head(old) = server[t]
        BY <1>1, <1>3, <2>1, <4>2, LookupFinds, ServersAssumption
      <4>4. table' = [table EXCEPT ![Path(t)] = Tail(old)]
        BY <1>6, <3>1, <3>3, <4>3, WriteEffect
      <4> QED
        BY <4>1, <4>3, <4>4
    <3> QED
      BY <1>6, <3>1, <3>2, <3>3, WriteEffect
  <2>4. ASSUME NEW p \in Paths, NEW s \in Servers, NEW ops \in {CreateOps, DeleteOps}
        PROVE  Cardinality(Pending(ops, p, s)')
                 = IF Op(t) \in ops /\ Path(t) = p /\ server[t] = s
                     THEN Cardinality(Pending(ops, p, s)) - 1
                     ELSE Cardinality(Pending(ops, p, s))
    <3>1. Pending(ops, p, s)' = {u \in Threads : /\ Due(u)' /\ Op(u)' \in ops
                                                 /\ Path(u)' = p /\ server'[u] = s}
      BY DEF Pending, Due
    <3>2. Pending(ops, p, s)' = Pending(ops, p, s) \ {t}
      BY <1>3, <2>1, <2>2, <3>1, PendingAreDue
    <3>3. t \in Pending(ops, p, s) <=> Op(t) \in ops /\ Path(t) = p /\ server[t] = s
      BY <2>1, PendingAreDue
    <3>4. /\ Cardinality(Pending(ops, p, s) \ {t})
               = IF t \in Pending(ops, p, s) THEN Cardinality(Pending(ops, p, s)) - 1
                                              ELSE Cardinality(Pending(ops, p, s))
      BY PendingFinite, FS_RemoveElement
    <3> QED
      BY <3>2, <3>3, <3>4
  <2>5. \A p \in Paths, s \in Servers : Held(p, s)' = Held(p, s)
    BY <2>1 DEF Held
  <2>6. ASSUME NEW p \in Paths, p # Path(t)
        PROVE  table'[p] = table[p]
    BY <1>1, <1>3, <2>3, <2>6 DEF TypeOK
  <2>7. table \in [Paths -> Seq(Servers)] /\ CreateOps \cap DeleteOps = {}
    BY <1>1 DEF TypeOK, CreateOps, DeleteOps
  <2>8. ASSUME Op(t) \in CreateOps
        PROVE  /\ ToSet(old) = {} /\ ToSet(table'[Path(t)]) = {server[t]}
               /\ NoRepeats(table'[Path(t)])
    <3>1. old = <<>> /\ table'[Path(t)] = <<server[t]>>
      BY <1>3, <2>3, <2>7, <2>8
    <3> QED
      BY <3>1 DEF ToSet, NoRepeats
  <2>9. ASSUME Op(t) \in DeleteOps
        PROVE  /\ ToSet(table'[Path(t)]) = ToSet(old) \ {server[t]} /\ server[t] \in ToSet(old)
               /\ NoRepeats(table'[Path(t)])
    <3>1. old # <<>> /\ Head(old) = server[t] /\ table'[Path(t)] = Tail(old)
      BY <1>3, <2>3, <2>7, <2>9
    <3> QED
      BY <2>1, <3>1, TailLeavesOut
  <2>10. \A p \in Paths : NoRepeats(table'[p])
    BY <1>1, <2>3, <2>6, <2>8, <2>9
  <2>11. ASSUME NEW p \in Paths, NEW s \in Servers
         PROVE  Account(p, s)'
    <3> DEFINE c  == Cardinality(Pending(CreateOps, p, s))
               d  == Cardinality(Pending(DeleteOps, p, s))
               here == Path(t) = p /\ server[t] = s
    <3>1. Listed(p, s) + c = Held(p, s) + d /\ c \in Nat /\ d \in Nat
      BY <1>1, PendingFinite DEF Account
    <3>2. c' = IF Op(t) \in CreateOps /\ here THEN c - 1 ELSE c
      BY <2>4
    <3>3. d' = IF Op(t) \in DeleteOps /\ here THEN d - 1 ELSE d
      BY <2>4
    <3>4. Listed(p, s)' = IF ~here THEN Listed(p, s) ELSE IF Op(t) \in CreateOps THEN 1 ELSE 0
      BY <2>3, <2>6, <2>8, <2>9 DEF Listed
    <3>5. here => Listed(p, s) = IF Op(t) \in CreateOps THEN 0 ELSE 1
      BY <2>3, <2>7, <2>8, <2>9 DEF Listed
    <3>6. Listed(p, s)' + c' = Held(p, s)' + d'
      <4>1. Listed(p, s) \in {0, 1} /\ Held(p, s) \in {0, 1} /\ Held(p, s)' = Held(p, s)
        BY <2>5 DEF Listed, Held
      <4> HIDE DEF c, d, here
      <4> QED
        BY <2>3, <2>7, <3>1, <3>2, <3>3, <3>4, <3>5, <4>1
    <3> QED
      BY <3>6 DEF Account
  <2> QED
    BY <1>1, <2>1, <2>2, <2>10, <2>11
<1>7. ASSUME NEW t \in Threads, CarryOut(t)
      PROVE  /\ \A u \in Threads : work'[u] = "todo" => pc'[u] = "await"
             /\ \A p \in Paths : NoRepeats(table[p])'
             /\ \A p \in Paths, s \in Servers : Account(p, s)'
  <2> DEFINE k == disk[server[t]][Path(t)]
  <2>1. /\ work[t] = "todo" /\ pc[t] = "await" /\ sent[t] = Op(t) /\ server[t] \in Servers
        /\ Op(t) \in CreateOps \cup DeleteOps
    BY <1>1, <1>7 DEF CarryOut, Stages, Own, CreateOps, DeleteOps, CopyOps
  <2>2. UNCHANGED <<pc, server, table>>
    BY <1>7 DEF CarryOut, local, directory
  <2>3. PICK out \in Outcomes(Op(t), k) :
          /\ disk' = [disk EXCEPT ![server[t]][Path(t)] = out[1]]
          /\ work' = [work EXCEPT ![t] = out[2]]
          /\ out[2] = "VALID" => disk' # disk
    <3>1. "unreported" \notin faults'
      OBVIOUS
    <3> QED
      BY <1>7, <2>1, <3>1 DEF CarryOut
  <2>4. /\ \A p \in Paths, s \in Servers :
              disk'[s][p] = IF p = Path(t) /\ s = server[t] THEN out[1] ELSE disk[s][p]
        /\ work'[t] = out[2] /\ \A u \in Threads \ {t} : work'[u] = work[u]
    BY <1>1, <1>3, <2>1, <2>3 DEF TypeOK
  <2>5. out[1] = k => disk' = disk
    BY <1>1, <1>3, <2>1, <2>3 DEF TypeOK
  <2>6. \A u \in Threads : work'[u] = "todo" => pc'[u] = "await"
    BY <1>1, <2>1, <2>2, <2>4
  <2>7. CASE out[2] # "VALID"
    <3>1. disk' = disk
      BY <2>1, <2>3, <2>5, <2>7, OutcomeChanges
    <3> QED
      BY <1>4, <2>1, <2>2, <2>4, <2>6, <2>7, <3>1 DEF Due
  <2>8. CASE out[2] = "VALID"
    <3>1. Due(t)' /\ ~Due(t) /\ \A u \in Threads \ {t} : UNCHANGED Due(u)
      BY <2>1, <2>2, <2>4, <2>8 DEF Due
    <3>2. /\ Op(t) \in CreateOps => k = "none" /\ out[1] # "none"
          /\ Op(t) \in DeleteOps => k # "none" /\ out[1] = "none"
      BY <2>1, <2>3, <2>5, <2>8, OutcomeChanges
    <3>3. ASSUME NEW p \in Paths, NEW s \in Servers, NEW ops \in {CreateOps, DeleteOps}
          PROVE  Cardinality(Pending(ops, p, s)')
                   = IF Op(t) \in ops /\ Path(t) = p /\ server[t] = s
                       THEN Cardinality(Pending(ops, p, s)) + 1
                       ELSE Cardinality(Pending(ops, p, s))
      <4>1. Pending(ops, p, s)' = {u \in Threads : /\ Due(u)' /\ Op(u)' \in ops
                                                   /\ Path(u)' = p /\ server'[u] = s}
        BY DEF Pending, Due
      <4>2. Pending(ops, p, s)' = IF Op(t) \in ops /\ Path(t) = p /\ server[t] = s
                                    THEN Pending(ops, p, s) \cup {t}
                                    ELSE Pending(ops, p, s)
        BY <1>3, <2>2, <3>1, <4>1, PendingAreDue
      <4>3. t \notin Pending(ops, p, s)
        BY <3>1, PendingAreDue
      <4> QED
        BY <4>2, <4>3, PendingFinite, FS_AddElement
    <3>4. ASSUME NEW p \in Paths, NEW s \in Servers
          PROVE  Account(p, s)'
      <4> DEFINE c  == Cardinality(Pending(CreateOps, p, s))
                 d  == Cardinality(Pending(DeleteOps, p, s))
                 here == Path(t) = p /\ server[t] = s
      <4>1. Listed(p, s) + c = Held(p, s) + d /\ c \in Nat /\ d \in Nat
        BY <1>1, PendingFinite DEF Account
      <4>2. c' = IF Op(t) \in CreateOps /\ here THEN c + 1 ELSE c
        BY <3>3
      <4>3. d' = IF Op(t) \in DeleteOps /\ here THEN d + 1 ELSE d
        BY <3>3
      <4>4. /\ Listed(p, s)' = Listed(p, s) /\ Listed(p, s) \in {0, 1}
            /\ ~here => Held(p, s)' = Held(p, s)
            /\ Held(p, s) \in {0, 1}
        BY <2>2, <2>4 DEF Listed, Held
      <4>5. here => /\ Op(t) \in CreateOps => Held(p, s) = 0 /\ Held(p, s)' = 1
                    /\ Op(t) \in DeleteOps => Held(p, s) = 1 /\ Held(p, s)' = 0
        BY <2>4, <3>2 DEF Held
      <4>6. Listed(p, s)' + c' = Held(p, s)' + d'
        <5>1. CreateOps \cap DeleteOps = {}
          BY DEF CreateOps, DeleteOps
        <5> HIDE DEF c, d, here
        <5> QED
          BY <2>1, <4>1, <4>2, <4>3, <4>4, <4>5, <5>1
      <4> QED
        BY <4>6 DEF Account
    <3> QED
      BY <1>1, <2>2, <2>6, <3>4
  <2> QED
    BY <2>7, <2>8
<1>8. ASSUME NEW t \in Threads, CarryOutCopy(t)
      PROVE  /\ \A u \in Threads : work'[u] = "todo" => pc'[u] = "await"
             /\ \A p \in Paths : NoRepeats(table[p])'
             /\ \A p \in Paths, s \in Servers : Account(p, s)'
  <2>1. /\ Op(t) \notin CreateOps \cup DeleteOps /\ work'[t] # "todo"
        /\ UNCHANGED <<pc, server, table>>
    BY <1>1, <1>8 DEF CarryOutCopy, CreateOps, DeleteOps, CopyOps, local, directory, TypeOK
  <2>2. \A u \in Threads \ {t} : work'[u] = work[u]
    BY <1>1, <1>8 DEF CarryOutCopy, TypeOK
  <2>3. UNCHANGED disk
    BY <1>8 DEF CarryOutCopy
  <2> QED
    BY <1>1, <1>4, <2>1, <2>2, <2>3 DEF Due
<1>9. ASSUME \/ \E s \in Servers : PulseMissed(s)
             \/ \E u \in Threads : ClientAdmitted(u) \/ ClientWrites(u)
             \/ Rest \/ UNCHANGED vars
      PROVE  /\ \A u \in Threads : work'[u] = "todo" => pc'[u] = "await"
             /\ \A p \in Paths : NoRepeats(table[p])'
             /\ \A p \in Paths, s \in Servers : Account(p, s)'
  <2>1. UNCHANGED <<pc, work, server, table, disk>>
    <3>1. ASSUME NEW u \in Threads, ClientWrites(u)
          PROVE  UNCHANGED <<pc, work, server, table, disk>>
      <4>1. "revived" \notin faults'
        OBVIOUS
      <4> QED
        BY <3>1, <4>1 DEF ClientWrites, local, directory
    <3>2. ASSUME NEW u \in Threads, ClientAdmitted(u)
          PROVE  UNCHANGED <<pc, work, server, table, disk>>
      BY <3>2 DEF ClientAdmitted, local, directory
    <3>3. ASSUME (\E s \in Servers : PulseMissed(s)) \/ Rest \/ UNCHANGED vars
          PROVE  UNCHANGED <<pc, work, server, table, disk>>
      BY <3>3 DEF PulseMissed, Rest, vars, local, directory, storage
    <3> QED
      BY <1>9, <3>1, <3>2, <3>3
  <2> QED
    BY <1>1, <1>4, <2>1 DEF Due
<1> QED
  BY <1>5, <1>6, <1>7, <1>8, <1>9 DEF Next, StorageServer

----------------------------------------------------------------------------
(* The room under the limit *)

LEMMA AddedFinite ==
  ASSUME NEW s
  PROVE  /\ IsFiniteSet(Added(s)) /\ Cardinality(Added(s)) \in Nat
         /\ Cardinality(Added(s)) <= Cardinality(Threads)
<1>1. Added(s) \in SUBSET Threads
  BY DEF Added, Choosers
<1> QED
  BY <1>1, WorkloadsAssumption, FS_Subset, FS_CardinalityType

LEMMA RoomInit == Init => RoomInv
<1> SUFFICES ASSUME Init
             PROVE  RoomInv
  OBVIOUS
<1>1. ASSUME NEW s \in Servers
      PROVE  count[s] <= Room(s) - (IF Choosers(s) = {} THEN 0 ELSE 1)
  <2>1. Choosers(s) = {}
    BY ServersAssumption DEF Init, Choosers
  <2>2. count[s] <= MaxPaths /\ count[s] \in Int
    <3>1. count[s] = Cardinality({p \in Paths : disk[s][p] # "none"})
      BY DEF Init
    <3>2. disk \in InitialDisks
      BY DEF Init
    <3>3. count[s] \in Int
      BY ShapeInit DEF Shape, TypeOK
    <3> QED
      BY <3>1, <3>2, <3>3, DisksAssumption
  <2> QED
    BY <2>1, <2>2, AddedFinite, DisksAssumption DEF Room
<1> QED
  BY <1>1 DEF Init, RoomInv

\* The thread was given a server for a new path, and its creation is through.
Chose(t)   == Op(t) \in CreateOps /\ server[t] \in Servers
Through(t) == Chose(t) /\ answer[t] = "VALID" /\ pc[t] \in {"reply", "done"}

(* The other steps give nobody a server for a new path, and complete no    *)
(* creation.                                                               *)
LEMMA RoomStays ==
  ASSUME Shape, OwnInv, NEW t \in Threads, Handle(t),
         ~(ChooseServer(t) \/ Writes(t) \/ LoadCount(t) \/ StoreCount(t)),
         "mixed" \notin faults', faults \subseteq faults', NEW u \in Threads
  PROVE  /\ UNCHANGED <<count, loaded, delta>>
         /\ Op(u) \in CreateOps => server'[u] = server[u]
         /\ Through(u) => answer'[u] = answer[u] /\ pc'[u] \in {"reply", "done"}
         /\ pc'[u] \in {"load", "store"} => pc'[u] = pc[u] /\ server'[u] = server[u]
<1>0. Own(u) /\ Stages(u) /\ TypeOK
  BY DEF OwnInv, Shape
<1> USE <1>0, ServersAssumption
    DEF TypeOK, Stages, Own, Talking, Answered, At, Goto, Respond, Through, Chose,
        CreateOps, DeleteOps, CopyOps, directory, storage, local
<1>1. CASE ReceiveRequest(t)
  BY <1>1 DEF ReceiveRequest
<1>2. CASE AbortRequest(t)
  BY <1>2 DEF AbortRequest
<1>3. CASE StoreType(t)
  <2>1. pc'[t] \in {"choose", "locate", "lookup", "done"} /\ pc[t] = "type"
    BY <1>3 DEF StoreType, Requests, Op, Ops
  <2>2. UNCHANGED <<server, answer, count, loaded, delta>> /\ (u # t => pc'[u] = pc[u])
    BY <1>3 DEF StoreType
  <2> QED
    BY <2>1, <2>2
<1>4. CASE LocatePath(t)
  BY <1>4 DEF LocatePath
<1>5. CASE AppendPort(t)
  BY <1>5 DEF AppendPort
<1>6. CASE FindServer(t)
  BY <1>6 DEF FindServer, UseServer, NoteMsg
<1>7. CASE FollowWildPointer(t)
  BY <1>7 DEF FollowWildPointer
<1>8. CASE LookupPaths(t)
  BY <1>8 DEF LookupPaths
<1>9. CASE Refused(t)
  BY <1>9 DEF Refused
<1>10. CASE SendOperation(t)
  BY <1>10 DEF SendOperation, NoteMsg
<1>11. CASE SendPath(t)
  BY <1>11 DEF SendPath
<1>12. CASE OperationNotConfirmed(t)
  BY <1>12 DEF OperationNotConfirmed
<1>13. CASE ReceiveAnswer(t)
  BY <1>13 DEF ReceiveAnswer
<1>14. CASE AnswerNotReceived(t)
  BY <1>14 DEF AnswerNotReceived
<1>15. CASE LeaveDirectory(t)
  BY <1>15 DEF LeaveDirectory
<1>16. CASE SendResponse(t)
  BY <1>16 DEF SendResponse
<1>17. CASE RecordAnswer(t)
  <2>1. /\ pc[t] = "record" /\ UNCHANGED <<server, answer, count, loaded, delta>>
        /\ \E next \in {"insert", "delete", "reply"} : pc' = [pc EXCEPT ![t] = next]
    BY <1>17 DEF RecordAnswer
  <2> QED
    BY <2>1
<1>18. CASE FollowFreedNode(t)
  BY <1>18 DEF FollowFreedNode
<1> QED
  BY <1>1, <1>2, <1>3, <1>4, <1>5, <1>6, <1>7, <1>8, <1>9, <1>10, <1>11, <1>12, <1>13, <1>14,
     <1>15, <1>16, <1>17, <1>18 DEF Handle, Writes

LEMMA RoomStep == Shape /\ OwnInv /\ RoomInv /\ [Next]_vars => RoomInv'
<1> DEFINE Low(s)  == count[s] <= Room(s) - (IF Choosers(s) = {} THEN 0 ELSE 1)
           Fits(t) == /\ pc[t] \in {"load", "store"} => Op(t) \notin CopyOps
                      /\ pc[t] = "store" => loaded[t] + delta[t]
                           <= Room(server[t]) - (IF Op(t) \in DeleteOps THEN 1 ELSE 0)
<1> SUFFICES ASSUME Shape, OwnInv, RoomInv, [Next]_vars,
                    faults' \cap {"mixed", "copied"} = {}
             PROVE  (\A s \in Servers : Low(s)') /\ (\A t \in Threads : Fits(t)')
  BY DEF RoomInv
<1>1. /\ faults \subseteq faults' /\ "mixed" \notin faults /\ "mixed" \notin faults' /\ TypeOK
      /\ \A t \in Threads : Own(t) /\ Stages(t) /\ Fits(t)
      /\ \A s \in Servers : Low(s)
  BY FaultsGrow DEF OwnInv, Shape, RoomInv
<1>2. UNCHANGED request
  BY RequestStays
<1>3. \A t \in Threads : Op(t)' = Op(t)
  BY <1>2 DEF Op
<1>4. ASSUME NEW s
      PROVE  /\ Room(s) \in Int /\ Room(s)' \in Int
             /\ IsFiniteSet(Added(s)') /\ Cardinality(Added(s)') \in Nat
  <2>1. Added(s)' \in SUBSET Threads
    BY DEF Added, Choosers
  <2>2. IsFiniteSet(Added(s)') /\ Cardinality(Added(s)') \in Nat
    BY <2>1, WorkloadsAssumption, FS_Subset, FS_CardinalityType
  <2> QED
    BY <2>2, AddedFinite, DisksAssumption DEF Room
\* Room does not shrink while creations that are through stay so, ...
<1>5. ASSUME \A u \in Threads : Through(u) => /\ server'[u] = server[u] /\ answer'[u] = answer[u]
                                             /\ pc'[u] \in {"reply", "done"},
             NEW s \in Servers
      PROVE  Room(s) <= Room(s)'
  <2>1. Added(s)' = {u \in Threads : /\ Op(u)' \in CreateOps /\ server'[u] = s
                                     /\ answer'[u] = "VALID" /\ pc'[u] \in {"reply", "done"}}
    BY DEF Added, Choosers
  <2>2. Added(s) \subseteq Added(s)'
    BY <1>3, <1>5, <2>1 DEF Added, Choosers, Through, Chose
  <2> QED
    BY <1>4, <2>2, AddedFinite, FS_Subset, DisksAssumption DEF Room
\* ... and the bounds stay while the counts do and no server is given anew.
<1>6. ASSUME \A u \in Threads : /\ Op(u) \in CreateOps => server'[u] = server[u]
                                /\ Through(u) => /\ answer'[u] = answer[u]
                                                 /\ pc'[u] \in {"reply", "done"}
      PROVE  /\ \A s \in Servers : Room(s) <= Room(s)' /\ Choosers(s)' = Choosers(s)
             /\ \A s \in Servers : count'[s] = count[s] => Low(s)'
  <2>1. \A s \in Servers : Room(s) <= Room(s)'
    BY <1>5, <1>6 DEF Through, Chose
  <2>2. ASSUME NEW s \in Servers
        PROVE  Choosers(s)' = Choosers(s)
    BY <1>3, <1>6 DEF Choosers
  <2>3. \A s \in Servers : count[s] \in Int
    BY <1>1 DEF TypeOK
  <2>4. ASSUME NEW s \in Servers, count'[s] = count[s]
        PROVE  Low(s)'
    BY <1>1, <1>4, <2>1, <2>2, <2>3, <2>4
  <2> QED
    BY <2>1, <2>2, <2>4
<1>7. \A u \in Threads : loaded[u] \in Int /\ delta[u] \in Int
  <2>1. \A u \in Threads : loaded[u] \in Int /\ delta[u] \in {-1, 0, 1}
    BY <1>1 DEF TypeOK
  <2> QED
    BY <2>1
<1>8. ASSUME NEW t \in Threads, Handle(t),
             ~(ChooseServer(t) \/ Writes(t) \/ LoadCount(t) \/ StoreCount(t))
      PROVE  (\A s \in Servers : Low(s)') /\ (\A u \in Threads : Fits(u)')
  <2>1. ASSUME NEW u \in Threads
        PROVE  /\ UNCHANGED <<count, loaded, delta>>
               /\ Op(u) \in CreateOps => server'[u] = server[u]
               /\ Through(u) => answer'[u] = answer[u] /\ pc'[u] \in {"reply", "done"}
               /\ pc'[u] \in {"load", "store"} => pc'[u] = pc[u] /\ server'[u] = server[u]
    BY <1>1, <1>8, RoomStays
  <2>2. \A s \in Servers : Room(s) <= Room(s)' /\ Low(s)'
    BY <1>6, <2>1
  <2>3. ASSUME NEW u \in Threads
        PROVE  Fits(u)'
    <3>1. pc'[u] = "store" => server[u] \in Servers
      BY <1>1, <2>1 DEF Stages, Talking
    <3> HIDE DEF Low
    <3> QED
      BY <1>1, <1>3, <1>4, <1>7, <2>1, <2>2, <3>1
  <2> QED
    BY <2>2, <2>3
<1>9. ASSUME NEW t \in Threads, ChooseServer(t)
      PROVE  (\A s \in Servers : Low(s)') /\ (\A u \in Threads : Fits(u)')
  <2>1. /\ pc[t] = "choose" /\ pc'[t] \in {"find", "findUnset"} /\ NS_Msg = Op(t)
        /\ UNCHANGED <<answer, count, loaded, delta>>
        /\ \A u \in Threads \ {t} : pc'[u] = pc[u] /\ server'[u] = server[u]
    BY <1>1, <1>9 DEF ChooseServer, NoteMsg, At, Goto, directory, TypeOK
  <2>2. CASE server' = server
    <3>1. \A s \in Servers : Room(s) <= Room(s)' /\ Low(s)'
      BY <1>6, <2>1, <2>2 DEF Through
    <3>2. \A u \in Threads : pc[u] = "store" => server[u] \in Servers
      BY <1>1 DEF Stages, Talking
    <3> HIDE DEF Low
    <3> QED
      BY <1>1, <1>3, <1>4, <1>7, <2>1, <2>2, <3>1, <3>2
  <2>3. CASE server' # server
    <3> DEFINE m == minAccessiblePathSS
    <3>1. server' = [server EXCEPT ![t] = m] /\ Op(t) \in CreateOps
      BY <1>9, <2>1, <2>3 DEF ChooseServer
    <3>2. server[t] = NoServer
      BY <1>1, <2>1 DEF Own
    <3>3. m # NoServer
      BY <1>1, <2>3, <3>1, <3>2 DEF TypeOK
    <3>4. m \in Servers /\ count[m] < MaxPaths
      BY <1>1, <3>3, MinAccessibleHasRoom
    <3>5. \A s \in Servers : Room(s) <= Room(s)'
      BY <1>5, <2>1, <3>2, ServersAssumption DEF Through, Chose
    <3>6. ASSUME NEW s \in Servers
          PROVE  Low(s)'
      <4>1. count[s] \in Int /\ count'[s] = count[s]
        BY <1>1, <2>1 DEF TypeOK
      <4>2. CASE s = m
        <5>1. Room(s) >= MaxPaths
          BY AddedFinite, DisksAssumption DEF Room
        <5> QED
          BY <1>4, <3>4, <3>5, <4>1, <4>2, <5>1, DisksAssumption
      <4>3. CASE s # m
        <5>1. Choosers(s)' = Choosers(s)
          BY <1>1, <1>3, <3>1, <3>2, <4>3, ServersAssumption DEF Choosers, TypeOK
        <5> QED
          BY <1>1, <1>4, <3>5, <4>1, <5>1
      <4> QED
        BY <4>2, <4>3
    <3>7. \A u \in Threads : pc[u] = "store" => server[u] \in Servers
      BY <1>1 DEF Stages, Talking
    <3> HIDE DEF Low, m
    <3> QED
      BY <1>1, <1>3, <1>4, <1>7, <2>1, <3>5, <3>6, <3>7
  <2> QED
    BY <2>2, <2>3
<1>10. ASSUME NEW t \in Threads, Writes(t)
      PROVE  (\A s \in Servers : Low(s)') /\ (\A u \in Threads : Fits(u)')
  <2>1. Op(t) \notin CopyOps
    <3>1. CASE pc[t] = "insert"
      BY <1>1, <3>1 DEF Own, CreateOps, CopyOps
    <3>2. CASE pc[t] = "delete"
      BY <1>1, <3>2 DEF Own, DeleteOps, CopyOps
    <3> QED
      BY <1>10, <3>1, <3>2 DEF Writes, addAccessiblePath, deleteAccessiblePath, At
  <2>2. /\ pc[t] \in {"insert", "delete"} /\ pc'[t] = "load" /\ server' = server
        /\ UNCHANGED <<answer, count, loaded>>
        /\ \A u \in Threads \ {t} : pc'[u] = pc[u] /\ delta'[u] = delta[u]
    BY <1>1, <1>10, <2>1 DEF Writes, addAccessiblePath, deleteAccessiblePath, At, Goto, TypeOK
  <2>3. \A s \in Servers : Room(s) <= Room(s)' /\ Low(s)'
    BY <1>6, <2>2 DEF Through
  <2>4. \A u \in Threads : pc[u] = "store" => server[u] \in Servers
    BY <1>1 DEF Stages, Talking
  <2> HIDE DEF Low
  <2> QED
    BY <1>1, <1>3, <1>4, <1>7, <2>1, <2>2, <2>3, <2>4
<1>11. ASSUME NEW t \in Threads, LoadCount(t)
      PROVE  (\A s \in Servers : Low(s)') /\ (\A u \in Threads : Fits(u)')
  <2>1. /\ pc[t] = "load" /\ pc'[t] = "store" /\ UNCHANGED <<answer, server, count, delta>>
        /\ loaded'[t] = count[server[t]]
        /\ \A u \in Threads \ {t} : pc'[u] = pc[u] /\ loaded'[u] = loaded[u]
    BY <1>1, <1>11 DEF LoadCount, At, Goto, directory, TypeOK
  <2>2. \A s \in Servers : Room(s) <= Room(s)' /\ Low(s)'
    BY <1>6, <2>1 DEF Through
  <2>3. /\ server[t] \in Servers /\ count[server[t]] \in Int
        /\ Op(t) \in CreateOps \cup DeleteOps
        /\ delta[t] = IF Op(t) \in DeleteOps THEN -1 ELSE 1
    BY <1>1, <2>1 DEF Stages, Talking, Own, TypeOK, CopyOps
  <2>4. Op(t) \in CreateOps => t \in Choosers(server[t])
    BY DEF Choosers
  <2>5. count[server[t]] <= Room(server[t]) - (IF Op(t) \in DeleteOps THEN 0 ELSE 1)
    BY <1>1, <1>4, <2>3, <2>4
  <2>6. \A u \in Threads : pc[u] = "store" => server[u] \in Servers
    BY <1>1 DEF Stages, Talking
  <2>7. Fits(t)'
    <3>1. Op(t) \notin CopyOps
      BY <1>1, <2>1
    <3> HIDE DEF Low
    <3> QED
      BY <1>3, <1>4, <2>1, <2>2, <2>3, <2>5, <3>1
  <2> HIDE DEF Low
  <2>8. ASSUME NEW u \in Threads \ {t}
        PROVE  Fits(u)'
    BY <1>1, <1>3, <1>4, <1>7, <2>1, <2>2, <2>6
  <2> QED
    BY <2>2, <2>7, <2>8
<1>12. ASSUME NEW t \in Threads, StoreCount(t)
      PROVE  (\A s \in Servers : Low(s)') /\ (\A u \in Threads : Fits(u)')
  <2> DEFINE ss == server[t]
  <2>1. /\ pc[t] = "store" /\ pc'[t] = "reply" /\ UNCHANGED <<answer, server, loaded>>
        /\ count' = [count EXCEPT ![ss] = loaded[t] + delta[t]]
        /\ \A u \in Threads \ {t} : pc'[u] = pc[u] /\ delta'[u] = delta[u]
    BY <1>1, <1>12 DEF StoreCount, At, Goto, TypeOK
  <2>2. ss \in Servers /\ answer[t] = "VALID" /\ Op(t) \in CreateOps \cup DeleteOps
    BY <1>1, <2>1 DEF Stages, Talking, CopyOps
  <2>3. /\ \A s \in Servers : Room(s) <= Room(s)' /\ Choosers(s)' = Choosers(s)
        /\ \A s \in Servers : count'[s] = count[s] => Low(s)'
    BY <1>6, <2>1 DEF Through
  <2>4. count'[ss] = loaded[t] + delta[t] /\ \A s \in Servers \ {ss} : count'[s] = count[s]
    BY <1>1, <2>1, <2>2 DEF TypeOK
  <2>5. Op(t) \in CreateOps => Room(ss)' >= Room(ss) + 1
    <3> SUFFICES ASSUME Op(t) \in CreateOps PROVE Room(ss)' >= Room(ss) + 1
      OBVIOUS
    <3>1. Added(ss)' = {u \in Threads : /\ Op(u)' \in CreateOps /\ server'[u] = server'[t]
                                        /\ answer'[u] = "VALID" /\ pc'[u] \in {"reply", "done"}}
      BY DEF Added, Choosers
    <3>2. Added(ss) \cup {t} \subseteq Added(ss)'
      BY <1>3, <2>1, <2>2, <3>1 DEF Added, Choosers
    <3>3. Cardinality(Added(ss) \cup {t}) = Cardinality(Added(ss)) + 1
      <4>1. t \notin Added(ss)
        BY <2>1 DEF Added
      <4> QED
        BY <4>1, AddedFinite, FS_AddElement
    <3>4. IsFiniteSet(Added(ss)') /\ Cardinality(Added(ss)') \in Nat
      <4>1. Added(ss)' \in SUBSET Threads
        BY <3>1
      <4> QED
        BY <4>1, WorkloadsAssumption, FS_Subset, FS_CardinalityType
    <3>5. Cardinality(Added(ss) \cup {t}) <= Cardinality(Added(ss)')
      BY <3>2, <3>4, FS_Subset
    <3> QED
      BY <3>3, <3>4, <3>5, AddedFinite, DisksAssumption DEF Room
  <2>6. Low(ss)'
    <3>1. loaded[t] + delta[t] <= Room(ss) - (IF Op(t) \in DeleteOps THEN 1 ELSE 0)
      BY <1>1, <2>1
    <3>2. loaded[t] + delta[t] <= Room(ss)' - 1
      <4>1. Room(ss) \in Int /\ Room(ss)' \in Int /\ Room(ss) <= Room(ss)'
        <5>1. Room(ss)' = MaxPaths + Cardinality(Added(ss)')
          BY DEF Room
        <5> QED
          BY <1>4, <2>1, <2>2, <2>3
      <4> QED
        BY <1>7, <2>2, <2>5, <3>1, <4>1
    <3> QED
      BY <1>4, <1>7, <2>1, <2>4, <3>2
  <2>7. \A u \in Threads : pc[u] = "store" => server[u] \in Servers
    BY <1>1 DEF Stages, Talking
  <2>8. \A s \in Servers : Low(s)'
    <3>1. ss' = ss
      BY <2>1
    <3>2. ASSUME NEW s \in Servers, s = ss
          PROVE  Low(s)'
      BY <2>6, <3>1, <3>2
    <3> HIDE DEF Low
    <3> QED
      BY <2>3, <2>4, <3>2
  <2> HIDE DEF Low
  <2> QED
    BY <1>1, <1>3, <1>4, <1>7, <2>1, <2>3, <2>7, <2>8
<1>13. ASSUME StorageServer \/ Rest \/ UNCHANGED vars
      PROVE  (\A s \in Servers : Low(s)') /\ (\A u \in Threads : Fits(u)')
  <2>1. UNCHANGED <<pc, server, answer, count, loaded, delta>>
    BY <1>13, ServerFrame DEF Rest, vars
  <2>2. \A s \in Servers : Room(s) <= Room(s)' /\ Low(s)'
    BY <1>6, <2>1 DEF Through
  <2>3. \A u \in Threads : pc[u] = "store" => server[u] \in Servers
    BY <1>1 DEF Stages, Talking
  <2> HIDE DEF Low
  <2> QED
    BY <1>1, <1>3, <1>4, <1>7, <2>1, <2>2, <2>3
<1> QED
  BY <1>8, <1>9, <1>10, <1>11, <1>12, <1>13 DEF Next

----------------------------------------------------------------------------
(* The theorems *)

IInv == Shape /\ FreshInv /\ CountsAddUp /\ OwnInv /\ AloneInv /\ AccountsInv /\ RoomInv

LEMMA Invariance == Spec => []IInv
<1>1. Init => IInv
  BY ShapeInit, FreshInit, CountsInit, OwnInit, AloneInit, AccountsInit, RoomInit DEF IInv
<1>2. IInv /\ [Next]_vars => IInv'
  BY ShapeStep, FreshStep, CountsStep, OwnStep, AloneStep, AccountsStep, RoomStep DEF IInv
<1> QED
  BY <1>1, <1>2, PTL DEF Spec

(* Every variable of the request threads, the directory and the disks      *)
(* keeps its type, whatever the threads do to the shared NS_Msg.           *)
THEOREM TypeCorrect == Spec => []TypeOK
<1>1. IInv => TypeOK
  BY DEF IInv, Shape
<1> QED
  BY <1>1, Invariance, PTL

(* The per-server counts of addAccessiblePath and deleteAccessiblePath add *)
(* up to the number of entries of the hash table, for any number of        *)
(* threads, servers, paths and buckets, unless two updates of one count or *)
(* of one bucket crossed.                                                  *)
THEOREM CountsAddUpAlways == Spec => []CountsAddUp
<1>1. IInv => CountsAddUp
  BY DEF IInv
<1> QED
  BY <1>1, Invariance, PTL

(* The hash table names exactly the holders of a path nobody is working    *)
(* on, each of them once, unless one of the listed hazards has struck, the *)
(* crossing of two bucket updates among them.                              *)
THEOREM DirectoryAccountsForDisks == Spec => []DirectoryMatchesDisks
<1>1. ASSUME IInv
      PROVE  DirectoryMatchesDisks
  <2> SUFFICES ASSUME faults \subseteq {"raced", "hungUp"}, NEW p \in Paths, Settled(p)
               PROVE  /\ ToSet(table[p]) = Holders(disk, p)
                      /\ Len(table[p]) = Cardinality(Holders(disk, p))
    BY DEF DirectoryMatchesDisks
  <2>1. NoRepeats(table[p]) /\ table[p] \in Seq(Servers)
    BY <1>1 DEF IInv, AccountsInv, Shape, TypeOK
  <2>2. ASSUME NEW s \in Servers
        PROVE  s \in ToSet(table[p]) <=> s \in Holders(disk, p)
    <3>1. Pending(CreateOps, p, s) = {} /\ Pending(DeleteOps, p, s) = {}
      BY DEF Settled, Pending
    <3>2. Account(p, s)
      BY <1>1 DEF IInv, AccountsInv
    <3>3. Listed(p, s) = Held(p, s)
      BY <3>1, <3>2, FS_EmptySet DEF Account, Listed, Held
    <3> QED
      BY <3>3 DEF Listed, Held, Holders
  <2>3. ToSet(table[p]) = Holders(disk, p)
    <3>1. ToSet(table[p]) \subseteq Servers
      BY <2>1, LenProperties DEF ToSet
    <3>2. Holders(disk, p) \subseteq Servers
      BY DEF Holders
    <3> QED
      BY <2>2, <3>1, <3>2
  <2>4. Len(table[p]) = Cardinality(ToSet(table[p]))
    <3>1. PICK n \in Nat : n = Len(table[p]) /\ table[p] \in [1..n -> Servers]
      BY <2>1, LenProperties
    <3>2. ExistsBijection(1..n, ToSet(table[p]))
      BY <2>1, <3>1 DEF NoRepeats, ExistsBijection, Bijection, Injection, Surjection,
                        IsInjective, ToSet
    <3>3. IsFiniteSet(1..n) /\ Cardinality(1..n) = n
      BY FS_Interval
    <3> QED
      BY <3>1, <3>2, <3>3, FS_Bijection
  <2> QED
    BY <2>3, <2>4
<1> QED
  BY <1>1, Invariance, PTL

(* What a client was told about its file is what the directory and the     *)
(* storage server show, as long as no other client works on that path, no  *)
(* thread used another one's operation number, no two updates of a bucket  *)
(* crossed and no client was still writing to a deleted file.              *)
THEOREM ToldIsSo == Spec => []AnswersAreVisible
<1>1. ASSUME IInv
      PROVE  AnswersAreVisible
  <2> SUFFICES ASSUME faults \cap {"mixed", "tangled", "revived"} = {}, NEW t \in Threads,
                      pc[t] = "done", answer[t] = "VALID",
                      \A u \in Threads \ {t} : ~Touches(u, Path(t))
               PROVE  /\ Op(t) = "CREATE_FILE" =>
                           /\ searchPathInHashTable(Path(t)) = server[t]
                           /\ disk[server[t]][Path(t)] = "file"
                      /\ Op(t) = "DELETE_FILE" =>
                           /\ server[t] \notin ToSet(table[Path(t)])
                           /\ disk[server[t]][Path(t)] = "none"
    BY DEF AnswersAreVisible
  <2>1. Alone(t) /\ Stages(t)
    BY <1>1 DEF IInv, AloneInv, Shape
  <2> QED
    BY <2>1 DEF Alone, Stages, searchPathInHashTable
<1> QED
  BY <1>1, Invariance, PTL

(* A reader is sent to a server that holds the path, under the first three *)
(* of these conditions.                                                    *)
THEOREM ReadersAreSentRight == Spec => []ReadersFindTheirFile
<1>1. ASSUME IInv
      PROVE  ReadersFindTheirFile
  <2> SUFFICES ASSUME faults \cap {"mixed", "tangled"} = {}, NEW t \in Threads,
                      pc[t] = "done", answer[t] \in Servers,
                      \A u \in Threads \ {t} : ~Touches(u, Path(t))
               PROVE  disk[answer[t]][Path(t)] # "none"
    BY DEF ReadersFindTheirFile
  <2>1. Alone(t)
    BY <1>1 DEF IInv, AloneInv
  <2> QED
    BY <2>1 DEF Alone
<1> QED
  BY <1>1, Invariance, PTL

(* However many clients create files at once, a server goes over           *)
(* MAX_NO_ACCESSIBLE_PATHS by fewer paths than there are requests, unless  *)
(* one is a copy or uses another thread's operation number.                *)
THEOREM LimitKept == Spec => []LimitKeptButForRequestsUnderWay
<1>1. ASSUME IInv
      PROVE  LimitKeptButForRequestsUnderWay
  <2> SUFFICES ASSUME faults \cap {"mixed", "copied"} = {}, NEW s \in Servers
               PROVE  count[s] < MaxPaths + Cardinality(Threads)
    BY DEF LimitKeptButForRequestsUnderWay
  <2>1. count[s] \in Int /\ count[s] <= Room(s) - (IF Choosers(s) = {} THEN 0 ELSE 1)
    BY <1>1 DEF IInv, RoomInv, Shape, TypeOK
  <2>2. Cardinality(Threads) \in Nat \ {0}
    BY WorkloadsAssumption, FS_CardinalityType, FS_EmptySet
  <2>3. CASE Choosers(s) = {}
    <3>1. Cardinality(Added(s)) = 0
      BY <2>3, FS_EmptySet DEF Added
    <3> QED
      BY <2>1, <2>2, <2>3, <3>1, DisksAssumption DEF Room
  <2>4. CASE Choosers(s) # {}
    BY <2>1, <2>2, <2>4, AddedFinite, DisksAssumption DEF Room
  <2> QED
    BY <2>3, <2>4
<1> QED
  BY <1>1, Invariance, PTL

=============================================================================
