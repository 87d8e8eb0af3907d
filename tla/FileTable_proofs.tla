-------------------------- MODULE FileTable_proofs --------------------------
(***************************************************************************)
(* Proofs about FileTable, for any number of threads, paths and nodes.     *)
(*                                                                         *)
(* Until a removal crosses what another thread does at its nodes, Heap is  *)
(* the reason why every walk ends: among the allocated nodes each has at   *)
(* most one predecessor, the head and the nodes not yet appended have      *)
(* none, no pointer leads into freed memory, and what a removal has read   *)
(* still holds.  Cycles do come into being, but only where no walk gets    *)
(* to.  Ends says when the next append goes to the end of the list, Sought *)
(* that removals remove from it, Accounts weighs the list and the          *)
(* creations under way against the disk and the deletions under way, and   *)
(* Held ties the sessions to the nodes the lookups will find.              *)
(***************************************************************************)
EXTENDS FileTable, FiniteSetTheorems, SequenceTheorems, WellFoundedInduction, TLAPS

\* What a thread does at a step, and whether it has a node there.
StepsOfOps ==
  \A t \in Threads :
    /\ pc[t] \in {"open", "allocate", "append", "first", "link", "tail"} =>
         Op(t) = "CREATE_FILE"
    /\ pc[t] \in {"remove", "unlist", "unlink"} => Op(t) = "DELETE_FILE"
    /\ pc[t] \in {"admit", "transfer", "release"} => Op(t) \in {"READ_FILE", "WRITE_FILE"}
    /\ pc[t] \in {"append", "first", "link", "tail", "admit"} => node[t] # NULL

\* Threads whose node is not in the list yet.
Bringing == {t \in Threads : pc[t] \in {"append", "first", "link"}}

\* The pointers among the allocated nodes A, the head being h: none leads out
\* of A, and none leads to the head or where another leads to.
Linked(h, nx, A) ==
  /\ A \subseteq Nodes
  /\ nx \in [Nodes -> Pointers]
  /\ h \in A \cup {NULL}
  /\ \A n \in A : nx[n] \in A \cup {NULL}
  /\ \A n \in A : nx[n] # NULL => nx[n] # h
  /\ \A m, n \in A : nx[m] = nx[n] /\ nx[n] # NULL => m = n

\* What a thread about to unlink has read still holds, unless another one has
\* written to its nodes.
Found(t) ==
  pc[t] = "unlink" /\ t \notin stale =>
    /\ node[t] \in allocated /\ ptr2[t] \in allocated
    /\ next[node[t]] = ptr2[t] /\ next[ptr2[t]] = after[t]
    /\ filepath[ptr2[t]] = Path(t)

Heap ==
  /\ Linked(fileHead, next, allocated)
  /\ \A t \in Bringing :
       /\ node[t] \in allocated /\ node[t] # fileHead /\ filepath[node[t]] = Path(t)
       /\ \A n \in allocated : next[n] # node[t]
  /\ \A t, u \in Bringing : node[t] = node[u] => t = u
  /\ \A t \in Threads : pc[t] = "link" => fileHead # NULL
  /\ \A t \in Threads : Found(t)

\* The nodes of the list.
Reach == {n \in Nodes : \E i \in 1..NodeCount + 1 : walk[i] = n}

\* The node the next append follows, if it is in the list.
Anchors ==
  IF \E t \in Threads : pc[t] = "tail" THEN {node[t] : t \in {u \in Threads : pc[u] = "tail"}}
  ELSE {fileTail}

\* The next append goes to the end of the list, or to nodes that are in no
\* list any more.
EndOfList ==
  /\ \A t, u \in Appending : t = u
  /\ \A t \in Threads : pc[t] = "first" => fileHead = NULL
  /\ fileHead = NULL => \A t \in Threads : pc[t] # "tail"
  /\ fileHead # NULL /\ (\A t \in Threads : pc[t] # "tail") => fileTail # NULL
  /\ \A a \in Anchors \cap Reach : next[a] = NULL
  /\ fileHead = NULL \/ Anchors \cap Reach # {} => \A t \in Bringing : next[node[t]] = NULL

\* While no appends cross.
Ends == "raced" \notin faults => EndOfList

\* It goes to the list, unless the end of it was freed.
Anchored ==
  {"raced", "tailFreed"} \cap faults = {} => fileHead = NULL \/ Anchors \cap Reach # {}

\* Removals remove nodes from it.
Sought ==
  "raced" \notin faults =>
    \A t \in Threads : pc[t] = "unlink" /\ t \notin stale => ptr2[t] \in Reach

Listed(p)   == {n \in Reach : filepath[n] = p}
Creating(p) == {t \in Threads : pc[t] \in {"allocate", "append", "first", "link"} /\ Path(t) = p}
Deleting(p) == {t \in Threads : pc[t] \in {"unlist", "unlink"} /\ Path(t) = p}
OnDisk(p)   == IF p \in disk THEN 1 ELSE 0

Accounts ==
  faults \subseteq {"pulled"} =>
    \A p \in Paths :
      Cardinality(Listed(p)) + Cardinality(Creating(p)) = OnDisk(p) + Cardinality(Deleting(p))

\* The sessions' lookups will find the nodes whose locks they took.
Held ==
  {"pulled", "raced"} \cap faults = {} =>
    \A t \in Threads : pc[t] \in {"transfer", "release"} =>
      node[t] \in allocated /\ Lookup(Path(t)) = node[t]

\* Without deletions what is listed exists.
Kept ==
  (\A t \in Threads : Op(t) # "DELETE_FILE") =>
    /\ \A n \in allocated : filepath[n] \in disk
    /\ \A t \in Threads : pc[t] \in {"allocate", "admit", "transfer"} => Path(t) \in disk

\* Only removals cross.
Uncrossed == "crossed" \in faults => \E t \in Threads : Op(t) = "DELETE_FILE"

List == Heap /\ Ends /\ Anchored /\ Sought /\ Accounts /\ Held /\ ReadersCounted

IInv ==
  /\ TypeOK /\ StepsOfOps /\ Uncrossed /\ Kept /\ SurvivesWithoutDeletions
  /\ "crossed" \notin faults => List

----------------------------------------------------------------------------
(* Walks, whatever the list they walk through.                             *)

\* What the walk does that starts at h and follows nx.
IsWalk(w, h, nx) ==
  /\ w \in [1..NodeCount + 1 -> Pointers]
  /\ w[1] = h
  /\ \A i \in 1..NodeCount : w[i + 1] = IF w[i] = NULL THEN NULL ELSE nx[w[i]]

Met(w) == {n \in Nodes : \E i \in 1..NodeCount + 1 : w[i] = n}

LEMMA CountIsNat == NodeCount \in Nat
BY BoundsAssumption

(* Induction over the numbers, with the set of what is proved in place of  *)
(* the predicate of the library's theorem.                                 *)
LEMMA NumbersInduction ==
  ASSUME NEW Good, 0 \in Good, \A n \in Nat : n \in Good => n + 1 \in Good
  PROVE  Nat \subseteq Good
<1> DEFINE Bad == {n \in Nat : n \notin Good}
<1> SUFFICES ASSUME Bad # {}
             PROVE  FALSE
  OBVIOUS
<1>1. PICK n \in Bad : \A m \in Bad : ~(<<m, n>> \in OpToRel(<, Nat))
  <2>1. Bad \subseteq Nat
    OBVIOUS
  <2> HIDE DEF Bad
  <2> QED
    BY <2>1, NatLessThanWellFounded, WFMin
<1>2. n \in Nat /\ n \notin Good /\ n # 0
  OBVIOUS
<1>3. n - 1 \in Nat /\ n - 1 < n
  BY <1>2
<1>4. n - 1 \notin Bad
  <2> HIDE DEF Bad
  <2> QED
    BY <1>1, <1>2, <1>3 DEF OpToRel
<1>5. (n - 1) + 1 = n
  BY <1>2
<1> QED
  BY <1>2, <1>3, <1>4, <1>5

LEMMA LeastNumber ==
  ASSUME NEW S, S \subseteq Nat, S # {}
  PROVE  First(S) \in S /\ \A j \in S : First(S) <= j
<1>1. PICK n \in S : \A m \in S : ~(<<m, n>> \in OpToRel(<, Nat))
  BY NatLessThanWellFounded, WFMin
<1>2. \A m \in S : n <= m
  <2>1. \A m \in S : m \in Nat /\ n \in Nat
    OBVIOUS
  <2>2. \A m \in S : ~(m < n)
    BY <1>1, <2>1 DEF OpToRel
  <2> QED
    BY <2>1, <2>2
<1> QED
  BY <1>1, <1>2 DEF First

\* One more step of the walk that starts at h and follows nx.
Follow(w, h, nx) ==
  [i \in 1..NodeCount + 1 |->
     IF i = 1 THEN h ELSE IF w[i - 1] = NULL THEN NULL ELSE nx[w[i - 1]]]

LEMMA WalkExists ==
  ASSUME NEW h, NEW nx
  PROVE  \E w : w = Follow(w, h, nx)
<1> DEFINE After(w, i) ==
             IF i = 1 THEN h ELSE IF w[i - 1] = NULL THEN NULL ELSE nx[w[i - 1]]
           Good == {n \in Nat : \E w : w = [i \in 1..n |-> After(w, i)]}
<1>1. 0 \in Good
  <2>1. <<>> = [i \in 1..0 |-> After(<<>>, i)]
    OBVIOUS
  <2> QED
    BY <2>1
<1>2. ASSUME NEW n \in Nat, n \in Good
      PROVE  n + 1 \in Good
  <2>1. PICK w : w = [i \in 1..n |-> After(w, i)]
    BY <1>2
  <2> DEFINE v == [i \in 1..n + 1 |-> After(w, i)]
  <2>2. \A i \in 1..n : v[i] = w[i]
    BY <2>1
  <2>3. \A i \in 1..n + 1 : i # 1 => i - 1 \in 1..n
    OBVIOUS
  <2>4. \A i \in 1..n + 1 : After(v, i) = After(w, i)
    <3> HIDE DEF v
    <3> QED
      BY <2>2, <2>3
  <2>5. v = [i \in 1..n + 1 |-> After(v, i)]
    <3>1. v = [i \in 1..n + 1 |-> After(w, i)]
      OBVIOUS
    <3> HIDE DEF v, After
    <3> QED
      BY <2>4, <3>1
  <2> HIDE DEF v, After
  <2> QED
    BY <2>5
<1>3. Nat \subseteq Good
  <2> HIDE DEF Good
  <2> QED
    BY <1>1, <1>2, NumbersInduction
<1>4. NodeCount + 1 \in Nat
  BY CountIsNat
<1>5. NodeCount + 1 \in Good
  BY <1>3, <1>4
<1> QED
  BY <1>5 DEF Follow

LEMMA WalkGoes ==
  ASSUME NEW h \in Pointers, NEW nx \in [Nodes -> Pointers], NEW w,
         w = Follow(w, h, nx)
  PROVE  IsWalk(w, h, nx)
<1> USE CountIsNat
<1> DEFINE After(i) ==
             IF i = 1 THEN h ELSE IF w[i - 1] = NULL THEN NULL ELSE nx[w[i - 1]]
           Good == {n \in Nat : n \in 1..NodeCount + 1 => w[n] \in Pointers}
<1>1. \A i \in 1..NodeCount + 1 : w[i] = After(i)
  BY DEF Follow
<1>2. DOMAIN w = 1..NodeCount + 1 /\ w = [i \in DOMAIN w |-> w[i]]
  BY DEF Follow
<1>3. w[1] = h
  BY <1>1
<1>4. \A i \in 1..NodeCount : w[i + 1] = IF w[i] = NULL THEN NULL ELSE nx[w[i]]
  <2> TAKE i \in 1..NodeCount
  <2>1. i + 1 \in 1..NodeCount + 1 /\ i + 1 # 1 /\ (i + 1) - 1 = i
    OBVIOUS
  <2>2. w[i + 1] = After(i + 1)
    BY <1>1, <2>1
  <2> QED
    BY <2>1, <2>2
<1>5. ASSUME NEW n \in Nat, n \in Good
      PROVE  n + 1 \in Good
  <2>1. CASE n = 0
    BY <1>3, <2>1
  <2>2. CASE n \notin 0..NodeCount
    BY <2>2
  <2>3. CASE n \in 1..NodeCount
    <3>1. w[n] \in Pointers /\ w[n + 1] = IF w[n] = NULL THEN NULL ELSE nx[w[n]]
      BY <1>4, <1>5, <2>3
    <3>2. w[n + 1] \in Pointers
      BY <3>1 DEF Pointers, NULL
    <3> QED
      BY <3>2
  <2> QED
    BY <2>1, <2>2, <2>3
<1>6. Nat \subseteq Good
  <2>1. 0 \in Good
    OBVIOUS
  <2> HIDE DEF Good
  <2> QED
    BY <1>5, <2>1, NumbersInduction
<1>7. \A i \in 1..NodeCount + 1 : w[i] \in Pointers
  BY <1>6
<1>8. w \in [1..NodeCount + 1 -> Pointers]
  BY <1>2, <1>7
<1> QED
  BY <1>3, <1>4, <1>8 DEF IsWalk

(* The walk of the model, before and after a step.                         *)
LEMMA WalkIs ==
  ASSUME TypeOK
  PROVE  IsWalk(walk, fileHead, next)
<1>1. \E v : v = Follow(v, fileHead, next)
  BY WalkExists
<1>2. walk = CHOOSE v : v = Follow(v, fileHead, next)
  BY DEF walk, Follow
<1>3. walk = Follow(walk, fileHead, next)
  BY <1>1, <1>2
<1> QED
  BY <1>3, WalkGoes DEF TypeOK

LEMMA WalkWillBe ==
  ASSUME TypeOK'
  PROVE  IsWalk(walk', fileHead', next')
<1>1. \E v : v = Follow(v, fileHead', next')
  BY WalkExists
<1>2. walk' = CHOOSE v : v = Follow(v, fileHead', next')
  BY DEF walk, Follow
<1>3. walk' = Follow(walk', fileHead', next')
  BY <1>1, <1>2
<1>4. fileHead' \in Pointers /\ next' \in [Nodes -> Pointers]
  BY DEF TypeOK
<1> QED
  BY <1>3, <1>4, WalkGoes

(* Through linked nodes: only allocated nodes are met, none twice, and the *)
(* walk ends.                                                              *)
LEMMA WalkStays ==
  ASSUME NEW h, NEW nx, NEW A, NEW w, IsWalk(w, h, nx), Linked(h, nx, A)
  PROVE  \A i \in 1..NodeCount + 1 : w[i] \in A \cup {NULL}
<1> USE CountIsNat
<1> DEFINE Good == {n \in Nat : n \in 1..NodeCount + 1 => w[n] \in A \cup {NULL}}
<1>1. ASSUME NEW n \in Nat, n \in Good
      PROVE  n + 1 \in Good
  <2>1. CASE n = 0
    BY <2>1 DEF IsWalk, Linked
  <2>2. CASE n \notin 0..NodeCount
    BY <2>2
  <2>3. CASE n \in 1..NodeCount
    <3>1. w[n] \in A \cup {NULL} /\ w[n + 1] = IF w[n] = NULL THEN NULL ELSE nx[w[n]]
      BY <1>1, <2>3 DEF IsWalk
    <3>2. w[n + 1] \in A \cup {NULL}
      BY <3>1 DEF Linked
    <3> QED
      BY <3>2
  <2> QED
    BY <2>1, <2>2, <2>3
<1>2. 0 \in Good
  OBVIOUS
<1>3. Nat \subseteq Good
  <2> HIDE DEF Good
  <2> QED
    BY <1>1, <1>2, NumbersInduction
<1> QED
  BY <1>3

LEMMA NullStays ==
  ASSUME NEW h, NEW nx, NEW w, IsWalk(w, h, nx),
         NEW i \in 1..NodeCount + 1, NEW j \in 1..NodeCount + 1, i <= j, w[i] = NULL
  PROVE  w[j] = NULL
<1> USE CountIsNat
<1> DEFINE Good == {n \in Nat : i + n \in 1..NodeCount + 1 => w[i + n] = NULL}
<1>1. ASSUME NEW n \in Nat, n \in Good
      PROVE  n + 1 \in Good
  <2>1. CASE i + n \in 1..NodeCount
    <3> DEFINE m == i + n
    <3>1. w[m] = NULL
      BY <1>1, <2>1
    <3>2. w[m + 1] = NULL
      BY <2>1, <3>1 DEF IsWalk
    <3>3. m + 1 = i + (n + 1)
      OBVIOUS
    <3> QED
      BY <3>2, <3>3
  <2>2. CASE i + n \notin 1..NodeCount
    BY <2>2
  <2> QED
    BY <2>1, <2>2
<1>2. 0 \in Good
  OBVIOUS
<1>3. Nat \subseteq Good
  <2> HIDE DEF Good
  <2> QED
    BY <1>1, <1>2, NumbersInduction
<1>4. j - i \in Nat /\ i + (j - i) = j
  OBVIOUS
<1>5. j - i \in Good
  BY <1>3, <1>4
<1> QED
  BY <1>4, <1>5

LEMMA NoneTwice ==
  ASSUME NEW h, NEW nx, NEW A, NEW w, IsWalk(w, h, nx), Linked(h, nx, A),
         NEW i \in 1..NodeCount + 1, NEW j \in 1..NodeCount + 1,
         w[i] # NULL, w[i] = w[j]
  PROVE  i = j
<1> USE CountIsNat
<1> DEFINE Twice(n) == \E m \in 1..n - 1 : w[n] # NULL /\ w[m] = w[n]
           Good == {n \in Nat : n \in 1..NodeCount + 1 => ~Twice(n)}
<1>1. ASSUME NEW n \in Nat, n \in Good
      PROVE  n + 1 \in Good
  <2> SUFFICES ASSUME n + 1 \in 1..NodeCount + 1, Twice(n + 1)
               PROVE  FALSE
    OBVIOUS
  <2>1. PICK m \in 1..n : w[n + 1] # NULL /\ w[m] = w[n + 1]
    OBVIOUS
  <2>2. n \in 1..NodeCount
    BY <2>1
  <2>3. w[n + 1] = IF w[n] = NULL THEN NULL ELSE nx[w[n]]
    BY <2>2 DEF IsWalk
  <2>4. w[n] \in A /\ w[n + 1] = nx[w[n]]
    <3>1. w[n] \in A \cup {NULL}
      BY <2>2, WalkStays
    <3> QED
      BY <2>1, <2>3, <3>1
  <2>5. m # 1
    <3>1. w[1] = h
      BY DEF IsWalk
    <3> QED
      BY <2>1, <2>4, <3>1 DEF Linked
  <2>6. m - 1 \in 1..NodeCount /\ (m - 1) + 1 = m
    BY <2>1, <2>2, <2>5
  <2>7. w[m] = IF w[m - 1] = NULL THEN NULL ELSE nx[w[m - 1]]
    BY <2>6 DEF IsWalk
  <2>8. w[m - 1] \in A /\ w[m] = nx[w[m - 1]]
    <3>1. w[m - 1] \in A \cup {NULL}
      BY <2>6, WalkStays
    <3> QED
      BY <2>1, <2>7, <3>1
  <2>9. w[m - 1] = w[n]
    BY <2>1, <2>4, <2>8 DEF Linked
  <2>10. w[n] # NULL
    BY <2>1, <2>3
  <2>11. Twice(n)
    BY <2>1, <2>2, <2>5, <2>6, <2>9, <2>10
  <2> QED
    BY <1>1, <2>2, <2>11
<1>2. 0 \in Good
  OBVIOUS
<1>3. Nat \subseteq Good
  <2> HIDE DEF Good
  <2> QED
    BY <1>1, <1>2, NumbersInduction
<1>4. ~Twice(i) /\ ~Twice(j)
  BY <1>3
<1>5. ~(i < j) /\ ~(j < i)
  <2>1. i < j => i \in 1..j - 1
    OBVIOUS
  <2>2. j < i => j \in 1..i - 1
    OBVIOUS
  <2> QED
    BY <1>4, <2>1, <2>2
<1> QED
  BY <1>5

LEMMA WalkComesToAnEnd ==
  ASSUME NEW h, NEW nx, NEW A, NEW w, IsWalk(w, h, nx), Linked(h, nx, A)
  PROVE  w[NodeCount + 1] = NULL
<1> USE CountIsNat
<1> DEFINE I == 1..NodeCount + 1
<1>1. SUFFICES ASSUME w[NodeCount + 1] # NULL
               PROVE  FALSE
  OBVIOUS
<1>2. \A i \in I : w[i] # NULL
  BY <1>1, NullStays
<1>3. w \in [I -> Nodes]
  <2>1. \A i \in I : w[i] \in Nodes
    BY <1>2, WalkStays DEF Linked
  <2> QED
    BY <2>1 DEF IsWalk
<1>4. IsFiniteSet(I) /\ Cardinality(I) = NodeCount + 1
  BY FS_Interval
<1>5. IsFiniteSet(Nodes) /\ Cardinality(Nodes) = NodeCount
  BY FS_Interval DEF Nodes
<1>6. \E i, j \in I : i # j /\ w[i] = w[j]
  <2> HIDE DEF I
  <2> QED
    BY <1>3, <1>4, <1>5, FS_PigeonHole
<1>7. PICK i \in I, j \in I : i # j /\ w[i] = w[j]
  BY <1>6
<1> QED
  BY <1>2, <1>7, NoneTwice

(* What is met is the least set that holds the head and is closed under    *)
(* nx.                                                                     *)
LEMMA MetIsLeast ==
  ASSUME NEW h, NEW nx, NEW w, IsWalk(w, h, nx), NEW S, h \in S \cup {NULL},
         \A n \in S : nx[n] \in S \cup {NULL}
  PROVE  Met(w) \subseteq S
<1> USE CountIsNat
<1> DEFINE Good == {n \in Nat : n \in 1..NodeCount + 1 => w[n] \in S \cup {NULL}}
<1>1. ASSUME NEW n \in Nat, n \in Good
      PROVE  n + 1 \in Good
  <2>1. CASE n = 0
    BY <2>1 DEF IsWalk
  <2>2. CASE n \notin 0..NodeCount
    BY <2>2
  <2>3. CASE n \in 1..NodeCount
    <3>1. w[n] \in S \cup {NULL} /\ w[n + 1] = IF w[n] = NULL THEN NULL ELSE nx[w[n]]
      BY <1>1, <2>3 DEF IsWalk
    <3> QED
      BY <3>1
  <2> QED
    BY <2>1, <2>2, <2>3
<1>2. 0 \in Good
  OBVIOUS
<1>3. Nat \subseteq Good
  <2> HIDE DEF Good
  <2> QED
    BY <1>1, <1>2, NumbersInduction
<1>4. \A i \in 1..NodeCount + 1 : w[i] \in S \cup {NULL}
  BY <1>3
<1>5. NULL \notin Nodes
  BY DEF Nodes, NULL
<1> QED
  BY <1>4, <1>5 DEF Met

LEMMA MetIsClosed ==
  ASSUME NEW h, NEW nx, NEW A, NEW w, IsWalk(w, h, nx), Linked(h, nx, A)
  PROVE  /\ Met(w) \subseteq A
         /\ h \in Met(w) \cup {NULL}
         /\ \A n \in Met(w) : nx[n] \in Met(w) \cup {NULL}
<1> USE CountIsNat
<1>1. NULL \notin Nodes
  BY DEF Nodes, NULL
<1>2. Met(w) \subseteq A
  <2>1. \A i \in 1..NodeCount + 1 : w[i] \in A \cup {NULL}
    BY WalkStays
  <2> QED
    BY <1>1, <2>1 DEF Met
<1>3. h \in Met(w) \cup {NULL}
  <2>1. w[1] = h /\ 1 \in 1..NodeCount + 1 /\ h \in Nodes \cup {NULL}
    BY DEF IsWalk, Linked
  <2> QED
    BY <2>1 DEF Met
<1>4. ASSUME NEW n \in Met(w)
      PROVE  nx[n] \in Met(w) \cup {NULL}
  <2>1. PICK i \in 1..NodeCount + 1 : w[i] = n
    BY DEF Met
  <2>2. n \in Nodes /\ n \in A
    BY <1>2 DEF Met
  <2>3. i \in 1..NodeCount
    <3>1. w[NodeCount + 1] = NULL
      BY WalkComesToAnEnd
    <3> QED
      BY <1>1, <2>1, <2>2, <3>1
  <2>4. w[i + 1] = nx[n] /\ i + 1 \in 1..NodeCount + 1
    BY <1>1, <2>1, <2>2, <2>3 DEF IsWalk
  <2>5. nx[n] \in Nodes \cup {NULL}
    BY <2>2 DEF Linked
  <2> QED
    BY <2>4, <2>5 DEF Met
<1> QED
  BY <1>2, <1>3, <1>4

LEMMA MetHasPredecessor ==
  ASSUME NEW h, NEW nx, NEW w, IsWalk(w, h, nx), NEW n \in Met(w), n # h
  PROVE  \E m \in Met(w) : nx[m] = n
<1> USE CountIsNat
<1>1. PICK i \in 1..NodeCount + 1 : w[i] = n
  BY DEF Met
<1>2. i # 1
  BY <1>1 DEF IsWalk
<1> DEFINE j == i - 1
<1>3. j \in 1..NodeCount /\ j + 1 = i /\ j \in 1..NodeCount + 1
  BY <1>2
<1>4. w[i] = IF w[j] = NULL THEN NULL ELSE nx[w[j]]
  <2> HIDE DEF j
  <2> QED
    BY <1>3 DEF IsWalk
<1>5. n \in Nodes /\ n # NULL
  BY DEF Met, Nodes, NULL
<1>6. w[j] # NULL /\ nx[w[j]] = n
  BY <1>1, <1>4, <1>5
<1>7. w[j] \in Met(w)
  <2>1. w[j] \in Nodes
    BY <1>3, <1>6 DEF IsWalk, Pointers
  <2> QED
    BY <1>3, <2>1 DEF Met
<1> QED
  BY <1>6, <1>7

(* A change to nodes that the walk does not meet is not noticed.           *)
LEMMA SameWalk ==
  ASSUME NEW h, NEW nx, NEW ny, NEW w, NEW v, IsWalk(w, h, nx), IsWalk(v, h, ny),
         \A n \in Met(w) : ny[n] = nx[n]
  PROVE  v = w
<1> USE CountIsNat
<1> DEFINE Good == {n \in Nat : n \in 1..NodeCount + 1 => v[n] = w[n]}
<1>1. ASSUME NEW n \in Nat, n \in Good
      PROVE  n + 1 \in Good
  <2>1. CASE n = 0
    BY <2>1 DEF IsWalk
  <2>2. CASE n \notin 0..NodeCount
    BY <2>2
  <2>3. CASE n \in 1..NodeCount
    <3>1. v[n] = w[n] /\ w[n] \in Pointers
      BY <1>1, <2>3 DEF IsWalk
    <3>2. w[n + 1] = IF w[n] = NULL THEN NULL ELSE nx[w[n]]
      BY <2>3 DEF IsWalk
    <3>3. v[n + 1] = IF w[n] = NULL THEN NULL ELSE ny[w[n]]
      BY <2>3, <3>1 DEF IsWalk
    <3>4. w[n] # NULL => w[n] \in Met(w)
      BY <2>3, <3>1 DEF Met, Pointers
    <3>5. v[n + 1] = w[n + 1]
      BY <3>2, <3>3, <3>4
    <3> QED
      BY <3>5
  <2> QED
    BY <2>1, <2>2, <2>3
<1>2. 0 \in Good
  OBVIOUS
<1>3. Nat \subseteq Good
  <2> HIDE DEF Good
  <2> QED
    BY <1>1, <1>2, NumbersInduction
<1>4. \A i \in 1..NodeCount + 1 : v[i] = w[i]
  BY <1>3
<1> QED
  BY <1>4 DEF IsWalk

(* An append behind the last node met.                                     *)
LEMMA AppendedWalk ==
  ASSUME NEW h, NEW nx, NEW ny, NEW A, NEW w, NEW v, NEW y, NEW d,
         IsWalk(w, h, nx), IsWalk(v, h, ny), Linked(h, nx, A),
         y \in Met(w), nx[y] = NULL, d \in Nodes, d \notin Met(w), ny[y] = d, ny[d] = NULL,
         \A n \in Met(w) \ {y} : ny[n] = nx[n]
  PROVE  /\ Met(v) = Met(w) \cup {d}
         /\ \A i \in 1..NodeCount + 1 : w[i] # NULL => v[i] = w[i]
<1> USE CountIsNat
<1> DEFINE Good == {n \in Nat : n \in 1..NodeCount + 1 => (w[n] # NULL => v[n] = w[n])}
<1>1. ASSUME NEW n \in Nat, n \in Good
      PROVE  n + 1 \in Good
  <2>1. CASE n = 0
    BY <2>1 DEF IsWalk
  <2>2. CASE n \notin 0..NodeCount
    BY <2>2
  <2>3. CASE n \in 1..NodeCount
    <3> SUFFICES ASSUME w[n + 1] # NULL
                 PROVE  v[n + 1] = w[n + 1]
      OBVIOUS
    <3>1. w[n + 1] = IF w[n] = NULL THEN NULL ELSE nx[w[n]]
      BY <2>3 DEF IsWalk
    <3>2. w[n] # NULL /\ w[n + 1] = nx[w[n]]
      BY <3>1
    <3>3. v[n] = w[n] /\ w[n] \in Pointers
      BY <1>1, <2>3, <3>2 DEF IsWalk
    <3>4. w[n] \in Met(w) \ {y}
      BY <2>3, <3>2, <3>3 DEF Met, Pointers
    <3>5. v[n + 1] = ny[w[n]]
      BY <2>3, <3>2, <3>3 DEF IsWalk
    <3> QED
      BY <3>2, <3>4, <3>5
  <2> QED
    BY <2>1, <2>2, <2>3
<1>2. 0 \in Good
  OBVIOUS
<1>3. Nat \subseteq Good
  <2> HIDE DEF Good
  <2> QED
    BY <1>1, <1>2, NumbersInduction
<1>4. \A i \in 1..NodeCount + 1 : w[i] # NULL => v[i] = w[i]
  BY <1>3
<1>5. NULL \notin Nodes
  BY DEF Nodes, NULL
<1>6. Met(w) \subseteq Met(v)
  BY <1>4, <1>5 DEF Met
<1>7. d \in Met(v)
  <2>1. PICK i \in 1..NodeCount + 1 : w[i] = y
    BY DEF Met
  <2>2. y \in Nodes /\ v[i] = y
    BY <1>4, <1>5, <2>1 DEF Met
  <2>3. i \in 1..NodeCount
    <3>1. w[NodeCount + 1] = NULL
      BY WalkComesToAnEnd
    <3> QED
      BY <1>5, <2>1, <2>2, <3>1
  <2>4. v[i + 1] = d /\ i + 1 \in 1..NodeCount + 1
    BY <1>5, <2>2, <2>3 DEF IsWalk
  <2> QED
    BY <2>4 DEF Met
<1>8. Met(v) \subseteq Met(w) \cup {d}
  <2>1. h \in Met(w) \cup {NULL} /\ \A n \in Met(w) : nx[n] \in Met(w) \cup {NULL}
    BY MetIsClosed
  <2>2. \A n \in Met(w) \cup {d} : ny[n] \in (Met(w) \cup {d}) \cup {NULL}
    BY <2>1
  <2>3. h \in (Met(w) \cup {d}) \cup {NULL}
    BY <2>1
  <2> DEFINE S == Met(w) \cup {d}
  <2>4. \A n \in S : ny[n] \in S \cup {NULL}
    BY <2>2
  <2>5. h \in S \cup {NULL}
    BY <2>3
  <2>6. Met(v) \subseteq S
    <3> HIDE DEF S
    <3> QED
      BY <2>4, <2>5, MetIsLeast
  <2> QED
    BY <2>6
<1> QED
  BY <1>4, <1>6, <1>7, <1>8

(* A node is unlinked: what is linked stays linked ...                     *)
LEMMA LinkedWithout ==
  ASSUME NEW h, NEW nx, NEW A, NEW a \in A, NEW b \in A,
         Linked(h, nx, A), nx[a] = b
  PROVE  Linked(h, [nx EXCEPT ![a] = nx[b]], A \ {b})
<1> DEFINE ny == [nx EXCEPT ![a] = nx[b]]
           B == A \ {b}
<1>1. b # NULL /\ A \subseteq Nodes /\ nx \in [Nodes -> Pointers]
  BY DEF Linked, Nodes, NULL
<1>2. h # b /\ h \in B \cup {NULL}
  BY <1>1 DEF Linked
<1>3. \A n \in A : nx[n] = b => n = a
  BY <1>1 DEF Linked
<1>4. \A n \in A : ny[n] = IF n = a THEN nx[b] ELSE nx[n]
  BY <1>1
<1>5. \A n \in B : ny[n] \in B \cup {NULL}
  <2> TAKE n \in B
  <2>1. CASE n = a
    <3>1. nx[b] # b
      BY <1>3, <2>1
    <3> QED
      BY <1>4, <2>1, <3>1 DEF Linked
  <2>2. CASE n # a
    BY <1>3, <1>4, <2>2 DEF Linked
  <2> QED
    BY <2>1, <2>2
<1>6. \A n \in B : ny[n] # NULL => ny[n] # h
  BY <1>4 DEF Linked
<1>7. \A m, n \in B : ny[m] = ny[n] /\ ny[n] # NULL => m = n
  <2> TAKE m \in B, n \in B
  <2>1. m \in A /\ n \in A /\ m # b /\ n # b
    OBVIOUS
  <2>2. \A k \in A : nx[k] # NULL =>
          (nx[m] = nx[k] => m = k) /\ (nx[n] = nx[k] => n = k)
    BY DEF Linked
  <2> QED
    BY <1>4, <2>1, <2>2
<1>8. ny \in [Nodes -> Pointers]
  <2>1. nx[b] \in Pointers
    BY <1>1
  <2> QED
    BY <1>1, <2>1
<1> HIDE DEF ny
<1>9. B \subseteq Nodes
  BY <1>1
<1> HIDE DEF B
<1>10. Linked(h, ny, B)
  BY <1>2, <1>5, <1>6, <1>7, <1>8, <1>9 DEF Linked
<1> QED
  BY <1>10 DEF ny, B

(* ... and the walk meets the same nodes without it.                       *)
Unlinks(w, k, nx, ny) == ny = [nx EXCEPT ![w[k - 1]] = nx[w[k]]]

LEMMA UnlinkedWalk ==
  ASSUME NEW h, NEW nx, NEW ny, NEW A, NEW w, NEW v, NEW k \in 2..NodeCount,
         IsWalk(w, h, nx), IsWalk(v, h, ny), Linked(h, nx, A), w[k] # NULL,
         Unlinks(w, k, nx, ny)
  PROVE  /\ \A i \in 1..NodeCount : v[i] = IF i < k THEN w[i] ELSE w[i + 1]
         /\ Met(v) = Met(w) \ {w[k]}
<1> USE CountIsNat
<1> DEFINE Good == {n \in Nat : n \in 1..NodeCount =>
                                  v[n] = IF n < k THEN w[n] ELSE w[n + 1]}
<1>1. NULL \notin Nodes /\ nx \in [Nodes -> Pointers] /\ A \subseteq Nodes
  BY DEF Nodes, NULL, Linked
<1>2. PICK p \in 1..NodeCount : p = k - 1
  OBVIOUS
<1>3. p + 1 = k /\ p \in 1..NodeCount + 1 /\ k \in 1..NodeCount + 1 /\ p # k
  BY <1>2
<1>4. w[p] # NULL
  BY <1>3, NullStays
<1>5. w[p] \in A /\ w[k] \in A
  BY <1>3, <1>4, WalkStays
<1>6. nx[w[p]] = w[k]
  <2>1. w[p + 1] = IF w[p] = NULL THEN NULL ELSE nx[w[p]]
    BY DEF IsWalk
  <2> QED
    BY <1>3, <1>4, <2>1
<1>7. ny = [nx EXCEPT ![w[p]] = nx[w[k]]]
  BY <1>2 DEF Unlinks
<1>8. \A n \in Nodes : ny[n] = IF n = w[p] THEN nx[w[k]] ELSE nx[n]
  BY <1>1, <1>7
<1>9. \A i \in 1..NodeCount + 1 : i # p => w[i] # w[p]
  BY <1>3, <1>4, NoneTwice
<1>10. \A i \in 1..NodeCount + 1 : w[i] \in A \cup {NULL}
  BY WalkStays
<1>11. ASSUME NEW n \in Nat, n \in Good
       PROVE  n + 1 \in Good
  <2> SUFFICES ASSUME n + 1 \in 1..NodeCount
               PROVE  v[n + 1] = IF n + 1 < k THEN w[n + 1] ELSE w[(n + 1) + 1]
    OBVIOUS
  <2>1. CASE n = 0
    BY <2>1 DEF IsWalk
  <2>2. CASE n # 0
    <3>1. n \in 1..NodeCount /\ n + 1 \in 1..NodeCount
      BY <2>2
    <3>2. /\ v[n + 1] = IF v[n] = NULL THEN NULL ELSE ny[v[n]]
          /\ w[n + 1] = IF w[n] = NULL THEN NULL ELSE nx[w[n]]
      BY <3>1 DEF IsWalk
    <3>3. w[(n + 1) + 1] = IF w[n + 1] = NULL THEN NULL ELSE nx[w[n + 1]]
      BY <3>1 DEF IsWalk
    <3>4. v[n] = IF n < k THEN w[n] ELSE w[n + 1]
      BY <1>11, <3>1
    <3>5. CASE n < p
      <4>1. v[n] = w[n] /\ w[n] # w[p] /\ w[n] \in A \cup {NULL} /\ n + 1 < k
        BY <1>2, <1>9, <1>10, <3>1, <3>4, <3>5
      <4>2. v[n] # NULL => ny[v[n]] = nx[w[n]]
        BY <1>1, <1>8, <4>1
      <4> QED
        BY <3>2, <4>1, <4>2
    <3>6. CASE n = p
      <4>1. v[n] = w[p] /\ n + 1 = k
        BY <1>2, <3>4, <3>6
      <4>2. v[n + 1] = nx[w[k]]
        BY <1>1, <1>4, <1>5, <1>8, <3>2, <4>1
      <4>3. w[(n + 1) + 1] = nx[w[k]]
        BY <3>3, <4>1
      <4> QED
        BY <4>1, <4>2, <4>3
    <3>7. CASE n > p
      <4>1. v[n] = w[n + 1] /\ w[n + 1] # w[p] /\ w[n + 1] \in A \cup {NULL} /\ ~(n + 1 < k)
        BY <1>2, <1>9, <1>10, <3>1, <3>4, <3>7
      <4>2. v[n] # NULL => ny[v[n]] = nx[w[n + 1]]
        BY <1>1, <1>8, <4>1
      <4> QED
        BY <3>2, <3>3, <4>1, <4>2
    <3> QED
      BY <1>2, <3>5, <3>6, <3>7
  <2> QED
    BY <2>1, <2>2
<1>12. 0 \in Good
  OBVIOUS
<1>13. Nat \subseteq Good
  <2> HIDE DEF Good
  <2> QED
    BY <1>11, <1>12, NumbersInduction
<1>14. \A i \in 1..NodeCount : v[i] = IF i < k THEN w[i] ELSE w[i + 1]
  BY <1>13
<1>15. w[NodeCount + 1] = NULL
  BY WalkComesToAnEnd
<1>16. v[NodeCount + 1] = NULL
  <2>1. Linked(h, [nx EXCEPT ![w[p]] = nx[w[k]]], A \ {w[k]})
    BY <1>5, <1>6, LinkedWithout
  <2>2. Linked(h, ny, A \ {w[k]})
    BY <1>7, <2>1
  <2> QED
    BY <2>2, WalkComesToAnEnd
<1>17. Met(v) \subseteq Met(w) \ {w[k]}
  <2> SUFFICES ASSUME NEW i \in 1..NodeCount + 1, v[i] \in Nodes
               PROVE  \E j \in 1..NodeCount + 1 : w[j] = v[i] /\ w[j] # w[k]
    BY DEF Met
  <2>1. i \in 1..NodeCount
    BY <1>1, <1>16
  <2>2. \A j \in 1..NodeCount + 1 : w[j] # NULL /\ j # k => w[j] # w[k]
    BY <1>3, NoneTwice
  <2>3. CASE i < k
    BY <1>1, <1>14, <2>1, <2>2, <2>3
  <2>4. CASE ~(i < k)
    <3>1. i + 1 \in 1..NodeCount + 1 /\ i + 1 # k /\ w[i + 1] = v[i]
      BY <1>14, <2>1, <2>4
    <3> QED
      BY <1>1, <2>2, <3>1
  <2> QED
    BY <2>3, <2>4
<1>18. Met(w) \ {w[k]} \subseteq Met(v)
  <2> SUFFICES ASSUME NEW j \in 1..NodeCount + 1, w[j] \in Nodes, w[j] # w[k]
               PROVE  \E i \in 1..NodeCount + 1 : v[i] = w[j]
    BY DEF Met
  <2>1. CASE j < k
    <3>1. j \in 1..NodeCount /\ j \in 1..NodeCount + 1
      BY <2>1
    <3> QED
      BY <1>14, <2>1, <3>1
  <2>2. CASE j > k
    <3>1. PICK i \in 1..NodeCount : i = j - 1
      BY <2>2
    <3>2. i + 1 = j /\ ~(i < k) /\ i \in 1..NodeCount + 1
      BY <2>2, <3>1
    <3> QED
      BY <1>14, <3>2
  <2> QED
    BY <2>1, <2>2
<1> QED
  BY <1>14, <1>17, <1>18

----------------------------------------------------------------------------
(* The files that a start of the server collects.                          *)

Keep(D, files, f) == IF f \in D /\ ~Contains(files, f) THEN Append(files, f) ELSE files

\* One more unfolding of the fold that keeps files.
Sift(g, S, D, file) ==
  [T \in SUBSET S |->
     IF T = {} THEN <<>> ELSE Keep(D, g[T \ {Max(T)}], file[Max(T)])]

LEMMA FoldExists ==
  ASSUME NEW S, IsFiniteSet(S), \A T \in SUBSET S : T # {} => Max(T) \in T,
         NEW D, NEW file
  PROVE  \E g : g = Sift(g, S, D, file)
<1> DEFINE Sized(n) == {T \in SUBSET S : Cardinality(T) <= n}
           After(g, T) == IF T = {} THEN <<>> ELSE Keep(D, g[T \ {Max(T)}], file[Max(T)])
           Good == {n \in Nat : \E g : g = [T \in Sized(n) |-> After(g, T)]}
<1>1. \A T \in SUBSET S : IsFiniteSet(T) /\ Cardinality(T) \in Nat
  BY FS_Subset, FS_CardinalityType
<1>2. ASSUME NEW T \in SUBSET S, T # {}
      PROVE  T \ {Max(T)} \in SUBSET S /\ Cardinality(T \ {Max(T)}) = Cardinality(T) - 1
  BY <1>1, <1>2, FS_RemoveElement
<1>3. 0 \in Good
  <2> DEFINE g == [T \in Sized(0) |-> <<>>]
  <2>1. \A T \in Sized(0) : T = {}
    BY <1>1, FS_EmptySet
  <2>2. \A T \in Sized(0) : After(g, T) = <<>>
    BY <2>1
  <2>3. g = [T \in Sized(0) |-> After(g, T)]
    <3> HIDE DEF After, Sized
    <3>1. g = [T \in Sized(0) |-> <<>>]
      OBVIOUS
    <3> HIDE DEF g
    <3> QED
      BY <2>2, <3>1
  <2> QED
    BY <2>3
<1>4. ASSUME NEW n \in Nat, n \in Good
      PROVE  n + 1 \in Good
  <2>1. PICK g : g = [T \in Sized(n) |-> After(g, T)]
    BY <1>4
  <2> DEFINE h == [T \in Sized(n + 1) |-> After(g, T)]
  <2>2. \A T \in Sized(n + 1) : T # {} => T \ {Max(T)} \in Sized(n)
    BY <1>1, <1>2
  <2>3. \A T \in Sized(n) : T \in Sized(n + 1) /\ h[T] = g[T]
    <3>1. \A T \in Sized(n) : T \in Sized(n + 1)
      BY <1>1
    <3>2. \A T \in Sized(n) : g[T] = After(g, T)
      <4> HIDE DEF Sized, After
      <4> QED
        BY <2>1
    <3> HIDE DEF Sized, After
    <3> QED
      BY <3>1, <3>2
  <2>4. \A T \in Sized(n + 1) : After(h, T) = After(g, T)
    <3> HIDE DEF h, Sized
    <3> QED
      BY <2>2, <2>3
  <2>5. h = [T \in Sized(n + 1) |-> After(h, T)]
    <3>1. h = [T \in Sized(n + 1) |-> After(g, T)]
      OBVIOUS
    <3> HIDE DEF h, After, Sized
    <3> QED
      BY <2>4, <3>1
  <2> HIDE DEF h, After, Sized
  <2> QED
    BY <2>5
<1>5. Nat \subseteq Good
  <2> HIDE DEF Good
  <2> QED
    BY <1>3, <1>4, NumbersInduction
<1>6. PICK n \in Nat : n = Cardinality(S)
  BY <1>1
<1>7. Sized(n) = SUBSET S
  BY <1>1, <1>6, FS_Subset
<1>8. PICK g : g = [T \in Sized(n) |-> After(g, T)]
  BY <1>5
<1>9. g = [T \in SUBSET S |-> After(g, T)]
  <2> HIDE DEF After, Sized
  <2> QED
    BY <1>7, <1>8
<1> QED
  BY <1>9 DEF Sift

\* What is collected from the first k entries of file.
Gathered(files, D, file, k) ==
  /\ files \in Seq(Paths)
  /\ Len(files) <= k
  /\ \A i, j \in 1..Len(files) : files[i] = files[j] => i = j
  /\ \A i \in 1..Len(files) : files[i] \in D
  /\ \A j \in 1..k : file[j] \in D => Contains(files, file[j])

LEMMA KeepGathers ==
  ASSUME NEW files, NEW D, NEW file, NEW k \in Nat, file[k + 1] \in Paths,
         Gathered(files, D, file, k)
  PROVE  Gathered(Keep(D, files, file[k + 1]), D, file, k + 1)
<1> DEFINE f == file[k + 1]
<1>1. PICK n \in Nat : n = Len(files)
  BY DEF Gathered
<1>2. CASE ~(f \in D /\ ~Contains(files, f))
  <2>1. Keep(D, files, f) = files
    BY <1>2 DEF Keep
  <2>2. Gathered(files, D, file, k + 1)
    <3>1. n <= k + 1
      BY <1>1 DEF Gathered
    <3>2. \A j \in 1..k + 1 : file[j] \in D => Contains(files, file[j])
      BY <1>2 DEF Gathered
    <3> QED
      BY <1>1, <3>1, <3>2 DEF Gathered
  <2> QED
    BY <2>1, <2>2
<1>3. CASE f \in D /\ ~Contains(files, f)
  <2> DEFINE more == Append(files, f)
  <2>1. Keep(D, files, f) = more
    BY <1>3 DEF Keep
  <2>2. /\ more \in Seq(Paths) /\ Len(more) = n + 1
        /\ \A i \in 1..n : more[i] = files[i]
        /\ more[n + 1] = f
    BY <1>1, AppendProperties DEF Gathered
  <2>3. \A i \in 1..n : files[i] # f
    BY <1>1, <1>3 DEF Contains
  <2> HIDE DEF more
  <2>4. n + 1 <= k + 1
    BY <1>1 DEF Gathered
  <2>5. \A i, j \in 1..n + 1 : more[i] = more[j] => i = j
    <3> TAKE i \in 1..n + 1, j \in 1..n + 1
    <3>1. \A a, b \in 1..n : files[a] = files[b] => a = b
      BY <1>1 DEF Gathered
    <3> QED
      BY <2>2, <2>3, <3>1
  <2>6. \A i \in 1..n + 1 : more[i] \in D
    BY <1>1, <1>3, <2>2 DEF Gathered
  <2>7. \A j \in 1..k + 1 : file[j] \in D => \E i \in 1..n + 1 : more[i] = file[j]
    <3> TAKE j \in 1..k + 1
    <3>1. CASE j = k + 1
      BY <2>2, <3>1
    <3>2. CASE j # k + 1
      <4>1. j \in 1..k
        BY <3>2
      <4>2. file[j] \in D => \E i \in 1..n : files[i] = file[j]
        BY <1>1, <4>1 DEF Gathered, Contains
      <4> QED
        BY <2>2, <4>2
    <3> QED
      BY <3>1, <3>2
  <2>8. Gathered(more, D, file, k + 1)
    BY <2>2, <2>4, <2>5, <2>6, <2>7 DEF Gathered, Contains
  <2> QED
    BY <2>1, <2>8
<1> QED
  BY <1>2, <1>3

LEMMA MaxOfInterval ==
  ASSUME NEW k \in Nat
  PROVE  /\ 1..k + 1 # {}
         /\ Max(1..k + 1) = k + 1
         /\ (1..k + 1) \ {Max(1..k + 1)} = 1..k
<1>1. k + 1 \in 1..k + 1 /\ \A y \in 1..k + 1 : k + 1 >= y
  OBVIOUS
<1>2. \A x \in 1..k + 1 : (\A y \in 1..k + 1 : x >= y) => x = k + 1
  BY <1>1
<1>3. Max(1..k + 1) = k + 1
  BY <1>1, <1>2 DEF Max
<1> QED
  BY <1>1, <1>3

LEMMA CollectedIsGathered == Gathered(Collected, disk, PathsFile, Len(PathsFile))
<1> DEFINE S == DOMAIN PathsFile
           iter == CHOOSE g : g = Sift(g, S, disk, PathsFile)
<1>1. PICK n \in Nat : n = Len(PathsFile) /\ S = 1..n
  BY PathsFileAssumption
<1>2. \A T \in SUBSET S : T # {} => Max(T) \in T
  <2> SUFFICES ASSUME NEW T \in SUBSET (1..n), T # {}
               PROVE  Max(T) \in T
    BY <1>1
  <2>1. \E x \in T : \A y \in T : x >= y
    <3> DEFINE U == {n - y : y \in T}
    <3>0. \A y \in T : n - y \in Nat
      <4>1. \A y \in T : y \in 1..n
        OBVIOUS
      <4>2. \A y \in 1..n : n - y \in Nat
        OBVIOUS
      <4> QED
        BY <4>1, <4>2
    <3>1. U \subseteq Nat /\ U # {}
      BY <3>0
    <3> HIDE DEF U
    <3>2. PICK u \in U : \A v \in U : u <= v
      BY <3>1, LeastNumber
    <3>3. PICK x \in T : u = n - x
      BY DEF U
    <3>4. \A y \in T : n - x <= n - y
      BY <3>2, <3>3 DEF U
    <3> QED
      BY <3>4
  <2> QED
    BY <2>1 DEF Max
<1>3. Collected = iter[S]
  BY DEF Collected, FoldLeft, MapThenFoldSet, Keep, Sift
<1>4. \E g : g = Sift(g, S, disk, PathsFile)
  <2>1. IsFiniteSet(S)
    BY <1>1, FS_Interval
  <2> HIDE DEF S
  <2> QED
    BY <1>2, <2>1, FoldExists
<1>5. iter = Sift(iter, S, disk, PathsFile)
  BY <1>4
<1> HIDE DEF iter
<1>6. \A T \in SUBSET S :
        iter[T] = IF T = {} THEN <<>>
                            ELSE Keep(disk, iter[T \ {Max(T)}], PathsFile[Max(T)])
  BY <1>5 DEF Sift
<1> DEFINE Good == {k \in Nat : k <= n => Gathered(iter[1..k], disk, PathsFile, k)}
<1>7. 0 \in Good
  <2>1. iter[{}] = <<>>
    BY <1>6
  <2>2. 1..0 = {}
    OBVIOUS
  <2>3. <<>> \in Seq(Paths) /\ Len(<<>>) = 0
    OBVIOUS
  <2>4. Gathered(<<>>, disk, PathsFile, 0)
    BY <2>2, <2>3 DEF Gathered
  <2> QED
    BY <2>1, <2>2, <2>4
<1>8. ASSUME NEW k \in Nat, k \in Good
      PROVE  k + 1 \in Good
  <2> SUFFICES ASSUME k + 1 <= n
               PROVE  Gathered(iter[1..k + 1], disk, PathsFile, k + 1)
    OBVIOUS
  <2>1. Gathered(iter[1..k], disk, PathsFile, k)
    BY <1>8
  <2>2. iter[1..k + 1] = Keep(disk, iter[1..k], PathsFile[k + 1])
    <3>1. 1..k + 1 \in SUBSET S
      BY <1>1
    <3> QED
      BY <1>6, <3>1, MaxOfInterval
  <2>3. PathsFile[k + 1] \in Paths
    BY <1>1, PathsFileAssumption
  <2> QED
    BY <2>1, <2>2, <2>3, KeepGathers
<1>9. Nat \subseteq Good
  <2> HIDE DEF Good
  <2> QED
    BY <1>7, <1>8, NumbersInduction
<1>10. Gathered(iter[1..n], disk, PathsFile, n)
  BY <1>9
<1> QED
  BY <1>1, <1>3, <1>10

\* The list as a start of the server leaves it: a node for each file.
Started(A, fp, nx, h, last, D) ==
  \E files \in Seq(Paths), n \in 0..NodeCount :
    /\ n = Len(files)
    /\ Gathered(files, D, PathsFile, Len(PathsFile))
    /\ A = 1..n
    /\ fp = [i \in Nodes |-> IF i <= n THEN files[i] ELSE "unset"]
    /\ nx = [i \in Nodes |-> IF i < n THEN i + 1 ELSE NULL]
    /\ h = IF n = 0 THEN NULL ELSE 1
    /\ last = n

LEMMA StartIs ==
  ASSUME NEW s, s = Start(Collected)
  PROVE  Started(s.allocated, s.filepath, s.next, s.fileHead, s.fileTail, disk)
<1>1. Gathered(Collected, disk, PathsFile, Len(PathsFile))
  BY CollectedIsGathered
<1>2. PICK files \in Seq(Paths) : files = Collected
  BY <1>1 DEF Gathered
<1>3. PICK n \in Nat : n = Len(files)
  OBVIOUS
<1>4. n \in 0..NodeCount
  <2>1. n <= Len(PathsFile) /\ Len(PathsFile) \in Nat
    BY <1>1, <1>2, <1>3, PathsFileAssumption DEF Gathered
  <2> QED
    BY <2>1, BoundsAssumption
<1>5. s = Start(files)
  BY <1>2
<1>6. /\ s.allocated = 1..n
      /\ s.filepath = [i \in Nodes |-> IF i <= n THEN files[i] ELSE "unset"]
      /\ s.next = [i \in Nodes |-> IF i < n THEN i + 1 ELSE NULL]
      /\ s.fileHead = IF n = 0 THEN NULL ELSE 1
      /\ s.fileTail = n
  BY <1>3, <1>5 DEF Start
<1> QED
  BY <1>1, <1>2, <1>3, <1>4, <1>6 DEF Started

LEMMA StartLinks ==
  ASSUME NEW A, NEW fp, NEW nx, NEW h, NEW last, NEW D, Started(A, fp, nx, h, last, D)
  PROVE  /\ Linked(h, nx, A)
         /\ A \subseteq Nodes
         /\ h \in Pointers /\ last \in Pointers
         /\ fp \in [Nodes -> Paths \cup {"unset"}]
         /\ \A i \in A : fp[i] \in D
<1> USE CountIsNat
<1>1. PICK files \in Seq(Paths), n \in 0..NodeCount :
        /\ n = Len(files)
        /\ Gathered(files, D, PathsFile, Len(PathsFile))
        /\ A = 1..n
        /\ fp = [i \in Nodes |-> IF i <= n THEN files[i] ELSE "unset"]
        /\ nx = [i \in Nodes |-> IF i < n THEN i + 1 ELSE NULL]
        /\ h = IF n = 0 THEN NULL ELSE 1
        /\ last = n
  BY DEF Started
<1>2. A \subseteq Nodes /\ h \in A \cup {NULL} /\ h \in Pointers /\ last \in Pointers
  BY <1>1 DEF Nodes, NULL, Pointers
<1>3. nx \in [Nodes -> Pointers]
  <2>1. \A i \in Nodes : (IF i < n THEN i + 1 ELSE NULL) \in Pointers
    BY DEF Nodes, Pointers, NULL
  <2> QED
    BY <1>1, <2>1
<1>4. \A i \in A : nx[i] = (IF i < n THEN i + 1 ELSE NULL) /\ i \in 1..n
  BY <1>1, <1>2
<1>5. \A i \in A : nx[i] \in A \cup {NULL}
  BY <1>1, <1>4
<1>6. \A i \in A : nx[i] # NULL => nx[i] # h
  BY <1>1, <1>4 DEF NULL
<1>7. \A i, j \in A : nx[i] = nx[j] /\ nx[j] # NULL => i = j
  BY <1>4 DEF NULL
<1>8. fp \in [Nodes -> Paths \cup {"unset"}]
  <2>1. \A i \in Nodes : i <= n => files[i] \in Paths
    BY <1>1 DEF Nodes
  <2>2. \A i \in Nodes : (IF i <= n THEN files[i] ELSE "unset") \in Paths \cup {"unset"}
    BY <2>1
  <2> QED
    BY <1>1, <2>2
<1>9. \A i \in A : fp[i] \in D
  <2> TAKE i \in A
  <2>1. i \in 1..n /\ i \in Nodes /\ i <= n
    BY <1>1, <1>2
  <2>2. fp[i] = files[i]
    BY <1>1, <2>1
  <2> QED
    BY <1>1, <2>1, <2>2 DEF Gathered
<1> QED
  BY <1>2, <1>3, <1>5, <1>6, <1>7, <1>8, <1>9 DEF Linked

(* All that is allocated is met, and the last node is.                     *)
LEMMA StartMeets ==
  ASSUME NEW A, NEW fp, NEW nx, NEW h, NEW last, NEW D, Started(A, fp, nx, h, last, D),
         NEW w, IsWalk(w, h, nx)
  PROVE  /\ Met(w) = A
         /\ h # NULL => last \in Met(w) /\ nx[last] = NULL
         /\ h = NULL => A = {}
<1> USE CountIsNat
<1>1. PICK files \in Seq(Paths), n \in 0..NodeCount :
        /\ n = Len(files)
        /\ A = 1..n
        /\ nx = [i \in Nodes |-> IF i < n THEN i + 1 ELSE NULL]
        /\ h = IF n = 0 THEN NULL ELSE 1
        /\ last = n
  BY DEF Started
<1>2. Met(w) \subseteq A
  BY StartLinks, MetIsClosed
<1> DEFINE Good == {k \in Nat : k \in 1..n => w[k] = k}
<1>3. ASSUME NEW k \in Nat, k \in Good
      PROVE  k + 1 \in Good
  <2>1. CASE k = 0
    BY <1>1, <2>1 DEF IsWalk, NULL
  <2>2. CASE k # 0
    <3> SUFFICES ASSUME k + 1 \in 1..n
                 PROVE  w[k + 1] = k + 1
      OBVIOUS
    <3>1. k \in Nodes /\ k \in 1..NodeCount /\ k < n /\ k # NULL
      BY <2>2 DEF Nodes, NULL
    <3>2. w[k] = k
      BY <1>3, <3>1
    <3>3. nx[k] = k + 1
      BY <1>1, <3>1
    <3>4. w[k + 1] = IF w[k] = NULL THEN NULL ELSE nx[w[k]]
      BY <3>1 DEF IsWalk
    <3> QED
      BY <3>1, <3>2, <3>3, <3>4
  <2> QED
    BY <2>1, <2>2
<1>4. 0 \in Good
  OBVIOUS
<1>5. Nat \subseteq Good
  <2> HIDE DEF Good
  <2> QED
    BY <1>3, <1>4, NumbersInduction
<1>6. \A k \in 1..n : w[k] = k
  BY <1>5
<1>7. A \subseteq Met(w)
  <2>1. \A k \in 1..n : k \in 1..NodeCount + 1 /\ k \in Nodes
    BY DEF Nodes
  <2> QED
    BY <1>1, <1>6, <2>1 DEF Met
<1>8. h # NULL => last \in A /\ nx[last] = NULL
  BY <1>1 DEF Nodes
<1>9. h = NULL => A = {}
  BY <1>1 DEF NULL
<1> QED
  BY <1>2, <1>7, <1>8, <1>9

(* Each file of the disk has one node, and no other path has one.          *)
LEMMA StartAccounts ==
  ASSUME NEW A, NEW fp, NEW nx, NEW h, NEW last, NEW D, Started(A, fp, nx, h, last, D),
         D \subseteq ToSet(PathsFile), NEW p \in Paths
  PROVE  Cardinality({i \in A : fp[i] = p}) = IF p \in D THEN 1 ELSE 0
<1> USE CountIsNat
<1>1. PICK files \in Seq(Paths), n \in 0..NodeCount :
        /\ n = Len(files)
        /\ Gathered(files, D, PathsFile, Len(PathsFile))
        /\ A = 1..n
        /\ fp = [i \in Nodes |-> IF i <= n THEN files[i] ELSE "unset"]
  BY DEF Started
<1>2. \A i \in 1..n : fp[i] = files[i]
  BY <1>1 DEF Nodes
<1> DEFINE Holding == {i \in A : fp[i] = p}
<1>3. CASE p \in D
  <2>1. Contains(files, p)
    <3>1. PICK j \in 1..Len(PathsFile) : PathsFile[j] = p
      BY <1>3, PathsFileAssumption DEF ToSet
    <3> QED
      BY <1>1, <1>3, <3>1 DEF Gathered
  <2>2. PICK i \in 1..n : files[i] = p
    BY <1>1, <2>1 DEF Contains
  <2>3. \A j \in 1..n : files[j] = p => j = i
    BY <1>1, <2>2 DEF Gathered
  <2>4. Holding = {i}
    BY <1>1, <1>2, <2>2, <2>3
  <2> QED
    BY <1>3, <2>4, FS_Singleton
<1>4. CASE p \notin D
  <2>1. Holding = {}
    BY <1>1, <1>2, <1>4 DEF Gathered
  <2> QED
    BY <1>4, <2>1, FS_EmptySet
<1> QED
  BY <1>3, <1>4

LEMMA InitIsStart ==
  Init => Started(allocated, filepath, next, fileHead, fileTail, disk)
<1> SUFFICES ASSUME Init
             PROVE  Started(allocated, filepath, next, fileHead, fileTail, disk)
  OBVIOUS
<1>1. PICK s : s = Start(Collected)
  OBVIOUS
<1>2. /\ allocated = s.allocated /\ filepath = s.filepath /\ next = s.next
      /\ fileHead = s.fileHead /\ fileTail = s.fileTail
  BY <1>1 DEF Init
<1> QED
  BY <1>1, <1>2, StartIs

LEMMA RestartIsStart ==
  Restart => Started(allocated', filepath', next', fileHead', fileTail', disk')
<1> SUFFICES ASSUME Restart
             PROVE  Started(allocated', filepath', next', fileHead', fileTail', disk')
  OBVIOUS
<1>1. PICK s : s = Start(Collected)
  OBVIOUS
<1>2. /\ allocated' = s.allocated /\ filepath' = s.filepath /\ next' = s.next
      /\ fileHead' = s.fileHead /\ fileTail' = s.fileTail /\ disk' = disk
  BY <1>1 DEF Restart
<1> QED
  BY <1>1, <1>2, StartIs

----------------------------------------------------------------------------
(* Type correctness, and what a thread does at each step.                  *)

LEMMA RestIsStutter == Rest => UNCHANGED vars
BY DEF Rest

LEMMA PlacesAre ==
  ASSUME TypeOK, NEW p
  PROVE  /\ Places(p) \subseteq 1..NodeCount
         /\ \A i \in Places(p) : walk[i] \in Nodes /\ filepath[walk[i]] = p
<1> USE CountIsNat
<1>1. \A i \in 1..NodeCount : walk[i] \in Pointers
  BY WalkIs DEF IsWalk
<1> QED
  BY <1>1 DEF Places, Pointers

LEMMA LookupIs ==
  ASSUME TypeOK, NEW p
  PROVE  /\ Lookup(p) \in Pointers
         /\ Lookup(p) # NULL => Lookup(p) \in Reach /\ filepath[Lookup(p)] = p
<1> USE CountIsNat
<1>1. CASE Places(p) = {}
  BY <1>1 DEF Lookup, Pointers
<1>2. CASE Places(p) # {}
  <2>1. Places(p) \subseteq Nat
    BY PlacesAre
  <2>2. First(Places(p)) \in Places(p)
    BY <1>2, <2>1, LeastNumber
  <2>3. Lookup(p) = walk[First(Places(p))]
    BY <1>2 DEF Lookup
  <2>4. Lookup(p) \in Nodes /\ filepath[Lookup(p)] = p
    BY <2>2, <2>3, PlacesAre
  <2>5. First(Places(p)) \in 1..NodeCount + 1
    BY <2>2, PlacesAre
  <2> QED
    BY <2>3, <2>4, <2>5 DEF Reach, Pointers
<1> QED
  BY <1>1, <1>2

(* The node that removeFile frees, and the one before it.                  *)
LEMMA FoundIs ==
  ASSUME TypeOK, NEW p, Places(p) \ {1} # {}
  PROVE  /\ First(Places(p) \ {1}) \in Places(p) /\ First(Places(p) \ {1}) \in 2..NodeCount
         /\ \A j \in Places(p) \ {1} : First(Places(p) \ {1}) <= j
         /\ walk[First(Places(p) \ {1})] \in Nodes
<1> DEFINE S == Places(p) \ {1}
<1>1. S \subseteq Nat /\ S \subseteq 2..NodeCount
  BY CountIsNat, PlacesAre
<1>2. First(S) \in S /\ \A j \in S : First(S) <= j
  <2>1. S # {}
    OBVIOUS
  <2> HIDE DEF S
  <2> QED
    BY <1>1, <2>1, LeastNumber
<1>3. walk[First(S)] \in Nodes
  BY <1>2, PlacesAre
<1> QED
  BY <1>1, <1>2, <1>3

LEMMA TypeInit == Init => TypeOK
<1> SUFFICES ASSUME Init
             PROVE  TypeOK
  OBVIOUS
<1>1. Started(allocated, filepath, next, fileHead, fileTail, disk)
  BY InitIsStart
<1>2. /\ allocated \subseteq Nodes /\ fileHead \in Pointers /\ fileTail \in Pointers
      /\ filepath \in [Nodes -> Paths \cup {"unset"}] /\ next \in [Nodes -> Pointers]
  BY <1>1, StartLinks DEF Linked
<1>3. disk \subseteq Paths
  BY PathsFileAssumption DEF Init, ToSet
<1>4. request \in [Threads -> [op : Ops, path : Paths]]
  BY WorkloadsAssumption DEF Init
<1>5. /\ pc \in [Threads -> Steps] /\ answer \in [Threads -> Codes] /\ stale \subseteq Threads
      /\ {node, ptr2, after} \subseteq [Threads -> Pointers]
  BY DEF Init, Steps, Codes, Pointers
<1>6. /\ read_write \in [Nodes -> {-1, 0, 1}] /\ reader_count \in [Nodes -> Int]
      /\ crashed \in BOOLEAN /\ restarts \in 0..MaxRestarts /\ faults \subseteq Faults
  <2>1. read_write = [n \in Nodes |-> -1] /\ reader_count = [n \in Nodes |-> 0]
    BY DEF Init
  <2>2. read_write \in [Nodes -> {-1, 0, 1}] /\ reader_count \in [Nodes -> Int]
    BY <2>1
  <2>3. 0 \in 0..MaxRestarts
    BY BoundsAssumption
  <2> QED
    BY <2>2, <2>3 DEF Init
<1> QED
  BY <1>2, <1>3, <1>4, <1>5, <1>6 DEF TypeOK

LEMMA TypeStep == TypeOK /\ [Next]_vars => TypeOK'
<1> SUFFICES ASSUME TypeOK, [Next]_vars
             PROVE  TypeOK'
  OBVIOUS
<1> USE DEF TypeOK, fields, list, local, At, Goto, Respond, Steps, Codes
<1>0. \A t \in Threads : /\ request[t] \in [op : Ops, path : Paths] /\ Path(t) \in Paths
                         /\ node[t] \in Pointers /\ ptr2[t] \in Pointers
                         /\ after[t] \in Pointers
  BY DEF Path
<1>1. ASSUME NEW t \in Threads, CheckCreate(t) PROVE TypeOK'
  BY <1>1 DEF CheckCreate
<1>2. ASSUME NEW t \in Threads, OpenNewFile(t) PROVE TypeOK'
  <2>1. disk' \subseteq Paths
    BY <1>0, <1>2 DEF OpenNewFile
  <2>2. faults' \subseteq Faults
    BY <1>2 DEF OpenNewFile, Faults
  <2> QED
    BY <1>2, <2>1, <2>2 DEF OpenNewFile
<1>3. ASSUME NEW t \in Threads, Allocate(t) PROVE TypeOK'
  <2>1. PICK n \in Available :
          /\ allocated' = allocated \cup {n}
          /\ node' = [node EXCEPT ![t] = n]
          /\ filepath' = [filepath EXCEPT ![n] = Path(t)]
          /\ next' = [next EXCEPT ![n] = NULL]
          /\ read_write' = [read_write EXCEPT ![n] = -1]
          /\ reader_count' = [reader_count EXCEPT ![n] = 0]
    BY <1>3 DEF Allocate
  <2>2. n \in Nodes
    BY DEF Available
  <2>3. NULL \in Pointers /\ n \in Pointers
    BY <2>2 DEF Pointers
  <2>4. /\ allocated' \subseteq Nodes /\ node' \in [Threads -> Pointers]
        /\ filepath' \in [Nodes -> Paths \cup {"unset"}] /\ next' \in [Nodes -> Pointers]
    BY <1>0, <2>1, <2>2, <2>3
  <2>5. read_write' \in [Nodes -> {-1, 0, 1}] /\ reader_count' \in [Nodes -> Int]
    <3>1. read_write \in [Nodes -> {-1, 0, 1}] /\ -1 \in {-1, 0, 1}
      OBVIOUS
    <3>2. read_write' \in [Nodes -> {-1, 0, 1}]
      BY <2>1, <3>1, Zenon
    <3>3. reader_count \in [Nodes -> Int] /\ 0 \in Int
      OBVIOUS
    <3>4. reader_count' \in [Nodes -> Int]
      BY <2>1, <3>3, Zenon
    <3> QED
      BY <3>2, <3>4
  <2> QED
    BY <1>3, <2>4, <2>5 DEF Allocate
<1>4. ASSUME NEW t \in Threads, CheckHead(t) PROVE TypeOK'
  <2>1. faults' \subseteq Faults
    BY <1>4 DEF CheckHead, Faults
  <2> QED
    BY <1>4, <2>1 DEF CheckHead
<1>5. ASSUME NEW t \in Threads, SetHead(t) PROVE TypeOK'
  BY <1>0, <1>5 DEF SetHead
<1>6. ASSUME NEW t \in Threads, LinkTail(t) PROVE TypeOK'
  <2>1. next' \in [Nodes -> Pointers]
    BY <1>0, <1>6 DEF LinkTail
  <2>2. stale' \subseteq Threads
    BY <1>6 DEF LinkTail, Removing
  <2> QED
    BY <1>6, <2>1, <2>2 DEF LinkTail
<1>7. ASSUME NEW t \in Threads, SetTail(t) PROVE TypeOK'
  BY <1>0, <1>7 DEF SetTail
<1>8. ASSUME NEW t \in Threads, CheckDelete(t) PROVE TypeOK'
  BY <1>8 DEF CheckDelete
<1>9. ASSUME NEW t \in Threads, RemoveFromDisk(t) PROVE TypeOK'
  BY <1>9 DEF RemoveFromDisk
<1>10. ASSUME NEW t \in Threads, removeFile(t) PROVE TypeOK'
  <2> DEFINE found == Places(Path(t)) \ {1}
  <2>1. CASE found = {}
    <3>1. faults' = faults \cup {"unlisted"} /\ UNCHANGED <<node, ptr2, after>>
      BY <1>10, <2>1 DEF removeFile
    <3>2. faults' \subseteq Faults
      BY <3>1 DEF Faults
    <3> QED
      BY <1>10, <3>1, <3>2 DEF removeFile
  <2>2. CASE found # {}
    <3>1. PICK i \in 2..NodeCount : i = First(found)
      BY <2>2, FoundIs
    <3>2. walk[i] \in Nodes /\ i - 1 \in 1..NodeCount + 1 /\ walk[i - 1] \in Pointers
      <4>1. i - 1 \in 1..NodeCount + 1
        BY <3>1, CountIsNat
      <4>2. walk[i] \in Nodes
        BY <2>2, <3>1, FoundIs
      <4> QED
        BY <4>1, <4>2, WalkIs DEF IsWalk
    <3>3. next[walk[i]] \in Pointers /\ walk[i] \in Pointers
      BY <3>2 DEF Pointers
    <3>4. /\ node' = [node EXCEPT ![t] = walk[i - 1]]
          /\ ptr2' = [ptr2 EXCEPT ![t] = walk[i]]
          /\ after' = [after EXCEPT ![t] = next[walk[i]]]
          /\ pc' = [pc EXCEPT ![t] = "unlink"]
          /\ UNCHANGED <<answer, faults>>
      BY <1>10, <2>2, <3>1 DEF removeFile
    <3>5. {node', ptr2', after'} \subseteq [Threads -> Pointers]
      BY <3>2, <3>3, <3>4
    <3> HIDE DEF found
    <3> QED
      BY <1>10, <3>4, <3>5 DEF removeFile
  <2> QED
    BY <2>1, <2>2
<1>11. ASSUME NEW t \in Threads, FindFile(t) PROVE TypeOK'
  <2>1. Lookup(Path(t)) \in Pointers
    BY LookupIs
  <2>2. {node', ptr2', after'} \subseteq [Threads -> Pointers]
    BY <1>11, <2>1 DEF FindFile
  <2> QED
    BY <1>11, <2>2 DEF FindFile
<1>12. ASSUME NEW t \in Threads, Admit(t) PROVE TypeOK'
  <2>1. read_write' \in [Nodes -> {-1, 0, 1}]
    BY <1>12 DEF Admit
  <2>2. reader_count' \in [Nodes -> Int]
    BY <1>12 DEF Admit
  <2>3. faults' \subseteq Faults
    BY <1>12 DEF Admit, Faults
  <2>4. pc' \in [Threads -> Steps] /\ answer' \in [Threads -> Codes]
    BY <1>12 DEF Admit
  <2> QED
    BY <1>12, <2>1, <2>2, <2>3, <2>4 DEF Admit
<1>13. ASSUME NEW t \in Threads, LoseReply(t) PROVE TypeOK'
  BY <1>13 DEF LoseReply
<1>14. ASSUME NEW t \in Threads, UploadFile(t) PROVE TypeOK'
  <2>1. faults' \subseteq Faults
    BY <1>14 DEF UploadFile, Faults
  <2> QED
    BY <1>14, <2>1 DEF UploadFile
<1>15. ASSUME NEW t \in Threads, DownloadFile(t) PROVE TypeOK'
  <2>1. disk' \subseteq Paths
    BY <1>0, <1>15 DEF DownloadFile
  <2>2. faults' \subseteq Faults
    BY <1>15 DEF DownloadFile, Faults
  <2> QED
    BY <1>15, <2>1, <2>2 DEF DownloadFile
<1>16. ASSUME NEW t \in Threads, Release(t) PROVE TypeOK'
  <2> DEFINE n == Lookup(Path(t))
  <2>1. n \in Pointers
    BY LookupIs
  <2> HIDE DEF n
  <2>2. \/ UNCHANGED <<read_write, reader_count>>
        \/ n # NULL /\ decreaseReaderCount(n)
        \/ openWriteLock(n)
    BY <1>16 DEF Release, n
  <2>3. read_write' \in [Nodes -> {-1, 0, 1}]
    BY <2>1, <2>2 DEF decreaseReaderCount, openWriteLock
  <2>4. reader_count' \in [Nodes -> Int]
    BY <2>1, <2>2 DEF decreaseReaderCount, openWriteLock, Pointers
  <2> QED
    BY <1>16, <2>3, <2>4 DEF Release
<1>19. ASSUME NEW t \in Threads, UnlinkNode(t) PROVE TypeOK'
  <2>1. PICK second \in SecondNodes(t), rest \in Pointers :
          /\ Unlink(t, second, rest)
          /\ stale' = (stale \cup Removing({node[t], second})) \ {t}
          /\ faults' = faults \cup (IF t \in stale THEN {"crossed"} ELSE {})
                              \cup (IF second \in Tails THEN {"tailFreed"} ELSE {})
                              \cup (IF Sessions(second) # {} THEN {"pulled"} ELSE {})
    BY <1>19 DEF UnlinkNode
  <2>2. next' \in [Nodes -> Pointers] /\ allocated' \subseteq Nodes
    BY <2>1 DEF Unlink
  <2>3. faults' \subseteq Faults
    BY <2>1 DEF Faults
  <2>4. stale' \subseteq Threads
    BY <2>1 DEF Removing
  <2>5. {node', ptr2', after'} \subseteq [Threads -> Pointers]
    <3>1. NULL \in Pointers
      BY DEF Pointers
    <3> QED
      BY <1>19, <3>1 DEF UnlinkNode
  <2> QED
    BY <1>19, <2>2, <2>3, <2>4, <2>5 DEF UnlinkNode
<1>20. ASSUME NEW t \in Threads, UnlinkFreedNode(t) PROVE TypeOK'
  <2>1. faults' \subseteq Faults
    BY <1>20 DEF UnlinkFreedNode, Faults
  <2> QED
    BY <1>20, <2>1 DEF UnlinkFreedNode
<1>21. ASSUME NEW t \in Threads, StoreCopy(t) PROVE TypeOK'
  <2>1. disk' \subseteq Paths
    BY <1>0, <1>21 DEF StoreCopy
  <2>2. faults' \subseteq Faults
    BY <1>21 DEF StoreCopy, Faults
  <2> QED
    BY <1>21, <2>1, <2>2 DEF StoreCopy
<1>17. CASE Restart
  <2>1. Started(allocated', filepath', next', fileHead', fileTail', disk')
    BY <1>17, RestartIsStart
  <2>2. /\ allocated' \subseteq Nodes /\ fileHead' \in Pointers /\ fileTail' \in Pointers
        /\ filepath' \in [Nodes -> Paths \cup {"unset"}] /\ next' \in [Nodes -> Pointers]
    BY <2>1, StartLinks DEF Linked
  <2>3. /\ read_write' \in [Nodes -> {-1, 0, 1}] /\ reader_count' \in [Nodes -> Int]
        /\ crashed' \in BOOLEAN /\ restarts' \in 0..MaxRestarts /\ faults' \subseteq Faults
    <3>1. /\ read_write' = [n \in Nodes |-> -1] /\ reader_count' = [n \in Nodes |-> 0]
          /\ restarts < MaxRestarts /\ restarts' = restarts + 1 /\ crashed' = FALSE
          /\ faults' = IF disk \subseteq ToSet(PathsFile) THEN {} ELSE {"forgotten"}
      BY <1>17 DEF Restart
    <3>2. read_write' \in [Nodes -> {-1, 0, 1}] /\ reader_count' \in [Nodes -> Int]
      BY <3>1
    <3>3. restarts' \in 0..MaxRestarts
      BY <3>1, BoundsAssumption
    <3>4. faults' \subseteq Faults
      BY <3>1 DEF Faults
    <3> QED
      BY <3>1, <3>2, <3>3, <3>4
  <2>4. /\ pc' \in [Threads -> Steps] /\ UNCHANGED <<request, answer, node, disk>>
        /\ stale' \subseteq Threads
    BY <1>17 DEF Restart
  <2>5. {ptr2', after'} \subseteq [Threads -> Pointers]
    BY <1>17 DEF Restart, Pointers
  <2> QED
    BY <2>2, <2>3, <2>4, <2>5
<1>18. CASE UNCHANGED vars
  BY <1>18 DEF vars
<1> QED
  BY <1>1, <1>2, <1>3, <1>4, <1>5, <1>6, <1>7, <1>8, <1>9, <1>10, <1>11, <1>12, <1>13,
     <1>14, <1>15, <1>16, <1>17, <1>18, <1>19, <1>20, <1>21, RestIsStutter DEF Next, Work

LEMMA StepsInit == Init => StepsOfOps
BY DEF Init, StepsOfOps

LEMMA StepsStep == TypeOK /\ StepsOfOps /\ [Next]_vars => StepsOfOps'
<1> SUFFICES ASSUME TypeOK, StepsOfOps, [Next]_vars, NEW u \in Threads
             PROVE  /\ pc'[u] \in {"open", "allocate", "append", "first", "link", "tail"} =>
                         Op(u)' = "CREATE_FILE"
                    /\ pc'[u] \in {"remove", "unlist", "unlink"} => Op(u)' = "DELETE_FILE"
                    /\ pc'[u] \in {"admit", "transfer", "release"} =>
                         Op(u)' \in {"READ_FILE", "WRITE_FILE"}
                    /\ pc'[u] \in {"append", "first", "link", "tail", "admit"} =>
                         node'[u] # NULL
  BY DEF StepsOfOps
<1> DEFINE Goal == /\ pc'[u] \in {"open", "allocate", "append", "first", "link", "tail"} =>
                        Op(u)' = "CREATE_FILE"
                   /\ pc'[u] \in {"remove", "unlist", "unlink"} => Op(u)' = "DELETE_FILE"
                   /\ pc'[u] \in {"admit", "transfer", "release"} =>
                        Op(u)' \in {"READ_FILE", "WRITE_FILE"}
                   /\ pc'[u] \in {"append", "first", "link", "tail", "admit"} =>
                        node'[u] # NULL
<1>0. /\ pc[u] \in {"open", "allocate", "append", "first", "link", "tail"} =>
           Op(u) = "CREATE_FILE"
      /\ pc[u] \in {"remove", "unlist", "unlink"} => Op(u) = "DELETE_FILE"
      /\ pc[u] \in {"admit", "transfer", "release"} => Op(u) \in {"READ_FILE", "WRITE_FILE"}
      /\ pc[u] \in {"append", "first", "link", "tail", "admit"} => node[u] # NULL
      /\ pc \in [Threads -> Steps] /\ node \in [Threads -> Pointers]
  BY DEF StepsOfOps, TypeOK
<1> USE DEF At, Goto, Respond, Op, local
<1>1. ASSUME NEW t \in Threads, CheckCreate(t) PROVE Goal
  BY <1>0, <1>1 DEF CheckCreate
<1>2. ASSUME NEW t \in Threads, OpenNewFile(t) PROVE Goal
  BY <1>0, <1>2 DEF OpenNewFile
<1>3. ASSUME NEW t \in Threads, Allocate(t) PROVE Goal
  <2>1. \E n \in Nodes : node' = [node EXCEPT ![t] = n]
    BY <1>3 DEF Allocate, Available
  <2>2. NULL \notin Nodes
    BY DEF Nodes, NULL
  <2> QED
    BY <1>0, <1>3, <2>1, <2>2 DEF Allocate
<1>4. ASSUME NEW t \in Threads, CheckHead(t) PROVE Goal
  BY <1>0, <1>4 DEF CheckHead
<1>5. ASSUME NEW t \in Threads, SetHead(t) PROVE Goal
  BY <1>0, <1>5 DEF SetHead
<1>6. ASSUME NEW t \in Threads, LinkTail(t) PROVE Goal
  BY <1>0, <1>6 DEF LinkTail, list
<1>7. ASSUME NEW t \in Threads, SetTail(t) PROVE Goal
  BY <1>0, <1>7 DEF SetTail
<1>8. ASSUME NEW t \in Threads, CheckDelete(t) PROVE Goal
  BY <1>0, <1>8 DEF CheckDelete
<1>9. ASSUME NEW t \in Threads, RemoveFromDisk(t) PROVE Goal
  BY <1>0, <1>9 DEF RemoveFromDisk
<1>10. ASSUME NEW t \in Threads, removeFile(t) PROVE Goal
  <2>1. /\ pc[t] = "unlist" /\ UNCHANGED request
        /\ \E s \in {"unlink", "done"} : pc' = [pc EXCEPT ![t] = s]
        /\ \A v \in Threads \ {t} : node'[v] = node[v]
    BY <1>0, <1>10 DEF removeFile
  <2> HIDE DEF Op
  <2>2. Op(u)' = Op(u)
    BY <2>1 DEF Op
  <2> QED
    BY <1>0, <2>1, <2>2
<1>11. ASSUME NEW t \in Threads, FindFile(t) PROVE Goal
  BY <1>0, <1>11 DEF FindFile
<1>12. ASSUME NEW t \in Threads, Admit(t) PROVE Goal
  <2>1. \E s \in {"transfer", "done"} : pc' = [pc EXCEPT ![t] = s]
    BY <1>12 DEF Admit
  <2> QED
    BY <1>0, <1>12, <2>1 DEF Admit
<1>13. ASSUME NEW t \in Threads, LoseReply(t) PROVE Goal
  BY <1>0, <1>13 DEF LoseReply
<1>14. ASSUME NEW t \in Threads, UploadFile(t) PROVE Goal
  BY <1>0, <1>14 DEF UploadFile
<1>15. ASSUME NEW t \in Threads, DownloadFile(t) PROVE Goal
  BY <1>0, <1>15 DEF DownloadFile
<1>16. ASSUME NEW t \in Threads, Release(t) PROVE Goal
  BY <1>0, <1>16 DEF Release
<1>19. ASSUME NEW t \in Threads, UnlinkNode(t) PROVE Goal
  BY <1>0, <1>19 DEF UnlinkNode
<1>20. ASSUME NEW t \in Threads, UnlinkFreedNode(t) PROVE Goal
  BY <1>0, <1>20 DEF UnlinkFreedNode
<1>21. ASSUME NEW t \in Threads, StoreCopy(t) PROVE Goal
  BY <1>0, <1>21 DEF StoreCopy
<1>17. CASE Restart
  BY <1>0, <1>17 DEF Restart
<1>18. CASE UNCHANGED vars
  BY <1>0, <1>18 DEF vars
<1> QED
  BY <1>1, <1>2, <1>3, <1>4, <1>5, <1>6, <1>7, <1>8, <1>9, <1>10, <1>11, <1>12, <1>13,
     <1>14, <1>15, <1>16, <1>17, <1>18, <1>19, <1>20, <1>21, RestIsStutter DEF Next, Work

----------------------------------------------------------------------------
(* Steps that leave the nodes of the list alone.                           *)

Aside(t) ==
  \/ CheckCreate(t) \/ OpenNewFile(t) \/ CheckHead(t) \/ SetTail(t) \/ CheckDelete(t)
  \/ RemoveFromDisk(t) \/ FindFile(t) \/ Admit(t) \/ LoseReply(t) \/ UploadFile(t)
  \/ DownloadFile(t) \/ StoreCopy(t) \/ Release(t)

\* removeFile walks the list, or LinkTail follows a null pointer.
Missed(t) == removeFile(t) \/ (LinkTail(t) /\ fileTail = NULL)

LEMMA AsideKeeps ==
  ASSUME TypeOK, NEW t \in Threads, Aside(t) \/ Missed(t)
  PROVE  /\ UNCHANGED <<request, allocated, filepath, next, fileHead, stale>>
         /\ \A u \in Threads \ {t} :
              pc'[u] = pc[u] /\ node'[u] = node[u] /\ ptr2'[u] = ptr2[u] /\ after'[u] = after[u]
         /\ faults \subseteq faults'
<1> DEFINE Goal ==
             /\ UNCHANGED <<request, allocated, filepath, next, fileHead, stale>>
             /\ \A u \in Threads \ {t} :
                  pc'[u] = pc[u] /\ node'[u] = node[u] /\ ptr2'[u] = ptr2[u]
                                 /\ after'[u] = after[u]
             /\ faults \subseteq faults'
<1> USE DEF TypeOK, fields, list, local, At, Goto, Respond
<1>1. ASSUME CheckCreate(t) \/ CheckHead(t) \/ CheckDelete(t) PROVE Goal
  BY <1>1 DEF CheckCreate, CheckHead, CheckDelete
<1>2. ASSUME OpenNewFile(t) \/ SetTail(t) \/ RemoveFromDisk(t) \/ FindFile(t) PROVE Goal
  BY <1>2 DEF OpenNewFile, SetTail, RemoveFromDisk, FindFile
<1>3. ASSUME Admit(t) \/ LoseReply(t) \/ UploadFile(t) PROVE Goal
  BY <1>3 DEF Admit, LoseReply, UploadFile
<1>4. ASSUME DownloadFile(t) \/ StoreCopy(t) \/ Release(t) PROVE Goal
  BY <1>4 DEF DownloadFile, StoreCopy, Release
<1>5. ASSUME removeFile(t) PROVE Goal
  BY <1>5 DEF removeFile
<1>6. ASSUME LinkTail(t), fileTail = NULL PROVE Goal
  BY <1>6 DEF LinkTail
<1> HIDE DEF Goal
<1>7. Goal
  BY <1>1, <1>2, <1>3, <1>4, <1>5, <1>6 DEF Aside, Missed
<1> QED
  BY <1>7 DEF Goal

LEMMA SameNodesSameList ==
  ASSUME TypeOK, TypeOK', UNCHANGED <<next, fileHead>>
  PROVE  walk' = walk /\ Reach' = Reach
<1>1. IsWalk(walk, fileHead, next) /\ IsWalk(walk', fileHead, next)
  BY WalkIs, WalkWillBe
<1>2. walk' = walk
  BY <1>1, SameWalk
<1> QED
  BY <1>2 DEF Reach

LEMMA ReachIs == Reach = Met(walk) /\ Reach' = Met(walk')
BY DEF Reach, Met

----------------------------------------------------------------------------
(* The heap.                                                               *)

(* What removeFile has read when it finds the file: the node b, after a.    *)
Search(t, a, b) ==
  /\ a \in allocated /\ b \in allocated /\ b \in Reach
  /\ next[a] = b /\ filepath[b] = Path(t)
  /\ node'[t] = a /\ ptr2'[t] = b /\ after'[t] = next[b]

LEMMA SearchIs ==
  ASSUME TypeOK, Heap, NEW t \in Threads, removeFile(t), pc'[t] = "unlink"
  PROVE  \E a \in Nodes, b \in Nodes : Search(t, a, b)
<1> USE CountIsNat
<1> DEFINE found == Places(Path(t)) \ {1}
<1>1. found # {}
  BY DEF removeFile, Respond, Goto, TypeOK
<1>2. PICK k \in 2..NodeCount : k = First(found)
  BY <1>1, FoundIs
<1>3. k \in Places(Path(t)) /\ walk[k] \in Nodes
  BY <1>1, <1>2, FoundIs
<1>4. /\ node' = [node EXCEPT ![t] = walk[k - 1]]
      /\ ptr2' = [ptr2 EXCEPT ![t] = walk[k]]
      /\ after' = [after EXCEPT ![t] = next[walk[k]]]
  BY <1>1, <1>2 DEF removeFile
<1>5. PICK p \in 1..NodeCount : p = k - 1
  OBVIOUS
<1>6. p + 1 = k /\ p \in 1..NodeCount + 1 /\ k \in 1..NodeCount + 1 /\ p <= k
  BY <1>5
<1>7. IsWalk(walk, fileHead, next) /\ Linked(fileHead, next, allocated)
  BY WalkIs DEF Heap
<1>8. walk[k] # NULL
  BY <1>3 DEF Nodes, NULL
<1>9. walk[p] # NULL
  BY <1>6, <1>7, <1>8, NullStays
<1>10. walk[p] \in allocated /\ walk[k] \in allocated
  BY <1>6, <1>7, <1>8, <1>9, WalkStays
<1>11. next[walk[p]] = walk[k]
  <2>1. walk[p + 1] = IF walk[p] = NULL THEN NULL ELSE next[walk[p]]
    BY <1>7 DEF IsWalk
  <2> QED
    BY <1>6, <1>9, <2>1
<1>12. walk[k] \in Reach /\ filepath[walk[k]] = Path(t)
  BY <1>3, <1>6, PlacesAre DEF Reach
<1>13. walk[p] \in Nodes
  BY <1>10 DEF TypeOK
<1>14. /\ node'[t] = walk[p] /\ ptr2'[t] = walk[k] /\ after'[t] = next[walk[k]]
  BY <1>4, <1>5 DEF TypeOK
<1>15. Search(t, walk[p], walk[k])
  BY <1>10, <1>11, <1>12, <1>14 DEF Search
<1> QED
  BY <1>3, <1>13, <1>15

(* What UnlinkNode does when what it has read still holds: the node b is    *)
(* unlinked from its predecessor a.                                         *)
Unlinked(t, a, b) ==
  /\ a = node[t] /\ b = ptr2[t] /\ t \notin stale
  /\ a \in allocated /\ b \in allocated
  /\ next[a] = b /\ filepath[b] = Path(t)
  /\ next' = [next EXCEPT ![a] = next[b]]
  /\ allocated' = allocated \ {b}
  /\ stale' = (stale \cup Removing({a, b})) \ {t}
  /\ faults \subseteq faults'
  /\ b \in Tails => "tailFreed" \in faults'
  /\ Sessions(b) # {} => "pulled" \in faults'

\* ... at place k of the list.
Removal(t, k, a, b) ==
  Unlinked(t, a, b) /\ b \in Reach /\ a = walk[k - 1] /\ b = walk[k]

LEMMA UnlinkedIs ==
  ASSUME TypeOK, Heap, NEW t \in Threads, UnlinkNode(t), "crossed" \notin faults'
  PROVE  \E a \in Nodes, b \in Nodes : Unlinked(t, a, b)
<1>1. PICK second \in SecondNodes(t), rest \in Pointers :
        /\ rest \in RestOf(t, second)
        /\ Unlink(t, second, rest)
        /\ stale' = (stale \cup Removing({node[t], second})) \ {t}
        /\ faults' = faults \cup (IF t \in stale THEN {"crossed"} ELSE {})
                            \cup (IF second \in Tails THEN {"tailFreed"} ELSE {})
                            \cup (IF Sessions(second) # {} THEN {"pulled"} ELSE {})
  BY DEF UnlinkNode
<1>2. t \notin stale /\ pc[t] = "unlink"
  BY <1>1 DEF UnlinkNode, At
<1>3. second = ptr2[t] /\ rest = after[t]
  BY <1>1, <1>2 DEF SecondNodes, RestOf
<1>4. Found(t)
  BY DEF Heap
<1>5. node[t] \in allocated /\ ptr2[t] \in allocated
  BY <1>2, <1>4 DEF Found
<1>6. /\ next[node[t]] = ptr2[t] /\ next[ptr2[t]] = after[t] /\ filepath[ptr2[t]] = Path(t)
  BY <1>2, <1>4 DEF Found
<1>7. next' = [next EXCEPT ![node[t]] = next[ptr2[t]]] /\ allocated' = allocated \ {ptr2[t]}
  BY <1>1, <1>3, <1>6 DEF Unlink
<1>8. /\ faults \subseteq faults'
      /\ ptr2[t] \in Tails => "tailFreed" \in faults'
      /\ Sessions(ptr2[t]) # {} => "pulled" \in faults'
  BY <1>1, <1>3
<1>9. Unlinked(t, node[t], ptr2[t])
  BY <1>1, <1>2, <1>3, <1>5, <1>6, <1>7, <1>8 DEF Unlinked
<1>10. node[t] \in Nodes /\ ptr2[t] \in Nodes
  BY <1>5 DEF TypeOK
<1> QED
  BY <1>9, <1>10

LEMMA RemovalIs ==
  ASSUME TypeOK, Heap, NEW t \in Threads, NEW a \in Nodes, NEW b \in Nodes,
         Unlinked(t, a, b), b \in Reach
  PROVE  \E k \in 2..NodeCount : Removal(t, k, a, b)
<1> USE CountIsNat
<1>1. IsWalk(walk, fileHead, next) /\ Linked(fileHead, next, allocated)
  BY WalkIs DEF Heap
<1>2. PICK k \in 1..NodeCount + 1 : walk[k] = b
  BY DEF Reach
<1>3. b # NULL /\ next[a] = b /\ a \in allocated
  BY DEF Unlinked, Nodes, NULL
<1>4. b # fileHead
  BY <1>1, <1>3 DEF Linked
<1>5. walk[1] = fileHead
  BY <1>1 DEF IsWalk
<1>6. walk[NodeCount + 1] = NULL
  BY <1>1, WalkComesToAnEnd
<1>7. k \in 2..NodeCount
  BY <1>2, <1>3, <1>4, <1>5, <1>6
<1>8. PICK p \in 1..NodeCount : p = k - 1
  BY <1>7
<1>9. p + 1 = k /\ p \in 1..NodeCount + 1 /\ p <= k
  BY <1>7, <1>8
<1>10. walk[p] # NULL
  BY <1>1, <1>2, <1>3, <1>9, NullStays
<1>11. walk[p] \in allocated
  BY <1>1, <1>9, <1>10, WalkStays
<1>12. next[walk[p]] = b
  <2>1. walk[p + 1] = IF walk[p] = NULL THEN NULL ELSE next[walk[p]]
    BY <1>1 DEF IsWalk
  <2> QED
    BY <1>2, <1>9, <1>10, <2>1
<1>13. walk[p] = a
  BY <1>1, <1>3, <1>11, <1>12 DEF Linked
<1>14. Removal(t, k, a, b)
  BY <1>2, <1>8, <1>13 DEF Removal
<1> QED
  BY <1>7, <1>14

LEMMA HeapInit == Init => Heap
<1> SUFFICES ASSUME Init
             PROVE  Heap
  OBVIOUS
<1>1. Linked(fileHead, next, allocated)
  BY InitIsStart, StartLinks
<1>2. \A t \in Threads : pc[t] = "start"
  BY DEF Init
<1> QED
  BY <1>1, <1>2 DEF Heap, Bringing, Found

(* The part of Heap that is about the threads.                             *)
Waiting(u) ==
  /\ pc[u] \in {"append", "first", "link"} =>
       /\ node[u] \in allocated /\ node[u] # fileHead /\ filepath[node[u]] = Path(u)
       /\ \A n \in allocated : next[n] # node[u]
  /\ pc[u] = "link" => fileHead # NULL

Apart(u, v) ==
  /\ pc[u] \in {"append", "first", "link"} /\ pc[v] \in {"append", "first", "link"}
  /\ node[u] = node[v]
  => u = v

LEMMA HeapIs ==
  /\ Heap <=> /\ Linked(fileHead, next, allocated)
              /\ \A u \in Threads : Waiting(u)
              /\ \A u, v \in Threads : Apart(u, v)
              /\ \A u \in Threads : Found(u)
  /\ Heap' <=> /\ Linked(fileHead', next', allocated')
               /\ \A u \in Threads : Waiting(u)'
               /\ \A u, v \in Threads : Apart(u, v)'
               /\ \A u \in Threads : Found(u)'
BY DEF Heap, Waiting, Apart, Bringing, Linked

LEMMA AsideSearches ==
  ASSUME TypeOK, NEW t \in Threads, Aside(t) \/ Missed(t), pc'[t] = "unlink"
  PROVE  removeFile(t)
<1> USE DEF At, Goto, Respond, TypeOK
<1>1. CASE CheckCreate(t) \/ CheckDelete(t) \/ OpenNewFile(t) \/ SetTail(t) \/ CheckHead(t)
  BY <1>1 DEF CheckCreate, CheckDelete, OpenNewFile, SetTail, CheckHead
<1>2. CASE RemoveFromDisk(t) \/ FindFile(t) \/ LoseReply(t) \/ UploadFile(t)
  BY <1>2 DEF RemoveFromDisk, FindFile, LoseReply, UploadFile
<1>3. CASE Admit(t) \/ DownloadFile(t) \/ StoreCopy(t) \/ Release(t)
  BY <1>3 DEF Admit, DownloadFile, StoreCopy, Release
<1>4. CASE LinkTail(t) /\ fileTail = NULL
  BY <1>4 DEF LinkTail
<1> QED
  BY <1>1, <1>2, <1>3, <1>4 DEF Aside, Missed

LEMMA HeapAside ==
  ASSUME TypeOK, StepsOfOps, Heap, NEW t \in Threads, Aside(t) \/ Missed(t)
  PROVE  Heap'
<1>1. /\ UNCHANGED <<request, allocated, filepath, next, fileHead, stale>>
      /\ \A u \in Threads \ {t} :
           pc'[u] = pc[u] /\ node'[u] = node[u] /\ ptr2'[u] = ptr2[u] /\ after'[u] = after[u]
  BY AsideKeeps
<1>2. \/ pc'[t] \notin {"append", "first", "link"}
      \/ /\ node' = node
         /\ pc[t] \in {"append", "first", "link"}
         /\ pc'[t] = "link" => fileHead # NULL
  <2> USE DEF At, Goto, Respond, TypeOK, local
  <2>1. CASE CheckCreate(t) \/ CheckDelete(t) \/ OpenNewFile(t) \/ SetTail(t)
    BY <2>1 DEF CheckCreate, CheckDelete, OpenNewFile, SetTail
  <2>2. CASE CheckHead(t)
    BY <2>2 DEF CheckHead
  <2>3. CASE RemoveFromDisk(t) \/ FindFile(t) \/ LoseReply(t) \/ UploadFile(t)
    BY <2>3 DEF RemoveFromDisk, FindFile, LoseReply, UploadFile
  <2>4. CASE Admit(t) \/ DownloadFile(t) \/ StoreCopy(t) \/ Release(t)
    BY <2>4 DEF Admit, DownloadFile, StoreCopy, Release
  <2>5. CASE Missed(t)
    <3>1. CASE removeFile(t)
      BY <3>1 DEF removeFile
    <3>2. CASE LinkTail(t)
      BY <3>2, HeapIs DEF LinkTail, Waiting
    <3> QED
      BY <2>5, <3>1, <3>2 DEF Missed
  <2> QED
    BY <2>1, <2>2, <2>3, <2>4, <2>5 DEF Aside
<1>3. \A u \in Threads : Waiting(u)'
  BY <1>1, <1>2, HeapIs DEF Waiting, Path
<1>4. \A u, v \in Threads : Apart(u, v)'
  <2> TAKE u \in Threads, v \in Threads
  <2>1. Apart(u, v)
    BY HeapIs
  <2> QED
    BY <1>1, <1>2, <2>1 DEF Apart
<1>5. Linked(fileHead', next', allocated')
  BY <1>1, HeapIs
<1>6. pc'[t] = "unlink" => removeFile(t)
  BY AsideSearches
<1>7. ASSUME NEW u \in Threads
      PROVE  Found(u)'
  <2>1. CASE u = t /\ pc'[t] = "unlink"
    <3>1. PICK a \in Nodes, b \in Nodes : Search(t, a, b)
      BY <1>6, <2>1, SearchIs
    <3> QED
      BY <1>1, <2>1, <3>1 DEF Search, Found, Path
  <2>2. CASE u # t
    <3>1. Found(u)
      BY HeapIs
    <3> QED
      BY <1>1, <2>2, <3>1 DEF Found, Path
  <2> QED
    BY <2>1, <2>2 DEF Found
<1> QED
  BY <1>3, <1>4, <1>5, <1>7, HeapIs

(* What Allocate does: the new node n is in nobody's way.                  *)
Allocation(t, n) ==
  /\ n \in Nodes \ allocated
  /\ allocated' = allocated \cup {n}
  /\ node' = [node EXCEPT ![t] = n]
  /\ filepath' = [filepath EXCEPT ![n] = Path(t)]
  /\ next' = [next EXCEPT ![n] = NULL]
  /\ reader_count' = [reader_count EXCEPT ![n] = 0]
  /\ pc[t] = "allocate" /\ pc' = [pc EXCEPT ![t] = "append"]
  /\ UNCHANGED <<request, ptr2, after, stale, fileHead, fileTail, disk, crashed, faults>>

LEMMA AllocationIs ==
  ASSUME NEW t \in Threads, Allocate(t)
  PROVE  \E n \in Nodes : Allocation(t, n)
BY DEF Allocate, Allocation, Available, At, Goto

LEMMA HeapAllocation ==
  ASSUME TypeOK, Heap, NEW t \in Threads, NEW n \in Nodes, Allocation(t, n)
  PROVE  Heap'
<1>1. /\ \A m \in Nodes : next'[m] = IF m = n THEN NULL ELSE next[m]
      /\ \A m \in Nodes : filepath'[m] = IF m = n THEN Path(t) ELSE filepath[m]
      /\ \A u \in Threads : node'[u] = IF u = t THEN n ELSE node[u]
      /\ \A u \in Threads : pc'[u] = IF u = t THEN "append" ELSE pc[u]
  BY DEF Allocation, TypeOK
<1>2. n \notin allocated /\ n # NULL /\ allocated' = allocated \cup {n} /\ allocated \subseteq Nodes
  BY DEF Allocation, TypeOK, Nodes, NULL
<1>3. fileHead' = fileHead /\ fileHead \in allocated \cup {NULL}
  BY DEF Allocation, Heap, Linked
<1>4. \A m \in allocated : next[m] \in allocated \cup {NULL}
  BY DEF Heap, Linked
<1>5. Linked(fileHead', next', allocated')
  <2>1. next' \in [Nodes -> Pointers]
    BY DEF Allocation, TypeOK, Pointers
  <2>2. \A m \in allocated' : next'[m] \in allocated' \cup {NULL}
    BY <1>1, <1>2, <1>4
  <2>3. \A m \in allocated' : next'[m] # NULL => next'[m] # fileHead'
    BY <1>1, <1>2, <1>3 DEF Heap, Linked
  <2>4. \A l, m \in allocated' : next'[l] = next'[m] /\ next'[m] # NULL => l = m
    BY <1>1, <1>2 DEF Heap, Linked
  <2> QED
    BY <1>2, <1>3, <2>1, <2>2, <2>3, <2>4 DEF Linked
<1>6. \A u \in Threads : Path(u)' = Path(u)
  BY DEF Allocation, Path
<1>7. ASSUME NEW u \in Threads
      PROVE  Waiting(u)'
  <2>1. CASE u = t
    <3>1. node'[t] = n /\ pc'[t] = "append" /\ filepath'[n] = Path(t)'
      BY <1>1, <1>6
    <3>2. \A m \in allocated' : next'[m] # n
      BY <1>1, <1>2, <1>4
    <3> QED
      BY <1>2, <1>3, <2>1, <3>1, <3>2 DEF Waiting
  <2>2. CASE u # t
    <3>1. Waiting(u)
      BY HeapIs
    <3>2. node'[u] = node[u] /\ pc'[u] = pc[u] /\ Path(u)' = Path(u)
      BY <1>1, <1>6, <2>2
    <3>3. node[u] \in allocated => filepath'[node[u]] = filepath[node[u]]
      BY <1>1, <1>2
    <3>4. (\A m \in allocated : next[m] # node[u]) /\ node[u] \in allocated =>
            \A m \in allocated' : next'[m] # node[u]
      BY <1>1, <1>2 DEF Nodes, NULL
    <3> QED
      BY <1>2, <1>3, <3>1, <3>2, <3>3, <3>4 DEF Waiting
  <2> QED
    BY <2>1, <2>2
<1>8. ASSUME NEW u \in Threads, NEW v \in Threads
      PROVE  Apart(u, v)'
  <2>1. Waiting(u) /\ Waiting(v) /\ Apart(u, v)
    BY HeapIs
  <2> QED
    BY <1>1, <1>2, <2>1 DEF Apart, Waiting
<1>9. ASSUME NEW u \in Threads
      PROVE  Found(u)'
  <2>1. Found(u) /\ UNCHANGED <<ptr2, after, stale>>
    BY HeapIs DEF Allocation
  <2>2. pc'[u] = "unlink" => u # t /\ pc[u] = "unlink" /\ node'[u] = node[u]
    BY <1>1
  <2> QED
    BY <1>1, <1>2, <1>6, <2>1, <2>2 DEF Found
<1> QED
  BY <1>5, <1>7, <1>8, <1>9, HeapIs

LEMMA HeapSetHead ==
  ASSUME TypeOK, Heap, NEW t \in Threads, SetHead(t)
  PROVE  Heap'
<1>1. /\ pc[t] = "first" /\ fileHead' = node[t]
      /\ \A u \in Threads : pc'[u] = IF u = t THEN "tail" ELSE pc[u]
      /\ UNCHANGED <<request, node, ptr2, after, stale, filepath, next, allocated>>
  BY DEF SetHead, At, Goto, fields, local, TypeOK
<1>2. Waiting(t)
  BY HeapIs
<1>3. /\ node[t] \in allocated /\ node[t] # NULL
      /\ \A n \in allocated : next[n] # node[t]
  BY <1>1, <1>2 DEF Waiting, TypeOK, Nodes, NULL
<1>4. Linked(fileHead', next', allocated')
  BY <1>1, <1>3 DEF Heap, Linked
<1>5. ASSUME NEW u \in Threads
      PROVE  Waiting(u)'
  <2>1. Waiting(u) /\ Apart(u, t)
    BY HeapIs
  <2> QED
    BY <1>1, <1>3, <2>1 DEF Waiting, Apart, Path
<1>6. ASSUME NEW u \in Threads, NEW v \in Threads
      PROVE  Apart(u, v)'
  <2>1. Apart(u, v)
    BY HeapIs
  <2> QED
    BY <1>1, <2>1 DEF Apart
<1>7. ASSUME NEW u \in Threads
      PROVE  Found(u)'
  <2>1. Found(u)
    BY HeapIs
  <2> QED
    BY <1>1, <2>1 DEF Found, Path
<1> QED
  BY <1>4, <1>5, <1>6, <1>7, HeapIs

LEMMA HeapLinkTail ==
  ASSUME TypeOK, Heap, NEW t \in Threads, LinkTail(t), fileTail # NULL
  PROVE  Heap'
<1>1. /\ pc[t] = "link" /\ next' = [next EXCEPT ![fileTail] = node[t]]
      /\ \A u \in Threads : pc'[u] = IF u = t THEN "tail" ELSE pc[u]
      /\ UNCHANGED <<request, node, ptr2, after, filepath, allocated, fileHead>>
      /\ stale' = stale \cup Removing({fileTail})
  BY DEF LinkTail, At, Goto, list, TypeOK
<1>2. Waiting(t)
  BY HeapIs
<1>3. /\ node[t] \in allocated /\ node[t] # NULL /\ node[t] # fileHead
      /\ \A n \in allocated : next[n] # node[t]
  BY <1>1, <1>2 DEF Waiting, TypeOK, Nodes, NULL
<1>4. \A m \in Nodes : next'[m] = IF m = fileTail THEN node[t] ELSE next[m]
  BY <1>1 DEF TypeOK
<1>5. allocated \subseteq Nodes /\ node[t] \in Pointers /\ next' \in [Nodes -> Pointers]
  BY <1>1 DEF TypeOK
<1>6. Linked(fileHead', next', allocated')
  <2>1. \A m \in allocated : next'[m] \in allocated \cup {NULL}
    BY <1>3, <1>4, <1>5 DEF Heap, Linked
  <2>2. \A m \in allocated : next'[m] # NULL => next'[m] # fileHead
    BY <1>3, <1>4, <1>5 DEF Heap, Linked
  <2>3. \A l, m \in allocated : next'[l] = next'[m] /\ next'[m] # NULL => l = m
    BY <1>3, <1>4, <1>5 DEF Heap, Linked
  <2>4. fileHead \in allocated \cup {NULL}
    BY DEF Heap, Linked
  <2> QED
    BY <1>1, <1>5, <2>1, <2>2, <2>3, <2>4 DEF Linked
<1>7. ASSUME NEW u \in Threads
      PROVE  Waiting(u)'
  <2>1. Waiting(u) /\ Apart(u, t)
    BY HeapIs
  <2>2. pc'[u] \in {"append", "first", "link"} =>
          /\ u # t /\ pc[u] = pc'[u] /\ node[u] # node[t]
    BY <1>1, <2>1 DEF Apart
  <2> QED
    BY <1>1, <1>4, <1>5, <2>1, <2>2 DEF Waiting, Path
<1>8. ASSUME NEW u \in Threads, NEW v \in Threads
      PROVE  Apart(u, v)'
  <2>1. Apart(u, v)
    BY HeapIs
  <2> QED
    BY <1>1, <2>1 DEF Apart
<1>9. ASSUME NEW u \in Threads
      PROVE  Found(u)'
  <2>1. Found(u) /\ Path(u)' = Path(u)
    BY <1>1, HeapIs DEF Path
  <2>2. pc'[u] = "unlink" /\ u \notin stale' =>
          pc[u] = "unlink" /\ u \notin stale /\ node[u] # fileTail /\ ptr2[u] # fileTail
    BY <1>1 DEF Removing
  <2> QED
    BY <1>1, <1>4, <1>5, <2>1, <2>2 DEF Found
<1> QED
  BY <1>6, <1>7, <1>8, <1>9, HeapIs

LEMMA HeapRemoval ==
  ASSUME TypeOK, Heap, NEW t \in Threads, UnlinkNode(t),
         NEW a \in Nodes, NEW b \in Nodes, Unlinked(t, a, b)
  PROVE  Heap'
<1>1. /\ pc[t] = "unlink"
      /\ \A u \in Threads : pc'[u] = IF u = t THEN "done" ELSE pc[u]
      /\ \A u \in Threads \ {t} : ptr2'[u] = ptr2[u] /\ after'[u] = after[u]
      /\ UNCHANGED <<request, node, filepath, fileHead>>
  BY DEF UnlinkNode, At, Respond, Goto, TypeOK
<1>2. /\ a \in allocated /\ b \in allocated /\ next[a] = b
      /\ next' = [next EXCEPT ![a] = next[b]] /\ allocated' = allocated \ {b}
      /\ stale' = (stale \cup Removing({a, b})) \ {t}
  BY DEF Unlinked
<1>3. Linked(fileHead', next', allocated')
  BY <1>1, <1>2, LinkedWithout DEF Heap
<1>4. \A m \in Nodes : next'[m] = IF m = a THEN next[b] ELSE next[m]
  BY <1>2 DEF TypeOK
<1>5. ASSUME NEW u \in Threads
      PROVE  Waiting(u)'
  <2>1. Waiting(u)
    BY HeapIs
  <2>2. allocated \subseteq Nodes
    BY DEF TypeOK
  <2> QED
    BY <1>1, <1>2, <1>4, <2>1, <2>2 DEF Waiting, Path
<1>6. ASSUME NEW u \in Threads, NEW v \in Threads
      PROVE  Apart(u, v)'
  <2>1. Apart(u, v)
    BY HeapIs
  <2> QED
    BY <1>1, <2>1 DEF Apart
<1>7. ASSUME NEW u \in Threads
      PROVE  Found(u)'
  <2>1. Found(u) /\ Path(u)' = Path(u) /\ allocated \subseteq Nodes
    BY <1>1, HeapIs DEF Path, TypeOK
  <2>2. pc'[u] = "unlink" /\ u \notin stale' =>
          /\ u # t /\ pc[u] = "unlink" /\ u \notin stale
          /\ node[u] \notin {a, b} /\ ptr2[u] \notin {a, b}
    BY <1>1, <1>2 DEF Removing
  <2> QED
    BY <1>1, <1>2, <1>4, <2>1, <2>2 DEF Found
<1> QED
  BY <1>3, <1>5, <1>6, <1>7, HeapIs

LEMMA HeapRestart ==
  ASSUME TypeOK, Restart
  PROVE  Heap'
<1>1. Linked(fileHead', next', allocated')
  BY RestartIsStart, StartLinks
<1>2. \A u \in Threads : pc'[u] \in {"start", "done"}
  BY DEF Restart
<1> QED
  BY <1>1, <1>2, HeapIs DEF Waiting, Apart, Found

(* A step is one of those that the lemmas are about, as long as no removal  *)
(* crosses another thread's step.                                           *)
LEMMA StepIs ==
  ASSUME TypeOK, Heap, [Next]_vars, ~Restart, "crossed" \notin faults'
  PROVE  \/ \E t \in Threads : Aside(t) \/ Missed(t)
         \/ \E t \in Threads, n \in Nodes : Allocate(t) /\ Allocation(t, n)
         \/ \E t \in Threads : SetHead(t)
         \/ \E t \in Threads : LinkTail(t) /\ fileTail # NULL
         \/ \E t \in Threads, k \in 2..NodeCount, a \in Nodes, b \in Nodes :
              UnlinkNode(t) /\ Removal(t, k, a, b)
         \/ \E t \in Threads, a \in Nodes, b \in Nodes :
              UnlinkNode(t) /\ Unlinked(t, a, b) /\ b \notin Reach
         \/ UNCHANGED vars
<1>1. ASSUME NEW t \in Threads, UnlinkFreedNode(t)
      PROVE  FALSE
  BY <1>1 DEF UnlinkFreedNode
<1>2. ASSUME NEW t \in Threads, UnlinkNode(t)
      PROVE  \/ \E k \in 2..NodeCount, a \in Nodes, b \in Nodes : Removal(t, k, a, b)
             \/ \E a \in Nodes, b \in Nodes : Unlinked(t, a, b) /\ b \notin Reach
  BY <1>2, UnlinkedIs, RemovalIs
<1>3. ASSUME NEW t \in Threads, Work(t)
      PROVE  \/ Aside(t) \/ Missed(t)
             \/ \E n \in Nodes : Allocate(t) /\ Allocation(t, n)
             \/ SetHead(t)
             \/ LinkTail(t) /\ fileTail # NULL
             \/ UnlinkNode(t)
  BY <1>1, <1>3, AllocationIs DEF Work, Aside, Missed
<1> QED
  BY <1>2, <1>3, RestIsStutter DEF Next

LEMMA HeapStep ==
  ASSUME TypeOK, StepsOfOps, Heap, [Next]_vars, ~Restart, "crossed" \notin faults'
  PROVE  Heap'
<1>1. CASE UNCHANGED vars
  <2>1. UNCHANGED <<allocated, next, fileHead, filepath, pc, node, ptr2, after, stale, request>>
    BY <1>1 DEF vars, list, local, fields
  <2> QED
    BY <2>1 DEF Heap, Linked, Bringing, Found, Path
<1>2. ASSUME NEW t \in Threads, NEW a \in Nodes, NEW b \in Nodes, UnlinkNode(t),
             Unlinked(t, a, b)
      PROVE  Heap'
  BY <1>2, HeapRemoval
<1>3. ASSUME NEW t \in Threads, NEW k, NEW a \in Nodes, NEW b \in Nodes, UnlinkNode(t),
             Removal(t, k, a, b)
      PROVE  Heap'
  BY <1>2, <1>3 DEF Removal
<1> QED
  BY <1>1, <1>2, <1>3, StepIs, HeapAside, HeapAllocation, HeapSetHead, HeapLinkTail

----------------------------------------------------------------------------
(* The nodes of the list, before and after each step.                      *)

LEMMA ReachIsClosed ==
  ASSUME TypeOK, Heap
  PROVE  /\ Reach \subseteq allocated /\ allocated \subseteq Nodes /\ NULL \notin Nodes
         /\ fileHead \in Reach \cup {NULL}
         /\ \A n \in Reach : next[n] \in Reach \cup {NULL}
         /\ \A n \in Reach : n # fileHead => \E m \in Reach : next[m] = n
<1>1. IsWalk(walk, fileHead, next) /\ Linked(fileHead, next, allocated) /\ Reach = Met(walk)
  BY WalkIs, ReachIs DEF Heap
<1>2. /\ Met(walk) \subseteq allocated /\ fileHead \in Met(walk) \cup {NULL}
      /\ \A n \in Met(walk) : next[n] \in Met(walk) \cup {NULL}
  BY <1>1, MetIsClosed
<1>3. \A n \in Met(walk) : n # fileHead => \E m \in Met(walk) : next[m] = n
  BY <1>1, MetHasPredecessor
<1>4. allocated \subseteq Nodes /\ NULL \notin Nodes
  BY DEF TypeOK, Nodes, NULL
<1> QED
  BY <1>1, <1>2, <1>3, <1>4

LEMMA NoHeadNoNodes ==
  ASSUME TypeOK, fileHead = NULL
  PROVE  Reach = {}
<1>1. IsWalk(walk, fileHead, next) /\ Reach = Met(walk)
  BY WalkIs, ReachIs
<1>2. Met(walk) \subseteq {}
  <2> DEFINE None == {}
  <2>1. fileHead \in None \cup {NULL} /\ \A n \in None : next[n] \in None \cup {NULL}
    OBVIOUS
  <2> HIDE DEF None
  <2>2. Met(walk) \subseteq None
    BY <1>1, <2>1, MetIsLeast
  <2> QED
    BY <2>2 DEF None
<1> QED
  BY <1>1, <1>2

(* What waits to be appended is not in the list.                           *)
LEMMA WaitingIsOutside ==
  ASSUME TypeOK, Heap, NEW u \in Threads, pc[u] \in {"append", "first", "link"}
  PROVE  node[u] \notin Reach /\ node[u] \in Nodes /\ node[u] \in allocated
<1>1. Waiting(u)
  BY HeapIs
<1> QED
  BY <1>1, ReachIsClosed DEF Waiting

LEMMA ReachAllocation ==
  ASSUME TypeOK, TypeOK', Heap, NEW t \in Threads, NEW n \in Nodes, Allocation(t, n)
  PROVE  walk' = walk /\ Reach' = Reach /\ n \notin Reach
<1>1. IsWalk(walk, fileHead, next) /\ IsWalk(walk', fileHead', next') /\ Reach = Met(walk)
  BY WalkIs, WalkWillBe, ReachIs
<1>2. n \notin Reach /\ Reach \subseteq Nodes /\ fileHead' = fileHead
  BY ReachIsClosed DEF Allocation
<1>3. \A m \in Met(walk) : next'[m] = next[m]
  BY <1>1, <1>2 DEF Allocation, TypeOK
<1>4. walk' = walk
  BY <1>1, <1>2, <1>3, SameWalk
<1> QED
  BY <1>2, <1>4 DEF Reach

LEMMA ReachSetHead ==
  ASSUME TypeOK, TypeOK', Heap, NEW t \in Threads, SetHead(t)
  PROVE  /\ node[t] \in Reach'
         /\ next[node[t]] = NULL => Reach' = {node[t]}
<1>1. IsWalk(walk', fileHead', next') /\ Reach' = Met(walk')
  BY WalkWillBe, ReachIs
<1>2. fileHead' = node[t] /\ next' = next /\ node[t] \in Nodes
  BY WaitingIsOutside DEF SetHead, At, fields
<1>3. node[t] \in Met(walk')
  BY <1>1, <1>2, CountIsNat DEF IsWalk, Met
<1>4. next[node[t]] = NULL => Met(walk') \subseteq {node[t]}
  BY <1>1, <1>2, MetIsLeast
<1> QED
  BY <1>1, <1>3, <1>4

LEMMA ReachLinkTail ==
  ASSUME TypeOK, TypeOK', Heap, NEW t \in Threads, LinkTail(t), fileTail # NULL
  PROVE  /\ fileTail \notin Reach => walk' = walk /\ Reach' = Reach
         /\ fileTail \in Reach /\ next[fileTail] = NULL /\ next[node[t]] = NULL =>
              /\ Reach' = Reach \cup {node[t]}
              /\ \A i \in 1..NodeCount + 1 : walk[i] # NULL => walk'[i] = walk[i]
<1>1. /\ IsWalk(walk, fileHead, next) /\ IsWalk(walk', fileHead', next')
      /\ Reach = Met(walk) /\ Reach' = Met(walk') /\ Linked(fileHead, next, allocated)
  BY WalkIs, WalkWillBe, ReachIs DEF Heap
<1>2. /\ pc[t] = "link" /\ fileHead' = fileHead
      /\ next' = [next EXCEPT ![fileTail] = node[t]]
  BY DEF LinkTail, At, list
<1>3. \A m \in Nodes : next'[m] = IF m = fileTail THEN node[t] ELSE next[m]
  BY <1>2 DEF TypeOK
<1>4. Reach \subseteq Nodes /\ node[t] \in Nodes /\ node[t] \notin Reach
  BY <1>2, ReachIsClosed, WaitingIsOutside
<1>5. ASSUME fileTail \notin Reach
      PROVE  walk' = walk /\ Reach' = Reach
  <2>1. \A m \in Met(walk) : next'[m] = next[m]
    BY <1>1, <1>3, <1>4, <1>5
  <2>2. IsWalk(walk', fileHead, next')
    BY <1>1, <1>2
  <2>3. walk' = walk
    BY <1>1, <2>1, <2>2, SameWalk
  <2> QED
    BY <1>1, <2>3
<1>6. ASSUME fileTail \in Reach, next[fileTail] = NULL, next[node[t]] = NULL
      PROVE  /\ Reach' = Reach \cup {node[t]}
             /\ \A i \in 1..NodeCount + 1 : walk[i] # NULL => walk'[i] = walk[i]
  <2>1. fileTail \in Nodes /\ node[t] # fileTail
    BY <1>4, <1>6
  <2>2. next'[fileTail] = node[t] /\ next'[node[t]] = NULL
    BY <1>3, <1>4, <1>6, <2>1
  <2>3. \A n \in Met(walk) \ {fileTail} : next'[n] = next[n]
    BY <1>1, <1>3, <1>4
  <2>4. IsWalk(walk', fileHead, next')
    BY <1>1, <1>2
  <2>5. fileTail \in Met(walk) /\ node[t] \notin Met(walk)
    BY <1>1, <1>4, <1>6
  <2>6. PICK d \in Nodes : d = node[t]
    BY <1>4
  <2>7. /\ Met(walk') = Met(walk) \cup {d}
        /\ \A i \in 1..NodeCount + 1 : walk[i] # NULL => walk'[i] = walk[i]
    <3>1. PICK w, v, h, nx, ny, A, y :
            /\ w = walk /\ v = walk' /\ h = fileHead /\ nx = next /\ ny = next'
            /\ A = allocated /\ y = fileTail
      OBVIOUS
    <3>2. IsWalk(w, h, nx) /\ IsWalk(v, h, ny) /\ Linked(h, nx, A)
      BY <1>1, <2>4, <3>1
    <3>3. /\ y \in Met(w) /\ nx[y] = NULL /\ d \notin Met(w) /\ ny[y] = d /\ ny[d] = NULL
          /\ \A n \in Met(w) \ {y} : ny[n] = nx[n]
      BY <1>6, <2>2, <2>3, <2>5, <2>6, <3>1
    <3>4. /\ Met(v) = Met(w) \cup {d}
          /\ \A i \in 1..NodeCount + 1 : w[i] # NULL => v[i] = w[i]
      BY <3>2, <3>3, AppendedWalk
    <3> QED
      BY <3>1, <3>4
  <2> QED
    BY <1>1, <2>6, <2>7
<1> QED
  BY <1>5, <1>6

LEMMA ReachRemoval ==
  ASSUME TypeOK, TypeOK', Heap, NEW t \in Threads, UnlinkNode(t), NEW k \in 2..NodeCount,
         NEW a \in Nodes, NEW b \in Nodes, Removal(t, k, a, b)
  PROVE  /\ Reach' = Reach \ {b}
         /\ \A i \in 1..NodeCount : walk'[i] = IF i < k THEN walk[i] ELSE walk[i + 1]
<1>1. /\ IsWalk(walk, fileHead, next) /\ IsWalk(walk', fileHead', next')
      /\ Reach = Met(walk) /\ Reach' = Met(walk') /\ Linked(fileHead, next, allocated)
  BY WalkIs, WalkWillBe, ReachIs DEF Heap
<1>2. /\ fileHead' = fileHead /\ a = walk[k - 1] /\ b = walk[k]
      /\ next' = [next EXCEPT ![a] = next[b]]
  BY DEF Removal, Unlinked, UnlinkNode
<1>3. walk[k] # NULL
  BY <1>2 DEF Nodes, NULL
<1>4. IsWalk(walk', fileHead, next') /\ next' = [next EXCEPT ![walk[k - 1]] = next[walk[k]]]
  BY <1>1, <1>2
<1>5. /\ \A i \in 1..NodeCount : walk'[i] = IF i < k THEN walk[i] ELSE walk[i + 1]
      /\ Met(walk') = Met(walk) \ {walk[k]}
  <2>1. PICK w, v, h, nx, ny, A :
          /\ w = walk /\ v = walk' /\ h = fileHead /\ nx = next /\ ny = next' /\ A = allocated
    OBVIOUS
  <2>2. IsWalk(w, h, nx) /\ IsWalk(v, h, ny) /\ Linked(h, nx, A) /\ w[k] # NULL
    BY <1>1, <1>3, <1>4, <2>1
  <2>3. Unlinks(w, k, nx, ny)
    BY <1>4, <2>1 DEF Unlinks
  <2>4. /\ \A i \in 1..NodeCount : v[i] = IF i < k THEN w[i] ELSE w[i + 1]
        /\ Met(v) = Met(w) \ {w[k]}
    BY <2>2, <2>3, UnlinkedWalk
  <2> QED
    BY <2>1, <2>4
<1> QED
  BY <1>1, <1>2, <1>5

LEMMA ReachRestart ==
  ASSUME TypeOK', Restart
  PROVE  /\ Reach' = allocated'
         /\ fileHead' # NULL => fileTail' \in Reach' /\ next'[fileTail'] = NULL
<1>1. IsWalk(walk', fileHead', next') /\ Reach' = Met(walk')
  BY WalkWillBe, ReachIs
<1>2. Started(allocated', filepath', next', fileHead', fileTail', disk')
  BY RestartIsStart
<1> QED
  BY <1>1, <1>2, StartMeets

LEMMA ReachInit ==
  ASSUME Init
  PROVE  /\ Reach = allocated
         /\ fileHead # NULL => fileTail \in Reach /\ next[fileTail] = NULL
<1>1. IsWalk(walk, fileHead, next) /\ Reach = Met(walk)
  BY TypeInit, WalkIs, ReachIs
<1>2. Started(allocated, filepath, next, fileHead, fileTail, disk)
  BY InitIsStart
<1> QED
  BY <1>1, <1>2, StartMeets

----------------------------------------------------------------------------
(* The end of the list.                                                    *)

LEMMA AnchorsAre ==
  ASSUME NEW t \in Threads, \A u \in Threads : pc[u] = "tail" => u = t
  PROVE  Anchors = IF pc[t] = "tail" THEN {node[t]} ELSE {fileTail}
BY DEF Anchors

LEMMA AnchorsWillBe ==
  ASSUME NEW t \in Threads, \A u \in Threads : pc'[u] = "tail" => u = t
  PROVE  Anchors' = IF pc'[t] = "tail" THEN {node'[t]} ELSE {fileTail'}
BY DEF Anchors

\* The steps of an append.
AppendSteps == {"append", "first", "link", "tail"}

LEMMA AsideStays ==
  ASSUME TypeOK, NEW t \in Threads, Aside(t) \/ Missed(t), ~CheckHead(t), ~SetTail(t)
  PROVE  /\ fileTail' = fileTail
         /\ \A u \in Threads : \A s \in AppendSteps : pc'[u] = s <=> pc[u] = s
         /\ \A u \in Threads : pc[u] \in AppendSteps => node'[u] = node[u]
<1>1. \A u \in Threads \ {t} : pc'[u] = pc[u] /\ node'[u] = node[u]
  BY AsideKeeps
<1>2. /\ fileTail' = fileTail
      /\ pc'[t] = pc[t] \/ (pc[t] \notin AppendSteps /\ pc'[t] \notin AppendSteps)
      /\ node'[t] = node[t] \/ pc[t] \notin AppendSteps
  <2> USE DEF At, Goto, Respond, TypeOK, AppendSteps, list, local
  <2>1. CASE CheckCreate(t) \/ CheckDelete(t) \/ OpenNewFile(t)
    BY <2>1 DEF CheckCreate, CheckDelete, OpenNewFile
  <2>2. CASE RemoveFromDisk(t) \/ FindFile(t) \/ LoseReply(t) \/ UploadFile(t)
    BY <2>2 DEF RemoveFromDisk, FindFile, LoseReply, UploadFile
  <2>3. CASE Admit(t) \/ DownloadFile(t) \/ StoreCopy(t) \/ Release(t)
    BY <2>3 DEF Admit, DownloadFile, StoreCopy, Release
  <2>4. CASE Missed(t)
    <3>1. CASE removeFile(t)
      BY <3>1 DEF removeFile
    <3>2. CASE LinkTail(t) /\ fileTail = NULL
      <4>1. pc' = pc /\ node' = node /\ fileTail' = fileTail
        BY <3>2 DEF LinkTail
      <4> QED
        BY <4>1
    <3> QED
      BY <2>4, <3>1, <3>2 DEF Missed
  <2> QED
    BY <2>1, <2>2, <2>3, <2>4 DEF Aside
<1> QED
  BY <1>1, <1>2

LEMMA EndsInit == Init => Ends /\ Anchored
<1> SUFFICES ASSUME Init
             PROVE  Ends /\ Anchored
  OBVIOUS
<1>1. fileHead # NULL => fileTail \in Reach /\ next[fileTail] = NULL
  BY ReachInit
<1>2. Appending = {} /\ Bringing = {} /\ \A u \in Threads : pc[u] = "start"
  BY DEF Init, Appending, Bringing
<1>3. Anchors = {fileTail}
  BY <1>2 DEF Anchors
<1>4. fileHead = NULL => Reach = {}
  BY TypeInit, NoHeadNoNodes
<1>5. NULL \notin Reach
  BY TypeInit, HeapInit, ReachIsClosed
<1>6. EndOfList
  <2>1. \A a \in Anchors \cap Reach : next[a] = NULL
    BY <1>1, <1>3, <1>4
  <2>2. fileHead # NULL => fileTail # NULL
    BY <1>1, <1>5
  <2> QED
    BY <1>2, <2>1, <2>2 DEF EndOfList
<1> QED
  BY <1>1, <1>3, <1>6 DEF Ends, Anchored

\* Neither of the invariants about the end of the list is lost.
LEMMA EndsAside ==
  ASSUME TypeOK, TypeOK', StepsOfOps, Heap, Ends, Anchored, NEW t \in Threads,
         Aside(t) \/ Missed(t), ~CheckHead(t), ~SetTail(t)
  PROVE  Ends' /\ Anchored'
<1>1. UNCHANGED <<next, fileHead, fileTail>> /\ faults \subseteq faults' /\ Reach' = Reach
  BY AsideKeeps, AsideStays, SameNodesSameList
<1>2. /\ \A u \in Threads : \A s \in AppendSteps : pc'[u] = s <=> pc[u] = s
      /\ \A u \in Threads : pc[u] \in AppendSteps => node'[u] = node[u]
  BY AsideStays
<1>3. /\ Appending' = Appending /\ Bringing' = Bringing
      /\ \A u \in Threads : pc'[u] = "tail" <=> pc[u] = "tail"
      /\ \A u \in Threads : pc'[u] = "first" <=> pc[u] = "first"
  BY <1>2 DEF Appending, Bringing, AppendSteps
<1>4. \A u \in Bringing : node'[u] = node[u]
  BY <1>2 DEF Bringing, AppendSteps
<1>5. Anchors' = Anchors
  <2>1. \A u \in Threads : pc[u] = "tail" => node'[u] = node[u]
    BY <1>2 DEF AppendSteps
  <2>2. PICK S, T : S = {u \in Threads : pc[u] = "tail"} /\ T = {u \in Threads : pc'[u] = "tail"}
    OBVIOUS
  <2>3. S = T /\ \A u \in S : node'[u] = node[u]
    BY <1>3, <2>1, <2>2
  <2>4. {node[u] : u \in S} = {node'[u] : u \in T}
    BY <2>3
  <2>5. (\E u \in Threads : pc[u] = "tail") <=> (\E u \in Threads : pc'[u] = "tail")
    BY <1>3
  <2> QED
    BY <1>1, <2>2, <2>4, <2>5, SMTT(60) DEF Anchors
<1>6. EndOfList => EndOfList'
  BY <1>1, <1>3, <1>4, <1>5 DEF EndOfList
<1> QED
  BY <1>1, <1>5, <1>6 DEF Ends, Anchored

LEMMA EndsCheckHead ==
  ASSUME TypeOK, TypeOK', Heap, Ends, Anchored, NEW t \in Threads, CheckHead(t)
  PROVE  Ends' /\ Anchored'
<1>1. /\ pc[t] = "append" /\ UNCHANGED <<next, fileHead, fileTail, node>>
      /\ \A u \in Threads \ {t} : pc'[u] = pc[u]
      /\ pc'[t] = IF fileHead = NULL THEN "first" ELSE "link"
      /\ faults' = IF Appending = {} THEN faults ELSE faults \cup {"raced"}
  BY DEF CheckHead, At, Goto, fields, list, local, TypeOK
<1>2. SUFFICES ASSUME "raced" \notin faults'
               PROVE  EndOfList' /\ Anchored'
  BY DEF Ends, Anchored
<1>3. Appending = {} /\ faults' = faults /\ EndOfList
  BY <1>1, <1>2 DEF Ends
<1>4. Appending' = {t} /\ \A u \in Threads : pc[u] # "tail" /\ pc'[u] # "tail"
  BY <1>1, <1>3 DEF Appending
<1>5. Bringing' = Bringing /\ Reach' = Reach
  BY <1>1, SameNodesSameList DEF Bringing
<1>6. Anchors' = Anchors
  BY <1>1, <1>4 DEF Anchors
<1>7. \A u \in Threads : pc'[u] = "first" => fileHead = NULL
  BY <1>1, <1>3 DEF Appending
<1>8. EndOfList'
  BY <1>1, <1>3, <1>4, <1>5, <1>6, <1>7 DEF EndOfList
<1> QED
  BY <1>1, <1>3, <1>5, <1>6, <1>8 DEF Anchored

LEMMA EndsSetTail ==
  ASSUME TypeOK, TypeOK', StepsOfOps, Heap, Ends, Anchored, NEW t \in Threads, SetTail(t)
  PROVE  Ends' /\ Anchored'
<1>1. /\ pc[t] = "tail" /\ UNCHANGED <<next, fileHead, node, faults>> /\ fileTail' = node[t]
      /\ \A u \in Threads : pc'[u] = IF u = t THEN "done" ELSE pc[u]
  BY DEF SetTail, At, Respond, Goto, fields, local, TypeOK
<1>2. SUFFICES ASSUME "raced" \notin faults
               PROVE  EndOfList' /\ Anchored'
  BY <1>1 DEF Ends, Anchored
<1>3. EndOfList
  BY <1>2 DEF Ends
<1>4. \A u \in Threads : pc[u] \in {"first", "link", "tail"} => u = t
  BY <1>1, <1>3 DEF EndOfList, Appending
<1>5. Appending' = {} /\ \A u \in Threads : pc'[u] # "tail" /\ pc'[u] # "first"
  BY <1>1, <1>4 DEF Appending
<1>6. Bringing' = Bringing /\ Reach' = Reach
  BY <1>1, SameNodesSameList DEF Bringing
<1>7. Anchors = {node[t]} /\ Anchors' = {node[t]}
  <2>1. Anchors = {node[t]}
    BY <1>1, <1>4, AnchorsAre
  <2>2. Anchors' = {fileTail'}
    BY <1>5 DEF Anchors
  <2> QED
    BY <1>1, <2>1, <2>2
<1>8. node[t] # NULL
  BY <1>1 DEF StepsOfOps
<1>9. EndOfList'
  BY <1>1, <1>3, <1>5, <1>6, <1>7, <1>8 DEF EndOfList
<1> QED
  BY <1>1, <1>6, <1>7, <1>9 DEF Anchored

LEMMA EndsAllocation ==
  ASSUME TypeOK, TypeOK', Heap, Ends, Anchored, NEW t \in Threads, NEW n \in Nodes,
         Allocation(t, n)
  PROVE  Ends' /\ Anchored'
<1>1. /\ UNCHANGED <<fileHead, fileTail, faults>> /\ n \notin allocated
      /\ pc[t] = "allocate"
      /\ \A u \in Threads : pc'[u] = IF u = t THEN "append" ELSE pc[u]
      /\ \A u \in Threads : node'[u] = IF u = t THEN n ELSE node[u]
      /\ \A m \in Nodes : next'[m] = IF m = n THEN NULL ELSE next[m]
  BY DEF Allocation, TypeOK
<1>2. Reach' = Reach /\ n \notin Reach /\ Reach \subseteq Nodes
  BY ReachAllocation, ReachIsClosed
<1>3. /\ Appending' = Appending
      /\ \A u \in Threads : pc'[u] = "tail" <=> pc[u] = "tail"
      /\ \A u \in Threads : pc'[u] = "first" <=> pc[u] = "first"
  BY <1>1 DEF Appending
<1>4. Anchors' = Anchors
  <2>1. \A u \in Threads : pc[u] = "tail" => node'[u] = node[u]
    BY <1>1
  <2> QED
    BY <1>1, <1>3, <2>1 DEF Anchors
<1>5. ASSUME \A u \in Bringing : next[node[u]] = NULL
      PROVE  \A u \in Bringing' : next'[node'[u]] = NULL
  <2> SUFFICES ASSUME NEW u \in Threads, pc'[u] \in {"append", "first", "link"}
               PROVE  next'[node'[u]] = NULL
    BY DEF Bringing
  <2>1. CASE u = t
    BY <1>1, <2>1
  <2>2. CASE u # t
    <3>1. pc[u] \in {"append", "first", "link"} /\ node'[u] = node[u]
      BY <1>1, <2>2
    <3>2. node[u] \in Nodes /\ next[node[u]] = NULL
      BY <1>5, <3>1, WaitingIsOutside DEF Bringing
    <3> QED
      BY <1>1, <3>1, <3>2
  <2> QED
    BY <2>1, <2>2
<1>6. EndOfList => EndOfList'
  <2>1. \A a \in Reach : next'[a] = next[a]
    BY <1>1, <1>2
  <2> QED
    BY <1>1, <1>2, <1>3, <1>4, <1>5, <2>1 DEF EndOfList
<1> QED
  BY <1>1, <1>2, <1>4, <1>6 DEF Ends, Anchored

LEMMA EndsSetHead ==
  ASSUME TypeOK, TypeOK', Heap, Ends, Anchored, NEW t \in Threads, SetHead(t)
  PROVE  Ends' /\ Anchored'
<1>1. /\ pc[t] = "first" /\ fileHead' = node[t] /\ UNCHANGED <<next, node, faults>>
      /\ \A u \in Threads : pc'[u] = IF u = t THEN "tail" ELSE pc[u]
  BY DEF SetHead, At, Goto, fields, local, TypeOK
<1>2. SUFFICES ASSUME "raced" \notin faults
               PROVE  EndOfList' /\ Anchored'
  BY <1>1 DEF Ends, Anchored
<1>3. EndOfList
  BY <1>2 DEF Ends
<1>4. \A u \in Threads : pc[u] \in {"first", "link", "tail"} => u = t
  BY <1>1, <1>3 DEF EndOfList, Appending
<1>5. \A u \in Threads : pc'[u] \in {"first", "link", "tail"} => u = t /\ pc'[u] = "tail"
  BY <1>1, <1>4
<1>6. fileHead = NULL
  BY <1>1, <1>3 DEF EndOfList
<1>7. \A u \in Bringing : next[node[u]] = NULL
  BY <1>3, <1>6 DEF EndOfList
<1>8. t \in Bringing /\ Bringing' \subseteq Bringing
  BY <1>1 DEF Bringing
<1>9. Anchors' = {node[t]}
  BY <1>1, <1>5, AnchorsWillBe
<1>10. node[t] \in Reach' /\ node[t] # NULL
  BY <1>1, ReachSetHead, WaitingIsOutside, ReachIsClosed
<1>11. EndOfList'
  <2>1. \A u, v \in Appending' : u = v
    BY <1>5 DEF Appending
  <2>2. \A u \in Threads : pc'[u] # "first"
    BY <1>5
  <2>3. \A a \in Anchors' \cap Reach' : next'[a] = NULL
    BY <1>1, <1>7, <1>8, <1>9
  <2>4. \A u \in Bringing' : next'[node'[u]] = NULL
    BY <1>1, <1>7, <1>8
  <2>5. pc'[t] = "tail"
    BY <1>1
  <2> QED
    BY <1>1, <1>10, <2>1, <2>2, <2>3, <2>4, <2>5 DEF EndOfList
<1>12. Anchored'
  BY <1>9, <1>10 DEF Anchored
<1> QED
  BY <1>11, <1>12

LEMMA EndsLinkTail ==
  ASSUME TypeOK, TypeOK', Heap, Ends, Anchored, NEW t \in Threads, LinkTail(t),
         fileTail # NULL
  PROVE  Ends' /\ Anchored'
<1>1. /\ pc[t] = "link" /\ UNCHANGED <<fileHead, fileTail, node, faults>>
      /\ \A u \in Threads : pc'[u] = IF u = t THEN "tail" ELSE pc[u]
      /\ \A m \in Nodes : next'[m] = IF m = fileTail THEN node[t] ELSE next[m]
  BY DEF LinkTail, At, Goto, list, TypeOK
<1>2. SUFFICES ASSUME "raced" \notin faults
               PROVE  EndOfList' /\ Anchored'
  BY <1>1 DEF Ends, Anchored
<1>3. EndOfList
  BY <1>2 DEF Ends
<1>4. \A u \in Threads : pc[u] \in {"first", "link", "tail"} => u = t
  BY <1>1, <1>3 DEF EndOfList, Appending
<1>5. \A u \in Threads : pc'[u] \in {"first", "link", "tail"} => u = t /\ pc'[u] = "tail"
  BY <1>1, <1>4
<1>6. fileHead # NULL
  BY <1>1, HeapIs DEF Waiting
<1>7. t \in Bringing /\ Bringing' \subseteq Bringing
  BY <1>1 DEF Bringing
<1>8. Anchors' = {node[t]} /\ Anchors = {fileTail}
  <2>1. Anchors' = {node[t]}
    BY <1>1, <1>5, AnchorsWillBe
  <2>2. Anchors = {fileTail}
    BY <1>1, <1>4 DEF Anchors
  <2> QED
    BY <2>1, <2>2
<1>9. node[t] \notin Reach /\ node[t] \in Nodes
  BY <1>1, WaitingIsOutside
<1>10. /\ \A u, v \in Appending' : u = v
       /\ \A u \in Threads : pc'[u] # "first"
       /\ pc'[t] = "tail"
  BY <1>1, <1>5 DEF Appending
<1>11. CASE fileTail \notin Reach
  <2>1. Reach' = Reach
    BY <1>11, ReachLinkTail
  <2>2. Anchors' \cap Reach' = {}
    BY <1>8, <1>9, <2>1
  <2>3. EndOfList'
    BY <1>1, <1>6, <1>10, <2>2 DEF EndOfList
  <2>4. Anchored'
    BY <1>1, <1>2, <1>6, <1>8, <1>11 DEF Anchored
  <2> QED
    BY <2>3, <2>4
<1>12. CASE fileTail \in Reach
  <2>1. next[fileTail] = NULL /\ \A u \in Bringing : next[node[u]] = NULL
    BY <1>3, <1>8, <1>12 DEF EndOfList
  <2>2. Reach' = Reach \cup {node[t]}
    BY <1>7, <1>12, <2>1, ReachLinkTail
  <2>3. \A u \in Bringing : node[u] \in Nodes /\ node[u] # fileTail
    BY <1>12, WaitingIsOutside DEF Bringing
  <2>4. \A u \in Bringing : next'[node'[u]] = NULL
    BY <1>1, <2>1, <2>3
  <2>5. \A a \in Anchors' \cap Reach' : next'[a] = NULL
    BY <1>1, <1>7, <1>8, <2>4
  <2>6. EndOfList'
    BY <1>1, <1>6, <1>7, <1>10, <2>4, <2>5 DEF EndOfList
  <2>7. Anchored'
    BY <1>8, <2>2 DEF Anchored
  <2> QED
    BY <2>6, <2>7
<1> QED
  BY <1>11, <1>12

LEMMA EndsRemoval ==
  ASSUME TypeOK, TypeOK', Heap, Ends, Anchored, NEW t \in Threads, UnlinkNode(t),
         NEW k \in 2..NodeCount, NEW a \in Nodes, NEW b \in Nodes, Removal(t, k, a, b)
  PROVE  Ends' /\ Anchored'
<1>1. /\ UNCHANGED <<fileHead, fileTail, node>> /\ pc[t] = "unlink"
      /\ \A u \in Threads : pc'[u] = IF u = t THEN "done" ELSE pc[u]
  BY DEF UnlinkNode, At, Respond, Goto, TypeOK
<1>2. /\ b \in Reach /\ b \in allocated /\ a \in allocated /\ next[a] = b /\ b # NULL
      /\ faults \subseteq faults'
      /\ b \in Tails => "tailFreed" \in faults'
      /\ \A m \in Nodes : next'[m] = IF m = a THEN next[b] ELSE next[m]
  BY DEF Removal, Unlinked, TypeOK, Nodes, NULL
<1>3. Reach' = Reach \ {b} /\ Reach \subseteq Nodes
  BY ReachRemoval, ReachIsClosed
<1>4. /\ Appending' = Appending /\ Bringing' = Bringing
      /\ \A u \in Threads : pc'[u] = "tail" <=> pc[u] = "tail"
      /\ \A u \in Threads : pc'[u] = "first" <=> pc[u] = "first"
  BY <1>1 DEF Appending, Bringing
<1>5. Anchors' = Anchors /\ Anchors \subseteq Tails
  BY <1>1, <1>4 DEF Anchors, Tails
<1>6. \A u \in Bringing : node[u] \in Nodes /\ node[u] # a
  <2>1. \A u \in Bringing : Waiting(u)
    BY HeapIs DEF Bringing
  <2>2. a \in Reach
    <3>1. b # fileHead
      BY <1>2 DEF Heap, Linked
    <3>2. PICK m \in Reach : next[m] = b
      BY <1>2, <3>1, ReachIsClosed
    <3>3. m \in allocated
      BY <3>2, ReachIsClosed
    <3>4. m = a
      BY <1>2, <3>2, <3>3 DEF Heap, Linked
    <3> QED
      BY <3>2, <3>4
  <2> QED
    BY <2>2, WaitingIsOutside DEF Bringing
<1>7. EndOfList => EndOfList'
  <2> SUFFICES ASSUME EndOfList
               PROVE  EndOfList'
    OBVIOUS
  <2>1. \A x \in Anchors' \cap Reach' : next'[x] = NULL
    <3> TAKE x \in Anchors' \cap Reach'
    <3>1. x \in Anchors \cap Reach /\ x \in Nodes
      BY <1>3, <1>5
    <3>2. next[x] = NULL /\ x # a
      BY <1>2, <3>1 DEF EndOfList
    <3> QED
      BY <1>2, <3>1, <3>2
  <2>2. fileHead = NULL \/ Anchors' \cap Reach' # {} =>
          \A u \in Bringing : next'[node'[u]] = NULL
    <3>1. fileHead = NULL \/ Anchors' \cap Reach' # {} =>
            \A u \in Bringing : next[node[u]] = NULL
      BY <1>3, <1>5 DEF EndOfList
    <3> QED
      BY <1>1, <1>2, <1>6, <3>1
  <2> QED
    BY <1>1, <1>4, <1>5, <2>1, <2>2 DEF EndOfList
<1>8. Anchored'
  <2> SUFFICES ASSUME {"raced", "tailFreed"} \cap faults' = {}
               PROVE  fileHead' = NULL \/ Anchors' \cap Reach' # {}
    BY DEF Anchored
  <2>1. {"raced", "tailFreed"} \cap faults = {} /\ b \notin Tails
    BY <1>2
  <2>2. fileHead = NULL \/ Anchors \cap Reach # {}
    BY <2>1 DEF Anchored
  <2> QED
    BY <1>1, <1>3, <1>5, <2>1, <2>2
<1> QED
  BY <1>2, <1>7, <1>8 DEF Ends

LEMMA EndsRestart ==
  ASSUME TypeOK, TypeOK', Heap', Restart
  PROVE  Ends' /\ Anchored'
<1>1. fileHead' # NULL => fileTail' \in Reach' /\ next'[fileTail'] = NULL
  BY ReachRestart
<1>2. \A u \in Threads : pc'[u] \in {"start", "done"}
  BY DEF Restart
<1>3. Appending' = {} /\ Bringing' = {}
  BY <1>2 DEF Appending, Bringing
<1>4. Anchors' = {fileTail'}
  BY <1>2 DEF Anchors
<1>5. fileHead' = NULL => Reach' = {}
  <2>1. IsWalk(walk', fileHead', next') /\ Reach' = Met(walk')
    BY WalkWillBe, ReachIs
  <2>2. Started(allocated', filepath', next', fileHead', fileTail', disk')
    BY RestartIsStart
  <2> QED
    BY <2>1, <2>2, StartMeets
<1>6. NULL \notin Reach'
  BY DEF Reach, Nodes, NULL
<1>7. EndOfList'
  <2>1. \A a \in Anchors' \cap Reach' : next'[a] = NULL
    BY <1>1, <1>4, <1>5
  <2>2. fileHead' # NULL => fileTail' # NULL
    BY <1>1, <1>6
  <2> QED
    BY <1>2, <1>3, <2>1, <2>2 DEF EndOfList
<1>8. Anchored'
  BY <1>1, <1>4 DEF Anchored
<1> QED
  BY <1>7, <1>8 DEF Ends

(* A removal of what is in no list any more.                               *)
LEMMA Detached ==
  ASSUME Sought, NEW t \in Threads, NEW a, NEW b, UnlinkNode(t), Unlinked(t, a, b),
         b \notin Reach
  PROVE  "raced" \in faults'
<1>1. pc[t] = "unlink" /\ t \notin stale /\ b = ptr2[t] /\ faults \subseteq faults'
  BY DEF UnlinkNode, At, Unlinked
<1> QED
  BY <1>1 DEF Sought

LEMMA EndsStep ==
  ASSUME TypeOK, TypeOK', StepsOfOps, Heap, Ends, Anchored, Sought, [Next]_vars, ~Restart,
         "crossed" \notin faults'
  PROVE  Ends' /\ Anchored'
<1>1. CASE UNCHANGED vars
  <2>1. UNCHANGED <<next, fileHead, fileTail, pc, node, faults>>
    BY <1>1 DEF vars, list, local, fields
  <2>2. Reach' = Reach
    BY <2>1, SameNodesSameList
  <2>3. Anchors' = Anchors /\ Appending' = Appending /\ Bringing' = Bringing
    BY <2>1 DEF Anchors, Appending, Bringing
  <2> QED
    BY <2>1, <2>2, <2>3 DEF Ends, EndOfList, Anchored
<1>2. CASE "raced" \in faults'
  BY <1>2 DEF Ends, Anchored
<1> QED
  BY <1>1, <1>2, StepIs, Detached, EndsAside, EndsCheckHead, EndsSetTail, EndsAllocation,
     EndsSetHead, EndsLinkTail, EndsRemoval

----------------------------------------------------------------------------
(* The nodes that are to be removed.                                       *)

LEMMA SoughtInit == Init => Sought
BY DEF Init, Sought

(* The list loses no node that is to be removed.                           *)
LEMMA SoughtOn ==
  ASSUME Sought, faults \subseteq faults',
         "raced" \notin faults' => \A u \in Threads : pc'[u] = "unlink" /\ u \notin stale' =>
           /\ pc[u] = "unlink" /\ u \notin stale /\ ptr2'[u] = ptr2[u]
           /\ ptr2[u] \in Reach => ptr2[u] \in Reach'
  PROVE  Sought'
BY DEF Sought

LEMMA SoughtAside ==
  ASSUME TypeOK, TypeOK', Heap, Sought, NEW t \in Threads, Aside(t) \/ Missed(t)
  PROVE  Sought'
<1>1. /\ UNCHANGED <<next, fileHead, stale>> /\ faults \subseteq faults'
      /\ \A u \in Threads \ {t} : pc'[u] = pc[u] /\ ptr2'[u] = ptr2[u]
  BY AsideKeeps
<1>2. Reach' = Reach
  BY <1>1, SameNodesSameList
<1>3. pc'[t] = "unlink" => removeFile(t)
  BY AsideSearches
<1>4. pc'[t] = "unlink" => ptr2'[t] \in Reach
  BY <1>3, SearchIs DEF Search
<1> QED
  BY <1>1, <1>2, <1>4 DEF Sought

LEMMA SoughtAllocation ==
  ASSUME TypeOK, TypeOK', Heap, Sought, NEW t \in Threads, NEW n \in Nodes, Allocation(t, n)
  PROVE  Sought'
<1>1. /\ UNCHANGED <<ptr2, stale, faults>>
      /\ \A u \in Threads : pc'[u] = IF u = t THEN "append" ELSE pc[u]
  BY DEF Allocation, TypeOK
<1>2. Reach' = Reach
  BY ReachAllocation
<1> QED
  BY <1>1, <1>2, SoughtOn

LEMMA SoughtSetHead ==
  ASSUME TypeOK, TypeOK', Heap, Ends, Sought, NEW t \in Threads, SetHead(t)
  PROVE  Sought'
<1>1. /\ pc[t] = "first" /\ UNCHANGED <<ptr2, stale, faults>>
      /\ \A u \in Threads : pc'[u] = IF u = t THEN "tail" ELSE pc[u]
  BY DEF SetHead, At, Goto, local, TypeOK
<1>2. "raced" \notin faults => fileHead = NULL
  BY <1>1 DEF Ends, EndOfList
<1>3. "raced" \notin faults => Reach = {}
  BY <1>2, NoHeadNoNodes
<1> QED
  BY <1>1, <1>3, SoughtOn

LEMMA SoughtLinkTail ==
  ASSUME TypeOK, TypeOK', Heap, Ends, Sought, NEW t \in Threads, LinkTail(t), fileTail # NULL
  PROVE  Sought'
<1>1. /\ pc[t] = "link" /\ UNCHANGED <<ptr2, faults>> /\ stale \subseteq stale'
      /\ \A u \in Threads : pc'[u] = IF u = t THEN "tail" ELSE pc[u]
  BY DEF LinkTail, At, Goto, TypeOK
<1>2. SUFFICES ASSUME "raced" \notin faults
               PROVE  Sought'
  BY <1>1 DEF Sought
<1>3. EndOfList
  BY <1>2 DEF Ends
<1>4. \A u \in Threads : pc[u] # "tail"
  BY <1>1, <1>3 DEF EndOfList, Appending
<1>5. Anchors = {fileTail}
  BY <1>4 DEF Anchors
<1>6. fileTail \in Reach => next[fileTail] = NULL /\ next[node[t]] = NULL
  BY <1>1, <1>3, <1>5 DEF EndOfList, Bringing
<1>7. Reach \subseteq Reach'
  BY <1>6, ReachLinkTail
<1> QED
  BY <1>1, <1>7, SoughtOn

LEMMA SoughtRemoval ==
  ASSUME TypeOK, TypeOK', Heap, Sought, NEW t \in Threads, UnlinkNode(t),
         NEW k \in 2..NodeCount, NEW a \in Nodes, NEW b \in Nodes, Removal(t, k, a, b)
  PROVE  Sought'
<1>1. /\ \A u \in Threads : pc'[u] = IF u = t THEN "done" ELSE pc[u]
      /\ \A u \in Threads \ {t} : ptr2'[u] = ptr2[u]
  BY DEF UnlinkNode, Respond, Goto, TypeOK
<1>2. stale' = (stale \cup Removing({a, b})) \ {t} /\ faults \subseteq faults'
  BY DEF Removal, Unlinked
<1>3. Reach' = Reach \ {b}
  BY ReachRemoval
<1>4. ASSUME NEW u \in Threads, pc'[u] = "unlink", u \notin stale'
      PROVE  u # t /\ pc[u] = "unlink" /\ u \notin stale /\ ptr2[u] # b
  BY <1>1, <1>2, <1>4 DEF Removing
<1> QED
  BY <1>1, <1>2, <1>3, <1>4, SoughtOn

LEMMA SoughtRestart ==
  ASSUME Restart
  PROVE  Sought'
<1>1. \A u \in Threads : pc'[u] \in {"start", "done"}
  BY DEF Restart
<1> QED
  BY <1>1 DEF Sought

LEMMA SoughtStep ==
  ASSUME TypeOK, TypeOK', Heap, Ends, Sought, [Next]_vars, ~Restart, "crossed" \notin faults'
  PROVE  Sought'
<1>1. CASE UNCHANGED vars
  <2>1. UNCHANGED <<next, fileHead, pc, ptr2, stale, faults>>
    BY <1>1 DEF vars, list, local, fields
  <2>2. Reach' = Reach
    BY <2>1, SameNodesSameList
  <2> QED
    BY <2>1, <2>2, SoughtOn
<1>2. CASE "raced" \in faults'
  BY <1>2 DEF Sought
<1> QED
  BY <1>1, <1>2, StepIs, Detached, SoughtAside, SoughtAllocation, SoughtSetHead,
     SoughtLinkTail, SoughtRemoval

----------------------------------------------------------------------------
(* The list against the disk.                                              *)

\* The threads at one of the steps C for the path p.
Counted(C, p) == {u \in Threads : pc[u] \in C /\ Path(u) = p}

\* One or none.
In(s, C) == IF s \in C THEN 1 ELSE 0

CreateSteps == {"allocate", "append", "first", "link"}
DeleteSteps == {"unlist", "unlink"}

LEMMA CountMoves ==
  ASSUME UNCHANGED request, NEW t \in Threads,
         \A u \in Threads \ {t} : pc'[u] = pc[u],
         NEW C, NEW p
  PROVE  /\ Cardinality(Counted(C, p)) \in Nat
         /\ Cardinality(Counted(C, p)') \in Nat
         /\ Cardinality(Counted(C, p)') =
              Cardinality(Counted(C, p))
              + (IF Path(t) = p THEN In(pc'[t], C) - In(pc[t], C) ELSE 0)
<1>1. IsFiniteSet(Counted(C, p)) /\ IsFiniteSet(Counted(C, p)')
  <2>1. Counted(C, p) \subseteq Threads /\ Counted(C, p)' \subseteq Threads
    BY DEF Counted
  <2> QED
    BY <2>1, ThreadsAssumption, FS_Subset
<1>2. Cardinality(Counted(C, p)) \in Nat /\ Cardinality(Counted(C, p)') \in Nat
  BY <1>1, FS_CardinalityType
<1>3. \A u \in Threads : Path(u)' = Path(u)
  BY DEF Path
<1>4. Counted(C, p)' = {u \in Threads : pc'[u] \in C /\ Path(u) = p}
  BY <1>3 DEF Counted
<1>5. CASE Path(t) # p \/ (pc[t] \in C <=> pc'[t] \in C)
  <2>1. Counted(C, p)' = Counted(C, p)
    BY <1>4, <1>5 DEF Counted
  <2>2. (IF Path(t) = p THEN In(pc'[t], C) - In(pc[t], C) ELSE 0) = 0
    BY <1>5 DEF In
  <2> QED
    BY <1>2, <2>1, <2>2
<1>6. CASE Path(t) = p /\ pc[t] \notin C /\ pc'[t] \in C
  <2>1. Counted(C, p)' = Counted(C, p) \cup {t} /\ t \notin Counted(C, p)
    BY <1>4, <1>6 DEF Counted
  <2>2. Cardinality(Counted(C, p)') = Cardinality(Counted(C, p)) + 1
    BY <1>1, <2>1, FS_AddElement
  <2> QED
    BY <1>2, <1>6, <2>2 DEF In
<1>7. CASE Path(t) = p /\ pc[t] \in C /\ pc'[t] \notin C
  <2>1. Counted(C, p)' = Counted(C, p) \ {t} /\ t \in Counted(C, p)
    BY <1>4, <1>7 DEF Counted
  <2>2. Cardinality(Counted(C, p)') = Cardinality(Counted(C, p)) - 1
    BY <1>1, <2>1, FS_RemoveElement
  <2> QED
    BY <1>2, <1>7, <2>2 DEF In
<1> QED
  BY <1>5, <1>6, <1>7

\* The two sides of the account of a path.
Balanced(p) ==
  Cardinality(Listed(p)) + Cardinality(Counted(CreateSteps, p)) =
    OnDisk(p) + Cardinality(Counted(DeleteSteps, p))

LEMMA AccountsAre ==
  /\ Accounts <=> (faults \subseteq {"pulled"} => \A p \in Paths : Balanced(p))
  /\ Accounts' <=> (faults' \subseteq {"pulled"} => \A p \in Paths : Balanced(p)')
BY DEF Accounts, Balanced, Creating, Deleting, Counted, CreateSteps, DeleteSteps

LEMMA ListedIsFinite ==
  ASSUME NEW p
  PROVE  /\ IsFiniteSet(Listed(p)) /\ Cardinality(Listed(p)) \in Nat
         /\ IsFiniteSet(Listed(p)') /\ Cardinality(Listed(p)') \in Nat
<1>1. Listed(p) \subseteq 1..NodeCount /\ Listed(p)' \subseteq 1..NodeCount
  BY DEF Listed, Reach, Nodes
<1>2. IsFiniteSet(1..NodeCount)
  BY CountIsNat, FS_Interval
<1> QED
  BY <1>1, <1>2, FS_Subset, FS_CardinalityType

(* How much one step of a thread adds to each part of the account.         *)
Made(t)    == In(pc'[t], CreateSteps) - In(pc[t], CreateSteps)
Removed(t) == In(pc'[t], DeleteSteps) - In(pc[t], DeleteSteps)

LEMMA BalanceMoves ==
  ASSUME TypeOK, UNCHANGED request, NEW t \in Threads,
         \A u \in Threads \ {t} : pc'[u] = pc[u],
         NEW p \in Paths, Balanced(p),
         NEW more \in Int, Cardinality(Listed(p)') = Cardinality(Listed(p)) + more,
         more + (IF Path(t) = p THEN Made(t) ELSE 0) =
           OnDisk(p)' - OnDisk(p) + (IF Path(t) = p THEN Removed(t) ELSE 0)
  PROVE  Balanced(p)'
<1>1. PICK l, m, c, d, e, f :
        /\ l = Cardinality(Listed(p)) /\ m = Cardinality(Listed(p)')
        /\ c = Cardinality(Counted(CreateSteps, p))
        /\ d = Cardinality(Counted(CreateSteps, p)')
        /\ e = Cardinality(Counted(DeleteSteps, p))
        /\ f = Cardinality(Counted(DeleteSteps, p)')
  OBVIOUS
<1>2. l \in Nat /\ m \in Nat
  BY <1>1, ListedIsFinite
<1>3. PICK a \in Int, b \in Int :
        /\ a = In(pc'[t], CreateSteps) - In(pc[t], CreateSteps)
        /\ b = In(pc'[t], DeleteSteps) - In(pc[t], DeleteSteps)
  <2>1. ASSUME NEW s, NEW C PROVE In(s, C) \in Int
    BY DEF In
  <2>2. /\ In(pc'[t], CreateSteps) \in Int /\ In(pc[t], CreateSteps) \in Int
        /\ In(pc'[t], DeleteSteps) \in Int /\ In(pc[t], DeleteSteps) \in Int
    BY <2>1
  <2>3. /\ In(pc'[t], CreateSteps) - In(pc[t], CreateSteps) \in Int
        /\ In(pc'[t], DeleteSteps) - In(pc[t], DeleteSteps) \in Int
    BY <2>2
  <2> QED
    BY <2>3
<1>4. c \in Nat /\ d \in Nat /\ d = c + (IF Path(t) = p THEN a ELSE 0)
  BY <1>1, <1>3, CountMoves
<1>5. e \in Nat /\ f \in Nat /\ f = e + (IF Path(t) = p THEN b ELSE 0)
  BY <1>1, <1>3, CountMoves
<1>6. PICK x \in Int, y \in Int : x = OnDisk(p) /\ y = OnDisk(p)'
  BY DEF OnDisk
<1>7. l + c = x + e
  BY <1>1, <1>6 DEF Balanced
<1>8. m = l + more
  BY <1>1
<1>9. more + (IF Path(t) = p THEN a ELSE 0) = y - x + (IF Path(t) = p THEN b ELSE 0)
  BY <1>3, <1>6 DEF Made, Removed
<1>10. m + d = y + f
  <2> HIDE <1>1, <1>3, <1>6
  <2> QED
    BY <1>2, <1>4, <1>5, <1>7, <1>8, <1>9
<1>11. CreateSteps' = CreateSteps /\ DeleteSteps' = DeleteSteps
  BY DEF CreateSteps, DeleteSteps
<1> QED
  BY <1>1, <1>6, <1>10 DEF Balanced

(* A step that neither lists nor unlists a node.                           *)
LEMMA ListedStays ==
  ASSUME TypeOK, TypeOK', UNCHANGED <<next, fileHead, filepath>>, NEW p
  PROVE  /\ Cardinality(Listed(p)') = Cardinality(Listed(p)) + 0
         /\ Listed(p)' = Listed(p)
<1>1. Reach' = Reach
  BY SameNodesSameList
<1>2. Listed(p)' = Listed(p)
  BY <1>1 DEF Listed
<1> QED
  BY <1>2, ListedIsFinite

\* What the steps beside the list mean for the account.
LEMMA AsideBalance ==
  ASSUME TypeOK, NEW t \in Threads, Aside(t) \/ Missed(t), faults' \subseteq {"pulled"}
  PROVE  \/ disk' = disk /\ Made(t) = 0 /\ Removed(t) = 0
         \/ /\ Path(t) \notin disk /\ disk' = disk \cup {Path(t)}
            /\ Made(t) = 1 /\ Removed(t) = 0
         \/ /\ Path(t) \in disk /\ disk' = disk \ {Path(t)}
            /\ Made(t) = 0 /\ Removed(t) = 1
<1> USE DEF At, Goto, Respond, TypeOK, Made, Removed, In, CreateSteps, DeleteSteps
<1>1. CASE CheckCreate(t) \/ CheckDelete(t) \/ CheckHead(t) \/ SetTail(t)
  <2>1. /\ disk' = disk /\ pc[t] \in {"start", "append", "tail"}
        /\ pc[t] = "append" => pc'[t] \in {"first", "link"}
        /\ pc[t] # "append" => pc'[t] \in {"open", "remove", "done"}
    BY <1>1 DEF CheckCreate, CheckDelete, CheckHead, SetTail
  <2> QED
    BY <2>1
<1>2. CASE OpenNewFile(t)
  BY <1>2 DEF OpenNewFile
<1>3. CASE RemoveFromDisk(t)
  BY <1>3 DEF RemoveFromDisk
<1>4. CASE FindFile(t) \/ LoseReply(t) \/ UploadFile(t) \/ Admit(t) \/ Release(t)
  <2>1. /\ disk' = disk /\ pc[t] \in {"start", "admit", "transfer", "release"}
        /\ pc'[t] \in {"admit", "transfer", "release", "done"}
    <3>1. CASE FindFile(t) \/ LoseReply(t) \/ UploadFile(t)
      BY <3>1 DEF FindFile, LoseReply, UploadFile
    <3>2. CASE Admit(t) \/ Release(t)
      BY <3>2 DEF Admit, Release
    <3> QED
      BY <1>4, <3>1, <3>2
  <2> QED
    BY <2>1
<1>5. CASE DownloadFile(t) \/ StoreCopy(t)
  <2>1. /\ disk' = disk /\ pc[t] \in {"transfer", "start"}
        /\ pc'[t] \in {"release", "done"}
    BY <1>5 DEF DownloadFile, StoreCopy
  <2> QED
    BY <2>1
<1>6. CASE Missed(t)
  <2>1. CASE removeFile(t)
    <3>1. disk' = disk /\ pc[t] = "unlist" /\ pc'[t] = "unlink"
      BY <2>1 DEF removeFile
    <3> QED
      BY <3>1
  <2>2. CASE LinkTail(t) /\ fileTail = NULL
    <3>1. disk' = disk /\ pc' = pc
      BY <2>2 DEF LinkTail
    <3> QED
      BY <3>1
  <2> QED
    BY <1>6, <2>1, <2>2 DEF Missed
<1> QED
  BY <1>1, <1>2, <1>3, <1>4, <1>5, <1>6 DEF Aside

LEMMA AccountsAside ==
  ASSUME TypeOK, TypeOK', Heap, Accounts, NEW t \in Threads, Aside(t) \/ Missed(t)
  PROVE  Accounts'
<1>1. SUFFICES ASSUME faults' \subseteq {"pulled"}, NEW p \in Paths
               PROVE  Balanced(p)'
  BY AccountsAre
<1>2. /\ UNCHANGED <<request, allocated, filepath, next, fileHead>>
      /\ \A u \in Threads \ {t} : pc'[u] = pc[u]
      /\ faults \subseteq faults'
  BY AsideKeeps
<1>3. Balanced(p)
  BY <1>1, <1>2, AccountsAre
<1>4. Cardinality(Listed(p)') = Cardinality(Listed(p)) + 0
  BY <1>2, ListedStays
<1>5. 0 + (IF Path(t) = p THEN Made(t) ELSE 0) =
        OnDisk(p)' - OnDisk(p) + (IF Path(t) = p THEN Removed(t) ELSE 0)
  BY <1>1, AsideBalance DEF OnDisk
<1> QED
  BY <1>2, <1>3, <1>4, <1>5, BalanceMoves

LEMMA AccountsAllocation ==
  ASSUME TypeOK, TypeOK', Heap, Accounts, NEW t \in Threads, NEW n \in Nodes,
         Allocation(t, n)
  PROVE  Accounts'
<1>1. SUFFICES ASSUME faults' \subseteq {"pulled"}, NEW p \in Paths
               PROVE  Balanced(p)'
  BY AccountsAre
<1>2. /\ UNCHANGED <<request, disk, faults>>
      /\ pc[t] = "allocate" /\ pc'[t] = "append"
      /\ \A u \in Threads \ {t} : pc'[u] = pc[u]
      /\ \A m \in Nodes \ {n} : filepath'[m] = filepath[m]
  BY DEF Allocation, TypeOK
<1>3. Balanced(p)
  BY <1>1, <1>2, AccountsAre
<1>4. Listed(p)' = Listed(p)
  <2>1. Reach' = Reach /\ n \notin Reach /\ Reach \subseteq Nodes
    BY ReachAllocation, ReachIsClosed
  <2> QED
    BY <1>2, <2>1 DEF Listed
<1>5. Cardinality(Listed(p)') = Cardinality(Listed(p)) + 0
  BY <1>4, ListedIsFinite
<1>6. Made(t) = 0 /\ Removed(t) = 0
  BY <1>2 DEF Made, Removed, In, CreateSteps, DeleteSteps
<1>7. 0 + (IF Path(t) = p THEN Made(t) ELSE 0) =
        OnDisk(p)' - OnDisk(p) + (IF Path(t) = p THEN Removed(t) ELSE 0)
  BY <1>2, <1>6 DEF OnDisk
<1> QED
  BY <1>2, <1>3, <1>5, <1>7, BalanceMoves

(* A node joins the list.                                                  *)
LEMMA AccountsAppend ==
  ASSUME TypeOK, TypeOK', Heap, Accounts, NEW t \in Threads,
         pc[t] \in {"first", "link"}, pc'[t] = "tail",
         \A u \in Threads \ {t} : pc'[u] = pc[u],
         UNCHANGED <<request, disk, faults, filepath>>, Reach' = Reach \cup {node[t]}
  PROVE  Accounts'
<1>1. SUFFICES ASSUME faults' \subseteq {"pulled"}, NEW p \in Paths
               PROVE  Balanced(p)'
  BY AccountsAre
<1>2. Balanced(p)
  BY <1>1, AccountsAre
<1>3. PICK n \in Nodes : n = node[t] /\ n \notin Reach /\ filepath[n] = Path(t)
  BY WaitingIsOutside, HeapIs DEF Waiting
<1>4. Cardinality(Listed(p)') = Cardinality(Listed(p)) + (IF Path(t) = p THEN 1 ELSE 0)
  <2>1. IsFiniteSet(Listed(p)) /\ Cardinality(Listed(p)) \in Nat
    BY ListedIsFinite
  <2>2. CASE Path(t) = p
    <3>1. PICK L : L = Listed(p) /\ IsFiniteSet(L)
      BY <2>1
    <3>2. Listed(p)' = L \cup {n} /\ n \notin L
      BY <1>3, <2>2, <3>1 DEF Listed
    <3>3. Cardinality(L \cup {n}) = Cardinality(L) + 1
      BY <3>1, <3>2, FS_AddElement
    <3> QED
      BY <2>2, <3>1, <3>2, <3>3
  <2>3. CASE Path(t) # p
    <3>1. Listed(p)' = Listed(p)
      BY <1>3, <2>3 DEF Listed
    <3> QED
      BY <2>1, <2>3, <3>1
  <2> QED
    BY <2>2, <2>3
<1>5. Made(t) = -1 /\ Removed(t) = 0
  BY DEF Made, Removed, In, CreateSteps, DeleteSteps
<1>6. PICK more \in Int : more = IF Path(t) = p THEN 1 ELSE 0
  OBVIOUS
<1>7. more + (IF Path(t) = p THEN Made(t) ELSE 0) =
        OnDisk(p)' - OnDisk(p) + (IF Path(t) = p THEN Removed(t) ELSE 0)
  BY <1>5, <1>6 DEF OnDisk
<1>8. Cardinality(Listed(p)') = Cardinality(Listed(p)) + more
  BY <1>4, <1>6
<1> QED
  BY <1>2, <1>7, <1>8, BalanceMoves

LEMMA AccountsSetHead ==
  ASSUME TypeOK, TypeOK', Heap, Ends, Accounts, NEW t \in Threads, SetHead(t)
  PROVE  Accounts'
<1>1. /\ pc[t] = "first" /\ pc'[t] = "tail" /\ \A u \in Threads \ {t} : pc'[u] = pc[u]
      /\ UNCHANGED <<request, disk, faults, filepath>>
  BY DEF SetHead, At, Goto, fields, local, TypeOK
<1>2. SUFFICES ASSUME faults' \subseteq {"pulled"}
               PROVE  Accounts'
  BY DEF Accounts
<1>3. EndOfList
  BY <1>1, <1>2 DEF Ends
<1>4. fileHead = NULL /\ next[node[t]] = NULL
  BY <1>1, <1>3 DEF EndOfList, Bringing
<1>5. Reach = {} /\ Reach' = {node[t]}
  BY <1>4, NoHeadNoNodes, ReachSetHead
<1>6. Reach' = Reach \cup {node[t]}
  BY <1>5
<1> QED
  BY <1>1, <1>6, AccountsAppend

LEMMA AccountsLinkTail ==
  ASSUME TypeOK, TypeOK', Heap, Ends, Anchored, Accounts, NEW t \in Threads, LinkTail(t),
         fileTail # NULL
  PROVE  Accounts'
<1>1. /\ pc[t] = "link" /\ pc'[t] = "tail" /\ \A u \in Threads \ {t} : pc'[u] = pc[u]
      /\ UNCHANGED <<request, disk, faults, filepath>>
  BY DEF LinkTail, At, Goto, list, TypeOK
<1>2. SUFFICES ASSUME faults' \subseteq {"pulled"}
               PROVE  Accounts'
  BY DEF Accounts
<1>3. EndOfList
  BY <1>1, <1>2 DEF Ends
<1>4. fileHead # NULL
  BY <1>1, HeapIs DEF Waiting
<1>5. \A u \in Threads : pc[u] # "tail"
  BY <1>1, <1>3 DEF EndOfList, Appending
<1>6. Anchors = {fileTail}
  BY <1>5 DEF Anchors
<1>7. fileTail \in Reach
  BY <1>1, <1>2, <1>4, <1>6 DEF Anchored
<1>8. next[fileTail] = NULL /\ next[node[t]] = NULL
  BY <1>1, <1>3, <1>6, <1>7 DEF EndOfList, Bringing
<1>9. Reach' = Reach \cup {node[t]}
  BY <1>7, <1>8, ReachLinkTail
<1> QED
  BY <1>1, <1>9, AccountsAppend

LEMMA AccountsRemoval ==
  ASSUME TypeOK, TypeOK', Heap, Accounts, NEW t \in Threads, UnlinkNode(t),
         NEW k \in 2..NodeCount, NEW a \in Nodes, NEW b \in Nodes, Removal(t, k, a, b)
  PROVE  Accounts'
<1>1. SUFFICES ASSUME faults' \subseteq {"pulled"}, NEW p \in Paths
               PROVE  Balanced(p)'
  BY AccountsAre
<1>2. /\ pc[t] = "unlink" /\ pc'[t] = "done" /\ \A u \in Threads \ {t} : pc'[u] = pc[u]
      /\ UNCHANGED <<request, disk, filepath>>
  BY DEF UnlinkNode, At, Respond, Goto, TypeOK
<1>3. Balanced(p)
  BY <1>1, AccountsAre DEF Removal, Unlinked
<1>4. b \in Reach /\ filepath[b] = Path(t) /\ Reach' = Reach \ {b}
  <2>1. Reach' = Reach \ {b}
    BY ReachRemoval
  <2> QED
    BY <2>1 DEF Removal, Unlinked
<1>5. Cardinality(Listed(p)') = Cardinality(Listed(p)) + (IF Path(t) = p THEN -1 ELSE 0)
  <2>1. IsFiniteSet(Listed(p)) /\ Cardinality(Listed(p)) \in Nat
    BY ListedIsFinite
  <2>2. CASE Path(t) = p
    <3>1. Listed(p)' = Listed(p) \ {b} /\ b \in Listed(p)
      BY <1>2, <1>4, <2>2 DEF Listed
    <3>2. Cardinality(Listed(p)') = Cardinality(Listed(p)) - 1
      BY <2>1, <3>1, FS_RemoveElement
    <3> QED
      BY <2>1, <2>2, <3>2
  <2>3. CASE Path(t) # p
    <3>1. Listed(p)' = Listed(p)
      BY <1>2, <1>4, <2>3 DEF Listed
    <3> QED
      BY <2>1, <2>3, <3>1
  <2> QED
    BY <2>2, <2>3
<1>6. Made(t) = 0 /\ Removed(t) = -1
  BY <1>2 DEF Made, Removed, In, CreateSteps, DeleteSteps
<1>7. PICK more \in Int : more = IF Path(t) = p THEN -1 ELSE 0
  OBVIOUS
<1>8. more + (IF Path(t) = p THEN Made(t) ELSE 0) =
        OnDisk(p)' - OnDisk(p) + (IF Path(t) = p THEN Removed(t) ELSE 0)
  BY <1>2, <1>6, <1>7 DEF OnDisk
<1>9. Cardinality(Listed(p)') = Cardinality(Listed(p)) + more
  BY <1>5, <1>7
<1> QED
  BY <1>2, <1>3, <1>8, <1>9, BalanceMoves

(* A start balances the account, unless it forgets a file.                 *)
LEMMA StartBalances ==
  ASSUME NEW A, NEW fp, NEW nx, NEW h, NEW last, NEW D, Started(A, fp, nx, h, last, D),
         D \subseteq ToSet(PathsFile), NEW p \in Paths,
         NEW L, L = {n \in A : fp[n] = p}, NEW C, C = {}, NEW E, E = {}
  PROVE  Cardinality(L) + Cardinality(C) = (IF p \in D THEN 1 ELSE 0) + Cardinality(E)
<1>1. Cardinality(L) = IF p \in D THEN 1 ELSE 0
  BY StartAccounts
<1>2. Cardinality(C) = 0 /\ Cardinality(E) = 0
  BY FS_EmptySet
<1> QED
  BY <1>1, <1>2

LEMMA AccountsRestart ==
  ASSUME TypeOK, TypeOK', Restart
  PROVE  Accounts'
<1>1. SUFFICES ASSUME faults' \subseteq {"pulled"}, NEW p \in Paths
               PROVE  Balanced(p)'
  BY AccountsAre
<1>2. disk' \subseteq ToSet(PathsFile)
  BY <1>1 DEF Restart
<1>3. Started(allocated', filepath', next', fileHead', fileTail', disk')
  BY RestartIsStart
<1>4. Listed(p)' = {n \in allocated' : filepath'[n] = p}
  BY ReachRestart DEF Listed
<1>5. Counted(CreateSteps, p)' = {} /\ Counted(DeleteSteps, p)' = {}
  BY DEF Counted, Restart, CreateSteps, DeleteSteps
<1>6. OnDisk(p)' = IF p \in disk' THEN 1 ELSE 0
  BY DEF OnDisk
<1>7. Cardinality(Listed(p)') + Cardinality(Counted(CreateSteps, p)') =
        (IF p \in disk' THEN 1 ELSE 0) + Cardinality(Counted(DeleteSteps, p)')
  BY <1>2, <1>3, <1>4, <1>5, StartBalances
<1> QED
  BY <1>6, <1>7 DEF Balanced

LEMMA AccountsInit == Init => Accounts
<1> SUFFICES ASSUME Init, NEW p \in Paths
             PROVE  Balanced(p)
  BY AccountsAre
<1>1. disk \subseteq ToSet(PathsFile)
  BY DEF Init
<1>2. Started(allocated, filepath, next, fileHead, fileTail, disk)
  BY InitIsStart
<1>3. Listed(p) = {n \in allocated : filepath[n] = p}
  BY ReachInit DEF Listed
<1>4. Counted(CreateSteps, p) = {} /\ Counted(DeleteSteps, p) = {}
  BY DEF Counted, Init, CreateSteps, DeleteSteps
<1>5. Cardinality(Listed(p)) + Cardinality(Counted(CreateSteps, p)) =
        (IF p \in disk THEN 1 ELSE 0) + Cardinality(Counted(DeleteSteps, p))
  BY <1>1, <1>2, <1>3, <1>4, StartBalances
<1> QED
  BY <1>5 DEF Balanced, OnDisk

LEMMA AccountsStep ==
  ASSUME TypeOK, TypeOK', Heap, Ends, Anchored, Sought, Accounts, [Next]_vars, ~Restart,
         "crossed" \notin faults'
  PROVE  Accounts'
<1>1. CASE UNCHANGED vars
  <2>1. UNCHANGED <<next, fileHead, filepath, pc, request, disk, faults>>
    BY <1>1 DEF vars, list, fields
  <2>2. Reach' = Reach
    BY <2>1, SameNodesSameList
  <2>3. \A p \in Paths :
          Listed(p)' = Listed(p) /\ Counted(CreateSteps, p)' = Counted(CreateSteps, p)
    BY <2>1, <2>2 DEF Listed, Counted, Path, CreateSteps
  <2>4. \A p \in Paths : /\ Counted(DeleteSteps, p)' = Counted(DeleteSteps, p)
                       /\ OnDisk(p)' = OnDisk(p)
    BY <2>1 DEF Counted, DeleteSteps, Path, OnDisk
  <2>5. \A p \in Paths : Balanced(p) => Balanced(p)'
    BY <2>3, <2>4 DEF Balanced
  <2> QED
    BY <2>1, <2>5, AccountsAre
<1>2. CASE "raced" \in faults'
  BY <1>2 DEF Accounts
<1> QED
  BY <1>1, <1>2, StepIs, Detached, AccountsAside, AccountsAllocation, AccountsSetHead,
     AccountsLinkTail, AccountsRemoval

----------------------------------------------------------------------------
(* The nodes that lookups find.                                            *)

LEMMA PlacesWillBe ==
  ASSUME TypeOK', NEW p
  PROVE  Places(p)' = {i \in 1..NodeCount : walk'[i] # NULL /\ filepath'[walk'[i]] = p}
BY DEF Places

\* The lookup of p in the walk w.
Finds(w, fp, p, f) ==
  /\ f \in 1..NodeCount /\ w[f] # NULL /\ fp[w[f]] = p
  /\ \A j \in 1..NodeCount : w[j] # NULL /\ fp[w[j]] = p => f <= j

LEMMA FirstIs ==
  ASSUME NEW S, S \subseteq Nat, NEW f \in S, \A j \in S : f <= j
  PROVE  First(S) = f
<1>1. First(S) \in S /\ \A j \in S : First(S) <= j
  BY LeastNumber
<1>2. First(S) <= f /\ f <= First(S) /\ f \in Nat /\ First(S) \in Nat
  BY <1>1
<1> QED
  BY <1>2

LEMMA LookupFinds ==
  ASSUME NEW p, NEW f, Finds(walk, filepath, p, f)
  PROVE  Lookup(p) = walk[f]
<1>1. f \in Places(p) /\ \A j \in Places(p) : f <= j
  BY DEF Finds, Places
<1>2. Places(p) \subseteq Nat
  BY CountIsNat DEF Places
<1>3. First(Places(p)) = f
  BY <1>1, <1>2, FirstIs
<1> QED
  BY <1>1, <1>3 DEF Lookup

LEMMA LookupWillFind ==
  ASSUME NEW p, NEW f, Finds(walk', filepath', p, f)
  PROVE  Lookup(p)' = walk'[f]
<1> DEFINE S == {i \in 1..NodeCount : walk'[i] # NULL /\ filepath'[walk'[i]] = p}
<1>1. f \in S /\ \A j \in S : f <= j
  BY DEF Finds
<1>2. S \subseteq Nat
  BY CountIsNat
<1>3. Places(p)' = S
  BY DEF Places
<1> HIDE DEF S
<1>4. First(S) = f
  BY <1>1, <1>2, FirstIs
<1>5. Lookup(p)' = IF Places(p)' = {} THEN NULL ELSE walk'[First(Places(p)')]
  BY DEF Lookup, First
<1> QED
  BY <1>1, <1>3, <1>4, <1>5

LEMMA LookupHasFound ==
  ASSUME NEW p, Lookup(p) # NULL
  PROVE  \E f \in 1..NodeCount : Finds(walk, filepath, p, f) /\ Lookup(p) = walk[f]
<1>1. Places(p) # {} /\ Lookup(p) = walk[First(Places(p))]
  BY DEF Lookup
<1>2. Places(p) \subseteq Nat
  BY CountIsNat DEF Places
<1>3. First(Places(p)) \in Places(p) /\ \A j \in Places(p) : First(Places(p)) <= j
  BY <1>1, <1>2, LeastNumber
<1>4. PICK f \in Places(p) : f = First(Places(p))
  BY <1>3
<1>5. Finds(walk, filepath, p, f)
  BY <1>3, <1>4 DEF Finds, Places
<1> QED
  BY <1>1, <1>4, <1>5 DEF Finds

(* An append, an allocation, or a step beside the list.                    *)
LEMMA LookupStays ==
  ASSUME TypeOK, Heap, NEW p, Lookup(p) # NULL,
         \A i \in 1..NodeCount + 1 : walk[i] # NULL => walk'[i] = walk[i],
         \A n \in Reach : filepath'[n] = filepath[n]
  PROVE  Lookup(p)' = Lookup(p)
<1> USE CountIsNat
<1>1. PICK f \in 1..NodeCount : Finds(walk, filepath, p, f) /\ Lookup(p) = walk[f]
  BY LookupHasFound
<1>2. \A i \in 1..f : walk[i] # NULL /\ walk[i] \in Reach
  <2> TAKE i \in 1..f
  <2>1. i \in 1..NodeCount + 1 /\ f \in 1..NodeCount + 1 /\ i <= f
    OBVIOUS
  <2>2. IsWalk(walk, fileHead, next) /\ walk[f] # NULL
    BY <1>1, WalkIs
  <2>3. walk[i] # NULL
    BY <2>1, <2>2, NullStays
  <2>4. walk[i] \in Nodes
    BY <2>1, <2>2, <2>3 DEF IsWalk, Pointers
  <2> QED
    BY <2>1, <2>3, <2>4 DEF Reach
<1>3. \A i \in 1..f : walk'[i] = walk[i] /\ filepath'[walk'[i]] = filepath[walk[i]]
  <2>1. \A i \in 1..f : i \in 1..NodeCount + 1
    OBVIOUS
  <2> QED
    BY <1>2, <2>1
<1>4. Finds(walk', filepath', p, f)
  <2>1. walk'[f] # NULL /\ filepath'[walk'[f]] = p
    BY <1>1, <1>2, <1>3 DEF Finds
  <2>2. \A j \in 1..NodeCount : walk'[j] # NULL /\ filepath'[walk'[j]] = p => f <= j
    <3> TAKE j \in 1..NodeCount
    <3>1. CASE j \in 1..f
      BY <1>1, <1>2, <1>3, <3>1 DEF Finds
    <3>2. CASE j \notin 1..f
      BY <3>2
    <3> QED
      BY <3>1, <3>2
  <2> QED
    BY <2>1, <2>2 DEF Finds
<1> QED
  BY <1>1, <1>3, <1>4, LookupWillFind

LEMMA LookupRemoval ==
  ASSUME TypeOK, TypeOK', Heap, NEW t \in Threads, UnlinkNode(t), NEW k \in 2..NodeCount,
         NEW a \in Nodes, NEW b \in Nodes, Removal(t, k, a, b),
         NEW p, Lookup(p) # NULL, Lookup(p) # b
  PROVE  Lookup(p)' = Lookup(p)
<1> USE CountIsNat
<1>1. PICK f \in 1..NodeCount : Finds(walk, filepath, p, f) /\ Lookup(p) = walk[f]
  BY LookupHasFound
<1>2. \A i \in 1..NodeCount : walk'[i] = IF i < k THEN walk[i] ELSE walk[i + 1]
  BY ReachRemoval
<1>3. filepath' = filepath /\ b = walk[k]
  BY DEF Removal, UnlinkNode
<1>4. f # k
  BY <1>1, <1>3
<1>5. walk[NodeCount + 1] = NULL
  BY WalkIs, WalkComesToAnEnd DEF Heap
<1>6. PICK g \in 1..NodeCount : g = IF f < k THEN f ELSE f - 1
  BY <1>4
<1>7. walk'[g] = walk[f]
  <2>1. CASE f < k
    BY <1>2, <1>6, <2>1
  <2>2. CASE ~(f < k)
    <3>1. g + 1 = f /\ ~(g < k)
      BY <1>4, <1>6, <2>2
    <3> QED
      BY <1>2, <3>1
  <2> QED
    BY <2>1, <2>2
<1>8. \A j \in 1..NodeCount : walk'[j] # NULL /\ filepath'[walk'[j]] = p => g <= j
  <2> SUFFICES ASSUME NEW j \in 1..NodeCount, walk'[j] # NULL, filepath'[walk'[j]] = p
               PROVE  g <= j
    OBVIOUS
  <2>1. CASE j < k
    <3>1. walk[j] # NULL /\ filepath[walk[j]] = p
      BY <1>2, <1>3, <2>1
    <3>2. f <= j
      BY <1>1, <3>1 DEF Finds
    <3> QED
      BY <1>6, <2>1, <3>2
  <2>2. CASE ~(j < k)
    <3>1. walk[j + 1] # NULL /\ filepath[walk[j + 1]] = p
      BY <1>2, <1>3, <2>2
    <3>2. j + 1 \in 1..NodeCount
      BY <1>5, <3>1
    <3>3. f <= j + 1
      BY <1>1, <3>1, <3>2 DEF Finds
    <3> QED
      BY <1>4, <1>6, <2>2, <3>3
  <2> QED
    BY <2>1, <2>2
<1>9. Finds(walk', filepath', p, g)
  BY <1>1, <1>3, <1>7, <1>8 DEF Finds
<1> QED
  BY <1>1, <1>7, <1>9, LookupWillFind

----------------------------------------------------------------------------
(* The sessions and their nodes.                                           *)

Holds(u) ==
  pc[u] \in {"transfer", "release"} =>
    node[u] \in allocated /\ Lookup(Path(u)) = node[u]

LEMMA HeldIs ==
  /\ Held <=> ({"pulled", "raced"} \cap faults = {} => \A u \in Threads : Holds(u))
  /\ Held' <=> ({"pulled", "raced"} \cap faults' = {} => \A u \in Threads : Holds(u)')
BY DEF Held, Holds

LEMMA HeldAside ==
  ASSUME TypeOK, TypeOK', StepsOfOps, Heap, Held, NEW t \in Threads, Aside(t) \/ Missed(t)
  PROVE  Held'
<1>1. SUFFICES ASSUME {"pulled", "raced"} \cap faults' = {}, NEW u \in Threads,
                      pc'[u] \in {"transfer", "release"}
               PROVE  node'[u] \in allocated' /\ Lookup(Path(u))' = node'[u]
  BY HeldIs DEF Holds
<1>2. /\ UNCHANGED <<request, allocated, filepath, next, fileHead>>
      /\ \A v \in Threads \ {t} : pc'[v] = pc[v] /\ node'[v] = node[v]
      /\ faults \subseteq faults'
  BY AsideKeeps
<1>3. Holds(u)
  BY <1>1, <1>2, HeldIs
<1>4. walk' = walk
  BY <1>2, SameNodesSameList
<1>5. Lookup(Path(u)) # NULL => Lookup(Path(u))' = Lookup(Path(u))
  <2>1. PICK p : p = Path(u) /\ p = Path(u)'
    BY <1>2 DEF Path
  <2>2. Lookup(p) # NULL => Lookup(p)' = Lookup(p)
    BY <1>2, <1>4, <2>1, LookupStays
  <2> QED
    BY <2>1, <2>2 DEF Lookup, Places, First
<1>6. node'[u] = node[u] /\ node[u] \in allocated /\ Lookup(Path(u)) = node[u]
  <2>1. CASE u # t
    BY <1>1, <1>2, <1>3, <2>1 DEF Holds
  <2>2. CASE u = t
    <3> USE DEF At, Goto, Respond, TypeOK, local
    <3>1. CASE Admit(t)
      <4>1. node' = node /\ pc[t] = "admit" /\ Lookup(Path(t)) = node[t]
        BY <1>1, <3>1 DEF Admit
      <4>2. node[t] # NULL
        BY <4>1 DEF StepsOfOps
      <4>3. node[t] \in Reach
        BY <4>1, <4>2, LookupIs
      <4> QED
        BY <2>2, <4>1, <4>3, ReachIsClosed
    <3>2. CASE UploadFile(t) \/ DownloadFile(t)
      <4>1. node' = node /\ pc[t] = "transfer"
        BY <3>2 DEF UploadFile, DownloadFile
      <4> QED
        BY <1>3, <2>2, <4>1 DEF Holds
    <3>3. CASE CheckCreate(t) \/ CheckDelete(t) \/ CheckHead(t) \/ SetTail(t) \/ OpenNewFile(t)
      <4>1. pc'[t] \in {"open", "remove", "first", "link", "allocate", "done"}
        BY <3>3 DEF CheckCreate, CheckDelete, CheckHead, SetTail, OpenNewFile
      <4> QED
        BY <1>1, <2>2, <4>1
    <3>4. CASE RemoveFromDisk(t) \/ FindFile(t) \/ LoseReply(t) \/ StoreCopy(t) \/ Release(t)
      <4>1. pc'[t] \in {"unlist", "admit", "done"}
        BY <3>4 DEF RemoveFromDisk, FindFile, LoseReply, StoreCopy, Release
      <4> QED
        BY <1>1, <2>2, <4>1
    <3>5. CASE Missed(t)
      <4>1. pc'[t] \in {"done", "unlink"} \/ (pc' = pc /\ pc[t] = "link")
        BY <3>5 DEF Missed, removeFile, LinkTail
      <4> QED
        BY <1>1, <2>2, <4>1
    <3> QED
      BY <3>1, <3>2, <3>3, <3>4, <3>5 DEF Aside
  <2> QED
    BY <2>1, <2>2
<1>7. node[u] # NULL
  BY <1>6 DEF TypeOK, Nodes, NULL
<1> QED
  BY <1>2, <1>5, <1>6, <1>7

(* The sessions go on under an append, an allocation or a removal.         *)
LEMMA HeldOn ==
  ASSUME TypeOK, TypeOK', Heap, Held,
         {"pulled", "raced"} \cap faults' = {} =>
           /\ {"pulled", "raced"} \cap faults = {}
           /\ \A u \in Threads : pc'[u] \in {"transfer", "release"} =>
                /\ pc[u] = pc'[u] /\ node'[u] = node[u]
                /\ node[u] \in allocated => node[u] \in allocated'
                /\ Lookup(Path(u)) # NULL => Lookup(Path(u))' = Lookup(Path(u))
  PROVE  Held'
<1>1. SUFFICES ASSUME {"pulled", "raced"} \cap faults' = {}, NEW u \in Threads
               PROVE  Holds(u)'
  BY HeldIs
<1>2. Holds(u)
  BY <1>1, HeldIs
<1>3. NULL \notin allocated
  BY DEF TypeOK, Nodes, NULL
<1> QED
  BY <1>1, <1>2, <1>3 DEF Holds

LEMMA HeldAllocation ==
  ASSUME TypeOK, TypeOK', Heap, Held, NEW t \in Threads, NEW n \in Nodes, Allocation(t, n)
  PROVE  Held'
<1>1. /\ UNCHANGED <<request, faults>> /\ allocated \subseteq allocated'
      /\ \A m \in Nodes \ {n} : filepath'[m] = filepath[m]
      /\ \A u \in Threads : pc'[u] \in {"transfer", "release"} =>
           pc[u] = pc'[u] /\ node'[u] = node[u]
  BY DEF Allocation, TypeOK
<1>2. walk' = walk /\ n \notin Reach /\ Reach \subseteq Nodes
  BY ReachAllocation, ReachIsClosed
<1>3. \A m \in Reach : filepath'[m] = filepath[m]
  BY <1>1, <1>2
<1>4. ASSUME NEW u \in Threads, Lookup(Path(u)) # NULL
      PROVE  Lookup(Path(u))' = Lookup(Path(u))
  <2>1. PICK p : p = Path(u) /\ p = Path(u)'
    BY <1>1 DEF Path
  <2>2. Lookup(p)' = Lookup(p)
    BY <1>2, <1>3, <1>4, <2>1, LookupStays
  <2> QED
    BY <2>1, <2>2 DEF Lookup, Places, First
<1> QED
  BY <1>1, <1>4, HeldOn

LEMMA HeldSetHead ==
  ASSUME TypeOK, TypeOK', StepsOfOps, Heap, Ends, Held, NEW t \in Threads, SetHead(t)
  PROVE  Held'
<1>1. /\ pc[t] = "first" /\ UNCHANGED <<faults, node, allocated>>
      /\ \A u \in Threads : pc'[u] = IF u = t THEN "tail" ELSE pc[u]
  BY DEF SetHead, At, Goto, local, TypeOK
<1>2. "raced" \notin faults => fileHead = NULL
  BY <1>1 DEF Ends, EndOfList
<1>3. "raced" \notin faults => \A p : Lookup(p) = NULL
  BY <1>2, NoHeadNoNodes, LookupIs
<1> QED
  BY <1>1, <1>3, HeldOn

LEMMA HeldLinkTail ==
  ASSUME TypeOK, TypeOK', Heap, Ends, Held, NEW t \in Threads, LinkTail(t), fileTail # NULL
  PROVE  Held'
<1>1. /\ pc[t] = "link" /\ UNCHANGED <<request, faults, node, allocated, filepath>>
      /\ \A u \in Threads : pc'[u] = IF u = t THEN "tail" ELSE pc[u]
  BY DEF LinkTail, At, Goto, list, TypeOK
<1>2. SUFFICES ASSUME "raced" \notin faults
               PROVE  Held'
  BY <1>1 DEF Held
<1>3. EndOfList
  BY <1>2 DEF Ends
<1>4. \A u \in Threads : pc[u] # "tail"
  BY <1>1, <1>3 DEF EndOfList, Appending
<1>5. Anchors = {fileTail}
  BY <1>4 DEF Anchors
<1>6. fileTail \in Reach => next[fileTail] = NULL /\ next[node[t]] = NULL
  BY <1>1, <1>3, <1>5 DEF EndOfList, Bringing
<1>7. \A i \in 1..NodeCount + 1 : walk[i] # NULL => walk'[i] = walk[i]
  BY <1>6, ReachLinkTail
<1>8. ASSUME NEW u \in Threads, Lookup(Path(u)) # NULL
      PROVE  Lookup(Path(u))' = Lookup(Path(u))
  <2>1. PICK p : p = Path(u) /\ p = Path(u)'
    BY <1>1 DEF Path
  <2>2. Lookup(p)' = Lookup(p)
    BY <1>1, <1>7, <1>8, <2>1, LookupStays
  <2> QED
    BY <2>1, <2>2 DEF Lookup, Places, First
<1> QED
  BY <1>1, <1>8, HeldOn

LEMMA HeldRemoval ==
  ASSUME TypeOK, TypeOK', Heap, Held, NEW t \in Threads, UnlinkNode(t),
         NEW k \in 2..NodeCount, NEW a \in Nodes, NEW b \in Nodes, Removal(t, k, a, b)
  PROVE  Held'
<1>1. /\ pc[t] = "unlink" /\ UNCHANGED <<request, node, filepath>>
      /\ \A u \in Threads : pc'[u] = IF u = t THEN "done" ELSE pc[u]
  BY DEF UnlinkNode, At, Respond, Goto, TypeOK
<1>2. /\ faults \subseteq faults' /\ allocated' = allocated \ {b}
      /\ Sessions(b) # {} => "pulled" \in faults'
  BY DEF Removal, Unlinked
<1>3. SUFFICES ASSUME {"pulled", "raced"} \cap faults' = {}, NEW u \in Threads,
                      pc'[u] \in {"transfer", "release"}
               PROVE  node'[u] \in allocated' /\ Lookup(Path(u))' = node'[u]
  BY HeldIs DEF Holds
<1>4. /\ pc[u] \in {"transfer", "release"} /\ node'[u] = node[u]
      /\ node[u] \in allocated /\ Lookup(Path(u)) = node[u]
  BY <1>1, <1>2, <1>3, HeldIs DEF Holds
<1>5. node[u] # b /\ node[u] # NULL
  BY <1>2, <1>3, <1>4 DEF Sessions, TypeOK, Nodes, NULL
<1>6. Lookup(Path(u))' = Lookup(Path(u))
  <2>1. PICK p : p = Path(u) /\ p = Path(u)'
    BY <1>1 DEF Path
  <2>2. Lookup(p)' = Lookup(p)
    BY <1>4, <1>5, <2>1, LookupRemoval
  <2> QED
    BY <2>1, <2>2 DEF Lookup, Places, First
<1> QED
  BY <1>2, <1>4, <1>5, <1>6

LEMMA HeldStep ==
  ASSUME TypeOK, TypeOK', StepsOfOps, Heap, Ends, Sought, Held, [Next]_vars, ~Restart,
         "crossed" \notin faults'
  PROVE  Held'
<1>1. CASE UNCHANGED vars
  <2>1. UNCHANGED <<next, fileHead, filepath, pc, node, request, faults, allocated>>
    BY <1>1 DEF vars, list, local, fields
  <2>2. walk' = walk
    BY <2>1, SameNodesSameList
  <2>3. ASSUME NEW u \in Threads, Lookup(Path(u)) # NULL
        PROVE  Lookup(Path(u))' = Lookup(Path(u))
    <3>1. PICK p : p = Path(u) /\ p = Path(u)'
      BY <2>1 DEF Path
    <3>2. Lookup(p)' = Lookup(p)
      BY <2>1, <2>2, <2>3, <3>1, LookupStays
    <3> QED
      BY <3>1, <3>2 DEF Lookup, Places, First
  <2> QED
    BY <2>1, <2>3, HeldOn
<1>2. CASE "raced" \in faults'
  BY <1>2 DEF Held
<1> QED
  BY <1>1, <1>2, StepIs, Detached, HeldAside, HeldAllocation, HeldSetHead, HeldLinkTail, HeldRemoval

LEMMA HeldRestart ==
  ASSUME Restart
  PROVE  Held'
<1>1. \A u \in Threads : pc'[u] \in {"start", "done"}
  BY DEF Restart
<1> QED
  BY <1>1 DEF Held

LEMMA HeldInit == Init => Held
BY DEF Init, Held

----------------------------------------------------------------------------
(* The readers of a node.                                                  *)

ReadersOf(n) == {u \in Sessions(n) : Op(u) = "READ_FILE"}
Covered(n)   == reader_count[n] >= Cardinality(ReadersOf(n))
Apace        == faults \cap {"pulled", "raced", "crossed"} = {}

LEMMA CoveredIs ==
  /\ ReadersCounted <=> (Apace => \A n \in allocated : Covered(n))
  /\ ReadersCounted' <=> (Apace' => \A n \in allocated' : Covered(n)')
BY DEF ReadersCounted, Apace, Covered, ReadersOf

LEMMA ReadersAreFinite ==
  ASSUME NEW n
  PROVE  /\ IsFiniteSet(ReadersOf(n)) /\ Cardinality(ReadersOf(n)) \in Nat
         /\ IsFiniteSet(ReadersOf(n)') /\ Cardinality(ReadersOf(n)') \in Nat
<1>1. ReadersOf(n) \subseteq Threads /\ ReadersOf(n)' \subseteq Threads
  BY DEF ReadersOf, Sessions
<1> QED
  BY <1>1, ThreadsAssumption, FS_Subset, FS_CardinalityType

LEMMA CoveredStays ==
  ASSUME TypeOK, TypeOK', NEW n \in Nodes, Covered(n), reader_count'[n] = reader_count[n],
         ReadersOf(n)' \subseteq ReadersOf(n)
  PROVE  Covered(n)'
<1>1. Cardinality(ReadersOf(n)') <= Cardinality(ReadersOf(n))
  BY ReadersAreFinite, FS_Subset
<1>2. reader_count[n] \in Int
  BY DEF TypeOK
<1> QED
  BY <1>1, <1>2, ReadersAreFinite DEF Covered

LEMMA CoveredByOneMore ==
  ASSUME TypeOK, TypeOK', NEW n \in Nodes, Covered(n), reader_count'[n] = reader_count[n] + 1,
         NEW t \in Threads, ReadersOf(n)' \subseteq ReadersOf(n) \cup {t}
  PROVE  Covered(n)'
<1>1. /\ IsFiniteSet(ReadersOf(n) \cup {t})
      /\ Cardinality(ReadersOf(n) \cup {t}) <= Cardinality(ReadersOf(n)) + 1
  <2>1. PICK R : R = ReadersOf(n) /\ IsFiniteSet(R) /\ Cardinality(R) \in Nat
    BY ReadersAreFinite
  <2>2. /\ IsFiniteSet(R \cup {t})
        /\ Cardinality(R \cup {t}) = IF t \in R THEN Cardinality(R) ELSE Cardinality(R) + 1
    BY <2>1, FS_AddElement
  <2>3. Cardinality(R \cup {t}) <= Cardinality(R) + 1
    BY <2>1, <2>2
  <2> QED
    BY <2>1, <2>2, <2>3
<1>2. /\ Cardinality(ReadersOf(n)') <= Cardinality(ReadersOf(n) \cup {t})
      /\ Cardinality(ReadersOf(n) \cup {t}) \in Nat
  BY <1>1, FS_Subset, FS_CardinalityType
<1>3. reader_count[n] \in Int
  BY DEF TypeOK
<1> QED
  BY <1>1, <1>2, <1>3, ReadersAreFinite DEF Covered

LEMMA CoveredByOneLess ==
  ASSUME TypeOK, TypeOK', NEW n \in Nodes, Covered(n), reader_count'[n] = reader_count[n] - 1,
         NEW t \in ReadersOf(n), ReadersOf(n)' \subseteq ReadersOf(n) \ {t}
  PROVE  Covered(n)'
<1>1. /\ IsFiniteSet(ReadersOf(n) \ {t})
      /\ Cardinality(ReadersOf(n) \ {t}) = Cardinality(ReadersOf(n)) - 1
  BY ReadersAreFinite, FS_RemoveElement
<1>2. /\ Cardinality(ReadersOf(n)') <= Cardinality(ReadersOf(n) \ {t})
      /\ Cardinality(ReadersOf(n) \ {t}) \in Nat
  BY <1>1, FS_Subset, FS_CardinalityType
<1>3. reader_count[n] \in Int
  BY DEF TypeOK
<1> QED
  BY <1>1, <1>2, <1>3, ReadersAreFinite DEF Covered

(* Steps that neither take nor give back a lock.                           *)
LEMMA ReadersStay ==
  ASSUME TypeOK, TypeOK', UNCHANGED request, ReadersCounted, faults \subseteq faults',
         \A n \in allocated' : n \in allocated /\ reader_count'[n] = reader_count[n],
         \A u \in Threads : pc'[u] \in {"transfer", "release"} =>
           pc[u] \in {"transfer", "release"} /\ node'[u] = node[u]
  PROVE  ReadersCounted'
<1>1. SUFFICES ASSUME Apace', NEW n \in allocated'
               PROVE  Covered(n)'
  BY CoveredIs
<1>2. Covered(n) /\ n \in Nodes
  BY <1>1, CoveredIs DEF Apace, TypeOK
<1>3. ReadersOf(n)' \subseteq ReadersOf(n)
  BY DEF ReadersOf, Sessions, Op
<1> QED
  BY <1>2, <1>3, CoveredStays

LEMMA ReadersAdmit ==
  ASSUME TypeOK, TypeOK', StepsOfOps, ReadersCounted, NEW t \in Threads, Admit(t)
  PROVE  ReadersCounted'
<1>1. /\ pc[t] = "admit" /\ UNCHANGED <<request, node, allocated>>
      /\ \A u \in Threads \ {t} : pc'[u] = pc[u]
      /\ faults \subseteq faults'
  BY DEF Admit, At, Goto, Respond, list, local, TypeOK
<1>2. SUFFICES ASSUME Apace', NEW n \in allocated
               PROVE  Covered(n)'
  BY <1>1, CoveredIs
<1>3. Covered(n) /\ n \in Nodes
  BY <1>1, <1>2, CoveredIs DEF Apace, TypeOK
<1>4. \A u \in ReadersOf(n)' : u \in ReadersOf(n) \cup {t}
  BY <1>1 DEF ReadersOf, Sessions, Op
<1>5. t \in ReadersOf(n)' =>
        pc'[t] \in {"transfer", "release"} /\ node[t] = n /\ Op(t) = "READ_FILE"
  BY <1>1 DEF ReadersOf, Sessions, Op
<1>6. CASE t \in ReadersOf(n)'
  <2>1. reader_count'[n] = reader_count[n] + 1
    BY <1>3, <1>5, <1>6 DEF Admit, Goto, Respond, TypeOK
  <2> QED
    BY <1>3, <1>4, <2>1, CoveredByOneMore
<1>7. CASE t \notin ReadersOf(n)'
  <2>1. reader_count'[n] = reader_count[n] \/ reader_count'[n] = reader_count[n] + 1
    BY <1>3 DEF Admit, TypeOK
  <2>2. ReadersOf(n)' \subseteq ReadersOf(n)
    BY <1>4, <1>7
  <2>3. CASE reader_count'[n] = reader_count[n]
    BY <1>3, <2>2, <2>3, CoveredStays
  <2>4. CASE reader_count'[n] = reader_count[n] + 1
    BY <1>3, <2>2, <2>4, CoveredByOneMore
  <2> QED
    BY <2>1, <2>3, <2>4
<1> QED
  BY <1>6, <1>7

LEMMA ReadersRelease ==
  ASSUME TypeOK, TypeOK', StepsOfOps, Held, ReadersCounted, NEW t \in Threads, Release(t)
  PROVE  ReadersCounted'
<1>1. /\ pc[t] = "release" /\ pc'[t] = "done"
      /\ UNCHANGED <<request, node, allocated, faults>>
      /\ \A u \in Threads \ {t} : pc'[u] = pc[u]
  BY DEF Release, At, Goto, Respond, list, local, TypeOK
<1>2. SUFFICES ASSUME Apace, NEW n \in allocated
               PROVE  Covered(n)'
  BY <1>1, CoveredIs DEF Apace
<1>3. Covered(n) /\ n \in Nodes
  BY <1>2, CoveredIs DEF TypeOK
<1>4. Lookup(Path(t)) = node[t] /\ node[t] \in Nodes /\ node[t] # NULL
  <2>1. {"pulled", "raced"} \cap faults = {}
    BY <1>2 DEF Apace
  <2>2. Lookup(Path(t)) = node[t] /\ node[t] \in allocated
    BY <1>1, <2>1 DEF Held
  <2>3. node[t] \in Nodes
    BY <2>2 DEF TypeOK
  <2> QED
    BY <2>2, <2>3 DEF Nodes, NULL
<1>5. ReadersOf(n)' \subseteq ReadersOf(n) \ {t}
  BY <1>1 DEF ReadersOf, Sessions, Op
<1>6. CASE reader_count'[n] = reader_count[n]
  BY <1>3, <1>5, <1>6, CoveredStays
<1>7. CASE reader_count'[n] # reader_count[n]
  <2>1. Op(t) = "READ_FILE" /\ decreaseReaderCount(node[t])
    BY <1>4, <1>7 DEF Release, openWriteLock
  <2>2. n = node[t] /\ reader_count'[n] = reader_count[n] - 1
    BY <1>3, <1>4, <1>7, <2>1 DEF decreaseReaderCount, TypeOK
  <2>3. t \in ReadersOf(n)
    BY <1>1, <2>1, <2>2 DEF ReadersOf, Sessions
  <2> QED
    BY <1>3, <1>5, <2>2, <2>3, CoveredByOneLess
<1> QED
  BY <1>6, <1>7

LEMMA ReadersAside ==
  ASSUME TypeOK, TypeOK', StepsOfOps, Held, ReadersCounted, NEW t \in Threads,
         Aside(t) \/ Missed(t)
  PROVE  ReadersCounted'
<1>1. CASE Admit(t) \/ Release(t)
  BY <1>1, ReadersAdmit, ReadersRelease
<1>2. CASE ~Admit(t) /\ ~Release(t)
  <2>1. /\ UNCHANGED <<request, allocated>>
        /\ \A u \in Threads \ {t} : pc'[u] = pc[u] /\ node'[u] = node[u]
        /\ faults \subseteq faults'
    BY AsideKeeps
  <2>2. /\ reader_count' = reader_count
        /\ pc'[t] \in {"transfer", "release"} =>
             pc[t] \in {"transfer", "release"} /\ node'[t] = node[t]
    <3> USE DEF At, Goto, Respond, TypeOK, fields, local
    <3>1. CASE CheckCreate(t) \/ CheckDelete(t) \/ CheckHead(t) \/ SetTail(t) \/ OpenNewFile(t)
      BY <3>1 DEF CheckCreate, CheckDelete, CheckHead, SetTail, OpenNewFile
    <3>2. CASE RemoveFromDisk(t) \/ FindFile(t) \/ LoseReply(t) \/ StoreCopy(t)
      BY <3>2 DEF RemoveFromDisk, FindFile, LoseReply, StoreCopy
    <3>3. CASE UploadFile(t) \/ DownloadFile(t)
      BY <3>3 DEF UploadFile, DownloadFile
    <3>4. CASE Missed(t)
      BY <3>4 DEF Missed, removeFile, LinkTail
    <3> QED
      BY <1>2, <3>1, <3>2, <3>3, <3>4 DEF Aside
  <2>3. \A u \in Threads : pc'[u] \in {"transfer", "release"} =>
          pc[u] \in {"transfer", "release"} /\ node'[u] = node[u]
    BY <2>1, <2>2
  <2> QED
    BY <2>1, <2>2, <2>3, ReadersStay
<1> QED
  BY <1>1, <1>2

LEMMA ReadersAllocation ==
  ASSUME TypeOK, TypeOK', Held, ReadersCounted, NEW t \in Threads, NEW n \in Nodes,
         Allocation(t, n)
  PROVE  ReadersCounted'
<1>1. /\ UNCHANGED <<request, faults>> /\ allocated' = allocated \cup {n} /\ n \notin allocated
      /\ \A m \in Nodes : reader_count'[m] = IF m = n THEN 0 ELSE reader_count[m]
      /\ \A u \in Threads : pc'[u] \in {"transfer", "release"} =>
           pc[u] = pc'[u] /\ node'[u] = node[u]
  BY DEF Allocation, TypeOK
<1>2. SUFFICES ASSUME Apace, NEW m \in allocated'
               PROVE  Covered(m)'
  BY <1>1, CoveredIs DEF Apace
<1>3. \A u \in ReadersOf(m)' : u \in ReadersOf(m)
  BY <1>1 DEF ReadersOf, Sessions, Op
<1>4. CASE m = n
  <2>1. \A u \in ReadersOf(n) : node[u] \in allocated /\ node[u] = n
    BY <1>2 DEF Held, Apace, ReadersOf, Sessions
  <2>2. ReadersOf(m)' = {}
    BY <1>1, <1>3, <1>4, <2>1
  <2>3. Cardinality(ReadersOf(m)') = 0 /\ reader_count'[m] = 0
    BY <1>1, <1>4, <2>2, FS_EmptySet
  <2> QED
    BY <2>3 DEF Covered
<1>5. CASE m # n
  <2>1. m \in allocated /\ m \in Nodes /\ reader_count'[m] = reader_count[m]
    BY <1>1, <1>2, <1>5 DEF TypeOK
  <2> QED
    BY <1>2, <1>3, <2>1, CoveredIs, CoveredStays
<1> QED
  BY <1>4, <1>5

LEMMA ReadersSetHead ==
  ASSUME TypeOK, TypeOK', ReadersCounted, NEW t \in Threads, SetHead(t)
  PROVE  ReadersCounted'
<1>1. /\ UNCHANGED <<request, faults, allocated, node, reader_count>>
      /\ \A u \in Threads : pc'[u] = IF u = t THEN "tail" ELSE pc[u]
  BY DEF SetHead, Goto, fields, local, TypeOK
<1> QED
  BY <1>1, ReadersStay

LEMMA ReadersLinkTail ==
  ASSUME TypeOK, TypeOK', ReadersCounted, NEW t \in Threads, LinkTail(t), fileTail # NULL
  PROVE  ReadersCounted'
<1>1. /\ UNCHANGED <<request, faults, allocated, node, reader_count>>
      /\ \A u \in Threads : pc'[u] = IF u = t THEN "tail" ELSE pc[u]
  BY DEF LinkTail, Goto, list, TypeOK
<1> QED
  BY <1>1, ReadersStay

LEMMA ReadersRemoval ==
  ASSUME TypeOK, TypeOK', ReadersCounted, NEW t \in Threads, UnlinkNode(t),
         NEW k \in 2..NodeCount, NEW a \in Nodes, NEW b \in Nodes, Removal(t, k, a, b)
  PROVE  ReadersCounted'
<1>1. /\ UNCHANGED <<request, node, reader_count>>
      /\ \A u \in Threads : pc'[u] = IF u = t THEN "done" ELSE pc[u]
  BY DEF UnlinkNode, Respond, Goto, TypeOK
<1>2. faults \subseteq faults' /\ allocated' = allocated \ {b}
  BY DEF Removal, Unlinked
<1> QED
  BY <1>1, <1>2, ReadersStay

LEMMA ReadersRestart ==
  ASSUME TypeOK, TypeOK', Restart
  PROVE  ReadersCounted'
<1>1. SUFFICES ASSUME NEW n \in allocated'
               PROVE  Covered(n)'
  BY CoveredIs
<1>2. \A u \in Threads : pc'[u] \in {"start", "done"}
  BY DEF Restart
<1>3. ReadersOf(n)' = {}
  BY <1>2 DEF ReadersOf, Sessions
<1>4. reader_count'[n] = 0
  BY DEF Restart, TypeOK
<1> QED
  BY <1>3, <1>4, FS_EmptySet DEF Covered

LEMMA ReadersInit == Init => ReadersCounted
<1> SUFFICES ASSUME Init, NEW n \in allocated
             PROVE  Covered(n)
  BY CoveredIs
<1>1. ReadersOf(n) = {}
  BY DEF Init, ReadersOf, Sessions
<1>2. reader_count[n] = 0
  BY TypeInit DEF Init, TypeOK
<1> QED
  BY <1>1, <1>2, FS_EmptySet DEF Covered

LEMMA ReadersStep ==
  ASSUME TypeOK, TypeOK', StepsOfOps, Heap, Sought, Held, ReadersCounted, [Next]_vars,
         ~Restart, "crossed" \notin faults'
  PROVE  ReadersCounted'
<1>1. CASE UNCHANGED vars
  <2>1. UNCHANGED <<request, pc, node, allocated, reader_count, faults>>
    BY <1>1 DEF vars, list, local, fields
  <2> QED
    BY <2>1, ReadersStay
<1>2. CASE "raced" \in faults'
  BY <1>2, CoveredIs DEF Apace
<1> QED
  BY <1>1, <1>2, StepIs, Detached, ReadersAside, ReadersAllocation, ReadersSetHead,
     ReadersLinkTail, ReadersRemoval

----------------------------------------------------------------------------
(* Without deletions.                                                      *)

NoDeletions == \A t \in Threads : Op(t) # "DELETE_FILE"
Safe(u)     == pc[u] \in {"allocate", "admit", "transfer"} => Path(u) \in disk

LEMMA KeptIs ==
  /\ Kept <=> (NoDeletions => /\ \A n \in allocated : filepath[n] \in disk
                              /\ \A u \in Threads : Safe(u))
  /\ Kept' <=> (NoDeletions' => /\ \A n \in allocated' : filepath'[n] \in disk'
                                /\ \A u \in Threads : Safe(u)')
BY DEF Kept, NoDeletions, Safe

LEMMA KeptAside ==
  ASSUME TypeOK, TypeOK', StepsOfOps, Heap, Kept, NEW t \in Threads, Aside(t) \/ Missed(t)
  PROVE  Kept'
<1>1. /\ UNCHANGED <<request, allocated, filepath>>
      /\ \A u \in Threads \ {t} : pc'[u] = pc[u] /\ node'[u] = node[u]
  BY AsideKeeps
<1>2. SUFFICES ASSUME NoDeletions
               PROVE  /\ \A n \in allocated' : filepath'[n] \in disk'
                      /\ \A u \in Threads : Safe(u)'
  BY <1>1, KeptIs DEF NoDeletions, Op
<1>3. /\ \A n \in allocated : filepath[n] \in disk
      /\ \A u \in Threads : Safe(u)
  BY <1>2, KeptIs
<1>4. pc[t] \notin {"remove", "unlist", "unlink"}
  BY <1>2 DEF StepsOfOps, NoDeletions
<1>5. disk \subseteq disk'
      /\ (pc'[t] \in {"allocate", "admit", "transfer"} => Path(t) \in disk')
  <2> USE DEF At, Goto, Respond, TypeOK, local
  <2>1. CASE CheckCreate(t) \/ CheckDelete(t) \/ CheckHead(t) \/ SetTail(t)
    BY <2>1 DEF CheckCreate, CheckDelete, CheckHead, SetTail
  <2>2. CASE OpenNewFile(t)
    BY <2>2 DEF OpenNewFile
  <2>3. CASE RemoveFromDisk(t)
    BY <1>4, <2>3 DEF RemoveFromDisk
  <2>4. CASE FindFile(t)
    <3>1. disk' = disk /\ (pc'[t] # "done" => pc'[t] = "admit" /\ Lookup(Path(t)) # NULL)
      BY <2>4 DEF FindFile
    <3>2. Lookup(Path(t)) # NULL =>
            Lookup(Path(t)) \in allocated /\ filepath[Lookup(Path(t))] = Path(t)
      BY LookupIs, ReachIsClosed
    <3> QED
      BY <1>3, <3>1, <3>2
  <2>5. CASE Admit(t)
    <3>1. disk' = disk /\ pc[t] = "admit"
      BY <2>5 DEF Admit
    <3> QED
      BY <1>3, <3>1 DEF Safe
  <2>6. CASE LoseReply(t) \/ Release(t)
    BY <2>6 DEF LoseReply, Release
  <2>7. CASE UploadFile(t)
    <3>1. disk' = disk /\ pc[t] = "transfer"
      BY <2>7 DEF UploadFile
    <3> QED
      BY <1>3, <3>1 DEF Safe
  <2>8. CASE DownloadFile(t) \/ StoreCopy(t)
    BY <2>8 DEF DownloadFile, StoreCopy
  <2>9. CASE Missed(t)
    BY <1>4, <2>9 DEF Missed, removeFile, LinkTail
  <2> QED
    BY <2>1, <2>2, <2>3, <2>4, <2>5, <2>6, <2>7, <2>8, <2>9 DEF Aside
<1>6. \A u \in Threads : Safe(u)'
  <2>1. ASSUME NEW u \in Threads
        PROVE  Safe(u)'
    <3>1. CASE u = t
      BY <1>1, <1>5, <3>1 DEF Safe, Path
    <3>2. CASE u # t
      BY <1>1, <1>3, <1>5, <3>2 DEF Safe, Path
    <3> QED
      BY <3>1, <3>2
  <2> QED
    BY <2>1
<1> QED
  BY <1>1, <1>3, <1>5, <1>6

LEMMA KeptAllocation ==
  ASSUME TypeOK, Kept, NEW t \in Threads, NEW n \in Nodes, Allocation(t, n)
  PROVE  Kept'
<1>1. /\ UNCHANGED <<request, disk>> /\ allocated' = allocated \cup {n}
      /\ \A m \in Nodes : filepath'[m] = IF m = n THEN Path(t) ELSE filepath[m]
      /\ pc[t] = "allocate"
      /\ \A u \in Threads : pc'[u] = IF u = t THEN "append" ELSE pc[u]
  BY DEF Allocation, TypeOK
<1>2. SUFFICES ASSUME NoDeletions
               PROVE  /\ \A m \in allocated' : filepath'[m] \in disk'
                      /\ \A u \in Threads : Safe(u)'
  BY <1>1, KeptIs DEF NoDeletions, Op
<1>3. /\ \A m \in allocated : filepath[m] \in disk
      /\ \A u \in Threads : Safe(u)
  BY <1>2, KeptIs
<1>4. Path(t) \in disk
  BY <1>1, <1>3 DEF Safe
<1>5. allocated' \subseteq Nodes
  BY <1>1 DEF TypeOK
<1> QED
  BY <1>1, <1>3, <1>4, <1>5 DEF Safe, Path

LEMMA KeptAppend ==
  ASSUME TypeOK, Kept, NEW t \in Threads, SetHead(t) \/ (LinkTail(t) /\ fileTail # NULL)
  PROVE  Kept'
<1>1. /\ UNCHANGED <<request, disk, allocated, filepath>>
      /\ \A u \in Threads : pc'[u] = IF u = t THEN "tail" ELSE pc[u]
  BY DEF SetHead, LinkTail, Goto, list, local, fields, TypeOK
<1> QED
  BY <1>1, KeptIs DEF NoDeletions, Op, Safe, Path

LEMMA KeptRemoval ==
  ASSUME TypeOK, StepsOfOps, Kept, NEW t \in Threads, UnlinkNode(t)
  PROVE  Kept'
<1>1. pc[t] = "unlink" /\ UNCHANGED request
  BY DEF UnlinkNode, At
<1>2. Op(t)' = "DELETE_FILE"
  BY <1>1 DEF StepsOfOps, Op
<1> QED
  BY <1>2 DEF Kept

LEMMA KeptRestart ==
  ASSUME TypeOK, Restart
  PROVE  Kept'
<1>1. \A n \in allocated' : filepath'[n] \in disk'
  BY RestartIsStart, StartLinks
<1>2. \A u \in Threads : pc'[u] \in {"start", "done"}
  BY DEF Restart
<1> QED
  BY <1>1, <1>2 DEF Kept

LEMMA KeptInit == Init => Kept
<1> SUFFICES ASSUME Init
             PROVE  Kept
  OBVIOUS
<1>1. \A n \in allocated : filepath[n] \in disk
  BY InitIsStart, StartLinks
<1>2. \A u \in Threads : pc[u] = "start"
  BY DEF Init
<1> QED
  BY <1>1, <1>2 DEF Kept

LEMMA KeptStep ==
  ASSUME TypeOK, TypeOK', StepsOfOps, Heap, Kept, [Next]_vars, ~Restart, "crossed" \notin faults'
  PROVE  Kept'
<1>1. CASE UNCHANGED vars
  BY <1>1 DEF vars, list, fields, Kept, Op, Path
<1> QED
  BY <1>1, StepIs, KeptAside, KeptAllocation, KeptAppend, KeptRemoval

(* The hazards add up until a restart; only a removal adds a crossing.     *)
LEMMA FaultsGrow ==
  ASSUME TypeOK, [Next]_vars, ~Restart
  PROVE  /\ UNCHANGED request /\ faults \subseteq faults'
         /\ "crossed" \in faults' => "crossed" \in faults \/ \E t \in Threads : pc[t] = "unlink"
<1> DEFINE Goal ==
             /\ UNCHANGED request /\ faults \subseteq faults'
             /\ "crossed" \in faults' =>
                  "crossed" \in faults \/ \E t \in Threads : pc[t] = "unlink"
<1>1. ASSUME NEW t \in Threads,
             CheckCreate(t) \/ OpenNewFile(t) \/ Allocate(t) \/ CheckHead(t) \/ SetHead(t)
      PROVE  Goal
  BY <1>1 DEF CheckCreate, OpenNewFile, Allocate, CheckHead, SetHead
<1>2. ASSUME NEW t \in Threads,
             LinkTail(t) \/ SetTail(t) \/ CheckDelete(t) \/ RemoveFromDisk(t) \/ removeFile(t)
      PROVE  Goal
  BY <1>2 DEF LinkTail, SetTail, CheckDelete, RemoveFromDisk, removeFile
<1>3. ASSUME NEW t \in Threads, FindFile(t) \/ Admit(t) \/ LoseReply(t) \/ UploadFile(t)
      PROVE  Goal
  BY <1>3 DEF FindFile, Admit, LoseReply, UploadFile
<1>4. ASSUME NEW t \in Threads, DownloadFile(t) \/ StoreCopy(t) \/ Release(t)
      PROVE  Goal
  BY <1>4 DEF DownloadFile, StoreCopy, Release
<1>5. ASSUME NEW t \in Threads, UnlinkNode(t) \/ UnlinkFreedNode(t)
      PROVE  Goal
  BY <1>5 DEF UnlinkNode, UnlinkFreedNode, At
<1>6. CASE UNCHANGED vars
  BY <1>6 DEF vars
<1>7. ASSUME NEW t \in Threads, Work(t)
      PROVE  Goal
  BY <1>1, <1>2, <1>3, <1>4, <1>5, <1>7 DEF Work
<1>8. (\E t \in Threads : Work(t)) \/ UNCHANGED vars
  BY RestIsStutter DEF Next
<1> QED
  BY <1>6, <1>7, <1>8

LEMMA UncrossedStep ==
  ASSUME TypeOK, StepsOfOps, Uncrossed, [Next]_vars
  PROVE  Uncrossed'
<1>1. CASE Restart
  BY <1>1 DEF Restart, Uncrossed
<1>2. CASE ~Restart
  <2>1. /\ UNCHANGED request
        /\ "crossed" \in faults' => "crossed" \in faults \/ \E t \in Threads : pc[t] = "unlink"
    BY <1>2, FaultsGrow
  <2>2. \A t \in Threads : pc[t] = "unlink" => Op(t) = "DELETE_FILE"
    BY DEF StepsOfOps
  <2> QED
    BY <2>1, <2>2 DEF Uncrossed, Op
<1> QED
  BY <1>1, <1>2

LEMMA SurvivesStep ==
  ASSUME TypeOK, TypeOK', StepsOfOps, Heap, Ends, Kept, SurvivesWithoutDeletions, [Next]_vars,
         ~Restart, "crossed" \notin faults'
  PROVE  SurvivesWithoutDeletions'
<1>1. SUFFICES ASSUME crashed', NoDeletions', {"raced", "hungUp", "unopened"} \cap faults' = {}
               PROVE  FALSE
  BY DEF SurvivesWithoutDeletions, NoDeletions
<1>2. ASSUME NEW t \in Threads, Aside(t) \/ Missed(t)
      PROVE  \/ UNCHANGED crashed
             \/ UploadFile(t) /\ Path(t) \notin disk
             \/ (DownloadFile(t) \/ StoreCopy(t)) /\ "hungUp" \in faults'
             \/ LinkTail(t) /\ fileTail = NULL
  <2>1. CASE CheckCreate(t) \/ CheckDelete(t) \/ CheckHead(t) \/ SetTail(t) \/ OpenNewFile(t)
    BY <2>1 DEF CheckCreate, CheckDelete, CheckHead, SetTail, OpenNewFile
  <2>2. CASE RemoveFromDisk(t) \/ FindFile(t) \/ LoseReply(t)
    BY <2>2 DEF RemoveFromDisk, FindFile, LoseReply
  <2>3. CASE Admit(t) \/ Release(t)
    BY <2>3 DEF Admit, Release
  <2>4. CASE UploadFile(t)
    BY <1>1, <2>4 DEF UploadFile
  <2>5. CASE DownloadFile(t) \/ StoreCopy(t)
    <3>1. ~crashed
      BY <2>5 DEF DownloadFile, StoreCopy, At
    <3>2. crashed' = FALSE \/ "hungUp" \in faults'
      BY <2>5 DEF DownloadFile, StoreCopy
    <3> QED
      BY <2>5, <3>1, <3>2 DEF TypeOK
  <2>6. CASE Missed(t)
    BY <2>6 DEF Missed, removeFile
  <2> QED
    BY <1>2, <2>1, <2>2, <2>3, <2>4, <2>5, <2>6 DEF Aside
<1>3. ASSUME NEW t \in Threads, Aside(t) \/ Missed(t)
      PROVE  FALSE
  <2>1. UNCHANGED request /\ faults \subseteq faults'
    BY <1>3, AsideKeeps
  <2>2. NoDeletions
    BY <1>1, <2>1 DEF NoDeletions, Op
  <2>3. CASE UNCHANGED crashed
    BY <1>1, <2>1, <2>2, <2>3 DEF SurvivesWithoutDeletions, NoDeletions
  <2>4. CASE UploadFile(t) /\ Path(t) \notin disk
    <3>1. pc[t] = "transfer"
      BY <2>4 DEF UploadFile, At
    <3> QED
      BY <2>2, <2>4, <3>1, KeptIs DEF Safe
  <2>5. CASE LinkTail(t) /\ fileTail = NULL
    <3>1. pc[t] = "link"
      BY <2>5 DEF LinkTail, At
    <3>2. EndOfList
      BY <1>1, <2>1 DEF Ends
    <3>3. fileHead # NULL
      BY <3>1 DEF Heap
    <3>4. \A u \in Threads : pc[u] # "tail"
      BY <3>1, <3>2 DEF EndOfList, Appending
    <3> QED
      BY <2>5, <3>2, <3>3, <3>4 DEF EndOfList
  <2> QED
    BY <1>1, <1>2, <1>3, <2>3, <2>4, <2>5
<1>4. ASSUME NEW t \in Threads, NEW n \in Nodes, Allocation(t, n)
      PROVE  FALSE
  BY <1>1, <1>4 DEF Allocation, SurvivesWithoutDeletions, NoDeletions, Op
<1>5. ASSUME NEW t \in Threads, SetHead(t) \/ (LinkTail(t) /\ fileTail # NULL)
      PROVE  FALSE
  BY <1>1, <1>5 DEF SetHead, LinkTail, SurvivesWithoutDeletions, NoDeletions, Op
<1>6. ASSUME NEW t \in Threads, UnlinkNode(t)
      PROVE  FALSE
  BY <1>1, <1>6 DEF UnlinkNode, At
<1>7. CASE UNCHANGED vars
  BY <1>1, <1>7 DEF vars, SurvivesWithoutDeletions, NoDeletions, Op
<1> QED
  BY <1>3, <1>4, <1>5, <1>6, <1>7, StepIs

----------------------------------------------------------------------------
(* The inductive invariant, and what follows from it.                      *)

LEMMA InvInit == Init => IInv
<1> SUFFICES ASSUME Init
             PROVE  IInv
  OBVIOUS
<1>1. SurvivesWithoutDeletions /\ Uncrossed
  BY DEF Init, SurvivesWithoutDeletions, Uncrossed
<1> QED
  BY <1>1, TypeInit, StepsInit, HeapInit, EndsInit, SoughtInit, AccountsInit, HeldInit,
     ReadersInit, KeptInit DEF IInv, List

(* A restart repairs the list, whatever has crossed before.                *)
LEMMA InvRestart ==
  ASSUME IInv, Restart
  PROVE  IInv'
<1>1. TypeOK /\ StepsOfOps /\ Uncrossed /\ [Next]_vars
  BY DEF IInv, Next
<1>2. TypeOK' /\ StepsOfOps' /\ Uncrossed' /\ Heap'
  BY <1>1, TypeStep, StepsStep, UncrossedStep, HeapRestart
<1>3. Ends' /\ Anchored' /\ Sought' /\ Accounts'
  BY <1>1, <1>2, EndsRestart, SoughtRestart, AccountsRestart
<1>4. Held' /\ ReadersCounted' /\ Kept'
  BY <1>1, <1>2, HeldRestart, ReadersRestart, KeptRestart
<1>5. SurvivesWithoutDeletions'
  BY DEF Restart, SurvivesWithoutDeletions
<1> QED
  BY <1>2, <1>3, <1>4, <1>5 DEF IInv, List

LEMMA InvStep ==
  ASSUME IInv, [Next]_vars, ~Restart
  PROVE  IInv'
<1>1. TypeOK /\ StepsOfOps /\ Uncrossed /\ Kept /\ SurvivesWithoutDeletions
  BY DEF IInv
<1>2. TypeOK' /\ StepsOfOps' /\ Uncrossed'
  BY <1>1, TypeStep, StepsStep, UncrossedStep
<1>3. CASE "crossed" \in faults'
  <2>1. \E t \in Threads : Op(t)' = "DELETE_FILE"
    BY <1>2, <1>3 DEF Uncrossed
  <2>2. Kept' /\ SurvivesWithoutDeletions'
    BY <2>1 DEF Kept, SurvivesWithoutDeletions
  <2> QED
    BY <1>2, <1>3, <2>2 DEF IInv
<1>4. CASE "crossed" \notin faults'
  <2>1. "crossed" \notin faults
    BY <1>1, <1>4, FaultsGrow
  <2>2. Heap /\ Ends /\ Anchored /\ Sought /\ Accounts /\ Held /\ ReadersCounted
    BY <2>1 DEF IInv, List
  <2>3. Heap'
    BY <1>1, <1>4, <2>2, HeapStep
  <2>4. Ends' /\ Anchored' /\ Sought'
    BY <1>1, <1>2, <1>4, <2>2, EndsStep, SoughtStep
  <2>5. Accounts'
    BY <1>1, <1>2, <1>4, <2>2, AccountsStep
  <2>6. Held' /\ ReadersCounted'
    BY <1>1, <1>2, <1>4, <2>2, HeldStep, ReadersStep
  <2>7. Kept' /\ SurvivesWithoutDeletions'
    BY <1>1, <1>2, <1>4, <2>2, KeptStep, SurvivesStep
  <2> QED
    BY <1>2, <2>3, <2>4, <2>5, <2>6, <2>7 DEF IInv, List
<1> QED
  BY <1>3, <1>4

LEMMA InductiveInv == Spec => []IInv
  <1>1. Init => IInv
    BY InvInit
  <1>2. IInv /\ [Next]_vars => IInv'
    BY InvRestart, InvStep
  <1>3. QED
    BY <1>1, <1>2, PTL DEF Spec

LEMMA HeapEndsWalks ==
  ASSUME TypeOK, Heap
  PROVE  WalksEnd
<1>1. PICK w : w = walk /\ IsWalk(w, fileHead, next) /\ Linked(fileHead, next, allocated)
  BY WalkIs DEF Heap
<1>2. w[NodeCount + 1] = NULL
  BY <1>1, WalkComesToAnEnd
<1>3. \A i \in 1..NodeCount + 1 : w[i] \in allocated \cup {NULL}
  BY <1>1, WalkStays
<1>4. \A i \in 1..NodeCount : w[i] # NULL => w[i] \in allocated
  BY <1>3, CountIsNat
<1> QED
  BY <1>1, <1>2, <1>4 DEF WalksEnd

(* The places of a path are as many as the nodes with that path.           *)
LEMMA PlacesCount ==
  ASSUME TypeOK, Heap, NEW p
  PROVE  Cardinality(Places(p)) = Cardinality(Listed(p))
<1> USE CountIsNat
<1>1. PICK w : w = walk /\ IsWalk(w, fileHead, next) /\ Linked(fileHead, next, allocated)
  BY WalkIs DEF Heap
<1>2. w[NodeCount + 1] = NULL
  BY <1>1, WalkComesToAnEnd
<1>3. PICK S : S = Places(p)
  OBVIOUS
<1>4. S = {i \in 1..NodeCount : w[i] # NULL /\ filepath[w[i]] = p}
  BY <1>1, <1>3 DEF Places
<1>5. PICK T : T = Listed(p)
  OBVIOUS
<1>6. T = {n \in Nodes : (\E i \in 1..NodeCount + 1 : w[i] = n) /\ filepath[n] = p}
  BY <1>1, <1>5 DEF Listed, Reach
<1>7. NULL \notin Nodes /\ Pointers = Nodes \cup {NULL}
  BY DEF Nodes, NULL, Pointers
<1>8. \A i \in 1..NodeCount + 1 : w[i] \in Pointers
  BY <1>1 DEF IsWalk
<1> DEFINE f == [i \in S |-> w[i]]
<1>9. f \in [S -> T]
  <2>1. \A i \in S : w[i] \in T
    BY <1>4, <1>6, <1>7, <1>8
  <2> QED
    BY <2>1
<1>10. \A i, j \in S : f[i] = f[j] => i = j
  <2>1. \A i, j \in 1..NodeCount + 1 : w[i] # NULL /\ w[i] = w[j] => i = j
    BY <1>1, NoneTwice
  <2> QED
    BY <1>4, <2>1
<1>11. \A n \in T : \E i \in S : f[i] = n
  <2>1. SUFFICES ASSUME NEW n \in T
                 PROVE  \E i \in S : w[i] = n
    OBVIOUS
  <2>2. PICK i \in 1..NodeCount + 1 : w[i] = n
    BY <1>6
  <2>3. w[i] # NULL /\ filepath[w[i]] = p
    BY <1>6, <1>7, <2>2
  <2>4. i \in 1..NodeCount
    BY <1>2, <2>3
  <2> QED
    BY <1>4, <2>2, <2>3, <2>4
<1>12. f \in Bijection(S, T)
  <2> HIDE DEF f
  <2> QED
    BY <1>9, <1>10, <1>11 DEF Bijection, Injection, Surjection, IsInjective
<1>13. ExistsBijection(S, T)
  BY <1>12 DEF ExistsBijection
<1>14. IsFiniteSet(S)
  <2>1. IsFiniteSet(1..NodeCount) /\ S \subseteq 1..NodeCount
    BY <1>4, FS_Interval
  <2> QED
    BY <2>1, FS_Subset
<1> QED
  BY <1>3, <1>5, <1>13, <1>14, FS_Bijection

LEMMA AccountsMatch ==
  ASSUME IInv
  PROVE  ListMatchesDisk
<1>1. SUFFICES ASSUME faults \subseteq {"pulled"}, NEW p \in Paths, Changing(p) = {}
               PROVE  Cardinality(Places(p)) = OnDisk(p)
  BY DEF ListMatchesDisk, OnDisk
<1>0. TypeOK /\ StepsOfOps /\ Heap /\ Accounts
  BY <1>1 DEF IInv, List
<1>2. Creating(p) = {}
  <2>1. \A t \in Creating(p) : t \in Changing(p)
    BY <1>0 DEF Creating, Changing, StepsOfOps
  <2> QED
    BY <1>1, <2>1
<1>3. Deleting(p) = {}
  <2>1. \A t \in Deleting(p) : t \in Changing(p)
    BY <1>0 DEF Deleting, Changing, StepsOfOps
  <2> QED
    BY <1>1, <2>1
<1>4. Cardinality(Creating(p)) = 0 /\ Cardinality(Deleting(p)) = 0
  BY <1>2, <1>3, FS_EmptySet
<1>5. Cardinality(Listed(p)) + Cardinality(Creating(p)) = OnDisk(p) + Cardinality(Deleting(p))
  BY <1>0, <1>1 DEF Accounts
<1>6. Cardinality(Listed(p)) \in Nat /\ OnDisk(p) \in Nat
  BY ListedIsFinite DEF OnDisk
<1>7. Cardinality(Listed(p)) = OnDisk(p)
  BY <1>4, <1>5, <1>6
<1> QED
  BY <1>0, <1>7, PlacesCount

\* Type correctness of the list, its nodes and the threads; in particular the
\* pointers stay within the addresses that malloc has handed out at some time.
THEOREM TypeCorrect == Spec => []TypeOK
  <1>1. IInv => TypeOK
    BY DEF IInv
  <1>2. QED
    BY <1>1, InductiveInv, PTL

\* No lookup spins and none reads a freed File struct, for any number of threads
\* and any interleaving in which no removal crosses another one, or an append, at
\* the nodes it has read (file.c:142-156): addFile writes through a stale tail
\* pointer and removeFile leaves it behind, but neither leads a walk from fileHead
\* into freed memory or into a cycle.
THEOREM WalksAlwaysEnd == Spec => []WalksEnd
  <1>1. IInv => WalksEnd
    BY HeapEndsWalks DEF IInv, List, WalksEnd
  <1>2. QED
    BY <1>1, InductiveInv, PTL

\* createFile and deleteFile keep the list and the disk together, for creations and
\* deletions that interleave in any way but the named ones.
THEOREM ListMatches == Spec => []ListMatchesDisk
  <1>1. IInv => ListMatchesDisk
    BY AccountsMatch
  <1>2. QED
    BY <1>1, InductiveInv, PTL

\* decreaseReaderCount finds the node whose lock the session took, although it looks
\* the path up anew, as long as no session's node was freed, no appends crossed and
\* no removal crossed another one or an append.
THEOREM ReadersAreCounted == Spec => []ReadersCounted
  <1>1. IInv => ReadersCounted
    BY DEF IInv, List, ReadersCounted
  <1>2. QED
    BY <1>1, InductiveInv, PTL

\* Without deletions, crossing appends, clients that hang up and files that cannot be
\* opened the storage server stays up: addFile finds fileTail set, and UploadFile a
\* file that exists.
THEOREM StaysUp == Spec => []SurvivesWithoutDeletions
  <1>1. IInv => SurvivesWithoutDeletions
    BY DEF IInv
  <1>2. QED
    BY <1>1, InductiveInv, PTL
=============================================================================
