------------------------------ MODULE SumLemmas ------------------------------
(***************************************************************************)
(* Lemmas about SumFunction of the community modules, for the proofs about *)
(* the counts of the name server: the sum changes by as much as one value  *)
(* does, sums can be added, and the sum over a set can be counted either   *)
(* by rows or by columns.                                                  *)
(*                                                                         *)
(* The library's induction theorems have a predicate as a parameter.       *)
(* SubsetInduction has the set of what is already proved instead.          *)
(***************************************************************************)
EXTENDS Integers, FiniteSets, Functions, FiniteSetTheorems, WellFoundedInduction, TLAPS

\* The element that a fold takes first.
Pick(S) == CHOOSE x \in S : TRUE

(* Induction over the subsets of a finite set, along the elements a fold   *)
(* takes out.                                                              *)
LEMMA SubsetInduction ==
  ASSUME NEW S, IsFiniteSet(S), NEW Good, {} \in Good,
         \A T \in SUBSET S : T # {} /\ T \ {Pick(T)} \in Good => T \in Good
  PROVE  SUBSET S \subseteq Good
<1> DEFINE Bad == {T \in SUBSET S : T \notin Good}
<1> SUFFICES ASSUME Bad # {}
             PROVE  FALSE
  OBVIOUS
<1>1. PICK T \in Bad : \A U \in Bad : ~(<<U, T>> \in StrictSubsetOrdering(S))
  <2>1. IsWellFoundedOn(StrictSubsetOrdering(S), SUBSET S)
    BY FS_StrictSubsetOrderingWellFounded, FS_FiniteSubsetsOfFinite
  <2>2. Bad \subseteq SUBSET S
    OBVIOUS
  <2> HIDE DEF Bad
  <2> QED
    BY <2>1, <2>2, WFMin
<1>2. T \in SUBSET S /\ T # {} /\ T \notin Good
  OBVIOUS
<1>3. Pick(T) \in T
  BY <1>2 DEF Pick
<1>4. T \ {Pick(T)} \notin Bad
  <2> DEFINE U == T \ {Pick(T)}
  <2>1. U \in SUBSET S /\ U \subseteq T /\ U # T
    BY <1>2, <1>3
  <2> HIDE DEF U, Bad
  <2>2. <<U, T>> \in StrictSubsetOrdering(S)
    BY <1>2, <2>1 DEF StrictSubsetOrdering
  <2>3. U \notin Bad
    BY <1>1, <2>2
  <2> QED
    BY <2>3 DEF U
<1> QED
  BY <1>2, <1>4

(* g sums f over every subset of S.                                        *)
Sums(g, f, S) ==
  /\ g \in [SUBSET S -> Int]
  /\ g[{}] = 0
  /\ \A T \in SUBSET S : T # {} => g[T] = f[Pick(T)] + g[T \ {Pick(T)}]

LEMMA SumsExist ==
  ASSUME NEW S, IsFiniteSet(S), NEW f \in [S -> Int]
  PROVE  \E g : Sums(g, f, S)
<1> DEFINE Sized(n) == {T \in SUBSET S : Cardinality(T) <= n}
           UpTo(g, n) ==
             /\ g \in [Sized(n) -> Int]
             /\ \A T \in Sized(n) :
                  g[T] = IF T = {} THEN 0 ELSE f[Pick(T)] + g[T \ {Pick(T)}]
           Bad == {n \in Nat : ~ \E g : UpTo(g, n)}
<1>1. \A T \in SUBSET S : IsFiniteSet(T) /\ Cardinality(T) \in Nat
  BY FS_Subset, FS_CardinalityType
<1>2. ASSUME NEW T \in SUBSET S, T # {}
      PROVE  /\ Pick(T) \in T /\ f[Pick(T)] \in Int /\ T \ {Pick(T)} \in SUBSET S
             /\ Cardinality(T \ {Pick(T)}) = Cardinality(T) - 1
  <2>1. Pick(T) \in T
    BY <1>2 DEF Pick
  <2> QED
    BY <1>1, <2>1, FS_RemoveElement
<1>3. 0 \notin Bad
  <2> DEFINE g == [T \in Sized(0) |-> 0]
  <2>1. \A T \in Sized(0) : T = {}
    BY <1>1, FS_EmptySet
  <2>2. UpTo(g, 0)
    BY <2>1
  <2> QED
    BY <2>2
<1>4. ASSUME NEW n \in Nat, n \notin Bad
      PROVE  n + 1 \notin Bad
  <2>1. PICK g : UpTo(g, n)
    BY <1>4
  <2> DEFINE h == [T \in Sized(n + 1) |->
                     IF T = {} THEN 0 ELSE f[Pick(T)] + g[T \ {Pick(T)}]]
  <2>2. ASSUME NEW T \in Sized(n + 1), T # {}
        PROVE  T \ {Pick(T)} \in Sized(n)
    BY <1>1, <1>2, <2>2
  <2>3. h \in [Sized(n + 1) -> Int]
    <3>1. ASSUME NEW T \in Sized(n + 1), T # {}
          PROVE  f[Pick(T)] + g[T \ {Pick(T)}] \in Int
      <4>1. g[T \ {Pick(T)}] \in Int
        BY <2>1, <2>2, <3>1
      <4>2. f[Pick(T)] \in Int
        BY <1>2, <3>1
      <4> QED
        BY <4>1, <4>2
    <3> QED
      BY <3>1
  <2>4. ASSUME NEW T \in Sized(n)
        PROVE  T \in Sized(n + 1) /\ h[T] = g[T]
    BY <1>1, <2>1, <2>4
  <2>5. \A T \in Sized(n + 1) :
          h[T] = IF T = {} THEN 0 ELSE f[Pick(T)] + h[T \ {Pick(T)}]
    BY <2>2, <2>4
  <2>6. UpTo(h, n + 1)
    BY <2>3, <2>5
  <2> QED
    BY <2>6
<1>5. Bad = {}
  <2> SUFFICES ASSUME Bad # {}
               PROVE  FALSE
    OBVIOUS
  <2>1. PICK n \in Bad : \A m \in Bad : ~(<<m, n>> \in OpToRel(<, Nat))
    <3>1. Bad \subseteq Nat
      OBVIOUS
    <3> HIDE DEF Bad
    <3> QED
      BY <3>1, NatLessThanWellFounded, WFMin
  <2>2. n \in Nat /\ n # 0
    BY <1>3
  <2> HIDE DEF Bad
  <2>3. n - 1 \in Nat /\ n - 1 \notin Bad
    <3>1. \A m \in Nat : m < n => m \notin Bad
      BY <2>1, <2>2 DEF OpToRel
    <3> QED
      BY <2>2, <3>1
  <2>4. (n - 1) + 1 = n
    BY <2>2
  <2> QED
    BY <1>4, <2>3, <2>4
<1>6. PICK n \in Nat : n = Cardinality(S)
  BY <1>1
<1>7. Sized(n) = SUBSET S
  BY <1>1, <1>6, FS_Subset
<1>8. PICK g : UpTo(g, n)
  BY <1>5
<1>9. Sums(g, f, S)
  BY <1>7, <1>8 DEF Sums
<1> QED
  BY <1>9

(* The sums are determined by f.                                           *)
LEMMA SumsAgree ==
  ASSUME NEW S, IsFiniteSet(S), NEW f, NEW g, NEW h, Sums(g, f, S), Sums(h, f, S)
  PROVE  g = h
<1> DEFINE Good == {T \in SUBSET S : g[T] = h[T]}
<1>1. {} \in Good
  BY DEF Sums
<1>2. \A T \in SUBSET S : T # {} /\ T \ {Pick(T)} \in Good => T \in Good
  BY DEF Sums
<1>3. SUBSET S \subseteq Good
  <2> HIDE DEF Good
  <2> QED
    BY <1>1, <1>2, SubsetInduction
<1> QED
  BY <1>3 DEF Sums

LEMMA SumIsSums ==
  ASSUME NEW S, IsFiniteSet(S), NEW f \in [S -> Int], NEW g, Sums(g, f, S)
  PROVE  SumFunction(f) = g[S]
<1> DEFINE Body(i) == [T \in SUBSET S |->
                         IF T = {} THEN 0 ELSE f[Pick(T)] + i[T \ {Pick(T)}]]
           iter == CHOOSE i : i = Body(i)
<1>1. SumFunction(f) = iter[S]
  BY DEF SumFunction, SumFunctionOnSet, FoldFunctionOnSet, MapThenFoldSet, Pick
<1>2. g = Body(g)
  BY DEF Sums
<1>3. iter = Body(iter)
  BY <1>2
<1> HIDE DEF iter
<1>4. ASSUME NEW T \in SUBSET S
      PROVE  iter[T] = IF T = {} THEN 0 ELSE f[Pick(T)] + iter[T \ {Pick(T)}]
  BY <1>3
<1> DEFINE Good == {T \in SUBSET S : iter[T] = g[T]}
<1>5. {} \in Good
  BY <1>4 DEF Sums
<1>6. \A T \in SUBSET S : T # {} /\ T \ {Pick(T)} \in Good => T \in Good
  BY <1>4 DEF Sums
<1>7. SUBSET S \subseteq Good
  <2> HIDE DEF Good
  <2> QED
    BY <1>5, <1>6, SubsetInduction
<1> QED
  BY <1>1, <1>7

LEMMA SumIsInt ==
  ASSUME NEW S, IsFiniteSet(S), NEW f \in [S -> Int]
  PROVE  SumFunction(f) \in Int
<1>1. PICK g : Sums(g, f, S)
  BY SumsExist
<1>2. SumFunction(f) = g[S]
  BY <1>1, SumIsSums
<1>3. g[S] \in Int
  BY <1>1 DEF Sums
<1> QED
  BY <1>2, <1>3

(* One value changes, and the sum by as much.                              *)
LEMMA SumUpdate ==
  ASSUME NEW S, IsFiniteSet(S), NEW f \in [S -> Int], NEW a \in S, NEW v \in Int
  PROVE  SumFunction([f EXCEPT ![a] = v]) = SumFunction(f) + (v - f[a])
<1> DEFINE e == [f EXCEPT ![a] = v]
<1>1. PICK g : Sums(g, f, S)
  BY SumsExist
<1> DEFINE h == [T \in SUBSET S |-> g[T] + (IF a \in T THEN v - f[a] ELSE 0)]
<1>2. e \in [S -> Int] /\ f[a] \in Int
  OBVIOUS
<1>3. h \in [SUBSET S -> Int] /\ h[{}] = 0
  BY <1>1 DEF Sums
<1>4. ASSUME NEW T \in SUBSET S, T # {}
      PROVE  h[T] = e[Pick(T)] + h[T \ {Pick(T)}]
  <2> DEFINE p == Pick(T)
             U == T \ {p}
  <2>1. p \in T /\ p \in S /\ U \in SUBSET S /\ p \notin U
    BY <1>4 DEF Pick
  <2>2. g[T] = f[p] + g[U] /\ f[p] \in Int /\ g[U] \in Int /\ g[T] \in Int
    BY <1>1, <1>4, <2>1 DEF Sums
  <2>3. p # a => (a \in T <=> a \in U)
    BY <2>1
  <2> HIDE DEF p, U
  <2>4. h[T] = e[p] + h[U]
    BY <1>2, <2>1, <2>2, <2>3
  <2> QED
    BY <2>4 DEF p, U
<1>5. Sums(h, e, S)
  BY <1>3, <1>4 DEF Sums
<1>6. SumFunction(e) = h[S] /\ SumFunction(f) = g[S]
  <2> HIDE DEF e, h
  <2> QED
    BY <1>1, <1>2, <1>5, SumIsSums
<1> QED
  BY <1>6

LEMMA SumPlus ==
  ASSUME NEW S, IsFiniteSet(S), NEW f \in [S -> Int], NEW e \in [S -> Int]
  PROVE  SumFunction([x \in S |-> f[x] + e[x]]) = SumFunction(f) + SumFunction(e)
<1> DEFINE fe == [x \in S |-> f[x] + e[x]]
<1>1. PICK g : Sums(g, f, S)
  BY SumsExist
<1>2. PICK h : Sums(h, e, S)
  BY SumsExist
<1> DEFINE gh == [T \in SUBSET S |-> g[T] + h[T]]
<1>3. fe \in [S -> Int]
  OBVIOUS
<1>4. gh \in [SUBSET S -> Int] /\ gh[{}] = 0
  BY <1>1, <1>2 DEF Sums
<1>5. ASSUME NEW T \in SUBSET S, T # {}
      PROVE  gh[T] = fe[Pick(T)] + gh[T \ {Pick(T)}]
  <2> DEFINE p == Pick(T)
             U == T \ {p}
  <2>1. p \in S /\ U \in SUBSET S
    BY <1>5 DEF Pick
  <2>2. g[T] = f[p] + g[U] /\ h[T] = e[p] + h[U]
    BY <1>1, <1>2, <1>5 DEF Sums
  <2>3. {g[U], h[U]} \subseteq Int
    BY <1>1, <1>2, <2>1 DEF Sums
  <2> HIDE DEF p, U
  <2>4. gh[T] = fe[p] + gh[U]
    BY <2>1, <2>2, <2>3
  <2> QED
    BY <2>4 DEF p, U
<1>6. Sums(gh, fe, S)
  BY <1>4, <1>5 DEF Sums
<1>7. SumFunction(fe) = gh[S] /\ SumFunction(f) = g[S] /\ SumFunction(e) = h[S]
  <2> HIDE DEF fe, gh
  <2> QED
    BY <1>1, <1>2, <1>3, <1>6, SumIsSums
<1> QED
  BY <1>7

LEMMA SumOfOnes ==
  ASSUME NEW S, IsFiniteSet(S), NEW A, A \subseteq S
  PROVE  SumFunction([x \in S |-> IF x \in A THEN 1 ELSE 0]) = Cardinality(A)
<1> DEFINE f == [x \in S |-> IF x \in A THEN 1 ELSE 0]
           g == [T \in SUBSET S |-> Cardinality(T \cap A)]
<1>1. f \in [S -> Int]
  OBVIOUS
<1>2. \A T \in SUBSET S : IsFiniteSet(T \cap A) /\ Cardinality(T \cap A) \in Nat
  <2>1. \A T \in SUBSET S : IsFiniteSet(T \cap A)
    BY FS_Subset
  <2> QED
    BY <2>1, FS_CardinalityType
<1>3. g \in [SUBSET S -> Int] /\ g[{}] = 0
  BY <1>2, FS_EmptySet
<1>4. ASSUME NEW T \in SUBSET S, T # {}
      PROVE  g[T] = f[Pick(T)] + g[T \ {Pick(T)}]
  <2> DEFINE p == Pick(T)
  <2>1. p \in T
    BY <1>4 DEF Pick
  <2> HIDE DEF p
  <2>2. (T \ {p}) \cap A = (T \cap A) \ {p}
    OBVIOUS
  <2>3. Cardinality((T \cap A) \ {p})
          = IF p \in A THEN Cardinality(T \cap A) - 1 ELSE Cardinality(T \cap A)
    BY <1>2, <2>1, FS_RemoveElement
  <2>4. /\ T \ {p} \in SUBSET S /\ p \in S /\ (p \in A <=> p \in T \cap A)
        /\ Cardinality(T \cap A) \in Nat
    BY <1>2, <1>4, <2>1
  <2>5. g[T] = Cardinality(T \cap A) /\ g[T \ {p}] = Cardinality((T \cap A) \ {p})
    BY <2>2, <2>4
  <2>6. f[p] = IF p \in A THEN 1 ELSE 0
    BY <2>4
  <2> HIDE DEF f, g
  <2>7. g[T] = f[p] + g[T \ {p}]
    BY <2>3, <2>4, <2>5, <2>6
  <2> QED
    BY <2>7 DEF p
<1>5. Sums(g, f, S)
  BY <1>3, <1>4 DEF Sums
<1>6. SumFunction(f) = g[S]
  <2> HIDE DEF f, g
  <2> QED
    BY <1>1, <1>5, SumIsSums
<1>7. S \cap A = A
  OBVIOUS
<1> QED
  BY <1>6, <1>7

LEMMA SumOfZeros ==
  ASSUME NEW S, IsFiniteSet(S)
  PROVE  SumFunction([x \in S |-> 0]) = 0
<1>1. [x \in S |-> IF x \in {} THEN 1 ELSE 0] = [x \in S |-> 0]
  OBVIOUS
<1> QED
  BY <1>1, SumOfOnes, FS_EmptySet

(* A relation between two finite sets has as many pairs counted by its     *)
(* first components as by its second ones.                                 *)
LEMMA DoubleCounting ==
  ASSUME NEW S, IsFiniteSet(S), NEW P, IsFiniteSet(P), NEW H \in [P -> SUBSET S]
  PROVE  SumFunction([s \in S |-> Cardinality({p \in P : s \in H[p]})])
           = SumFunction([p \in P |-> Cardinality(H[p])])
<1> DEFINE Row(Q) == [s \in S |-> Cardinality({p \in Q : s \in H[p]})]
           f == [p \in P |-> Cardinality(H[p])]
           g == [Q \in SUBSET P |-> SumFunction(Row(Q))]
<1>1. \A p \in P : IsFiniteSet(H[p]) /\ Cardinality(H[p]) \in Nat
  <2>1. \A p \in P : IsFiniteSet(H[p])
    BY FS_Subset
  <2> QED
    BY <2>1, FS_CardinalityType
<1>2. ASSUME NEW Q \in SUBSET P, NEW s \in S
      PROVE  /\ IsFiniteSet({p \in Q : s \in H[p]})
             /\ Cardinality({p \in Q : s \in H[p]}) \in Nat
  <2>1. {p \in Q : s \in H[p]} \in SUBSET P
    OBVIOUS
  <2> QED
    BY <2>1, FS_Subset, FS_CardinalityType
<1>3. ASSUME NEW Q \in SUBSET P
      PROVE  Row(Q) \in [S -> Int]
  <2>1. \A s \in S : Cardinality({p \in Q : s \in H[p]}) \in Int
    BY <1>2
  <2> QED
    BY <2>1
<1>4. f \in [P -> Int]
  BY <1>1
<1>5. g \in [SUBSET P -> Int]
  <2> HIDE DEF Row
  <2> QED
    BY <1>3, SumIsInt
<1>6. g[{}] = 0
  <2>1. \A s \in S : {p \in {} : s \in H[p]} = {}
    OBVIOUS
  <2>2. Row({}) = [s \in S |-> 0]
    BY <2>1, FS_EmptySet
  <2> QED
    BY <2>2, SumOfZeros
<1>7. ASSUME NEW Q \in SUBSET P, Q # {}
      PROVE  g[Q] = f[Pick(Q)] + g[Q \ {Pick(Q)}]
  <2>1. PICK q \in Q : q = Pick(Q)
    BY <1>7 DEF Pick
  <2> DEFINE R == Q \ {q}
             e == [s \in S |-> IF s \in H[q] THEN 1 ELSE 0]
  <2>2. R \in SUBSET P /\ H[q] \subseteq S /\ q \in P
    BY <2>1
  <2>3. ASSUME NEW s \in S
        PROVE  Row(Q)[s] = Row(R)[s] + e[s]
    <3>1. {p \in R : s \in H[p]} = {p \in Q : s \in H[p]} \ {q}
      OBVIOUS
    <3>2. q \in {p \in Q : s \in H[p]} <=> s \in H[q]
      OBVIOUS
    <3> DEFINE W == {p \in Q : s \in H[p]}
    <3>3. IsFiniteSet(W) /\ Cardinality(W) \in Nat
      BY <1>2
    <3> HIDE DEF W
    <3>4. Cardinality(W \ {q}) = IF q \in W THEN Cardinality(W) - 1 ELSE Cardinality(W)
      BY <3>3, FS_RemoveElement
    <3>5. Cardinality(W) = Cardinality(W \ {q}) + e[s]
      BY <3>2, <3>3, <3>4 DEF W
    <3> QED
      BY <3>1, <3>5 DEF W
  <2>4. Row(Q) = [s \in S |-> Row(R)[s] + e[s]]
    BY <2>3
  <2>5. e \in [S -> Int] /\ SumFunction(e) = Cardinality(H[q])
    BY <2>2, SumOfOnes
  <2>6. Row(R) \in [S -> Int]
    BY <1>3, <2>2
  <2> HIDE DEF Row, e, R
  <2>7. SumFunction(Row(Q)) = SumFunction(Row(R)) + Cardinality(H[q])
    BY <2>4, <2>5, <2>6, SumPlus
  <2>8. SumFunction(Row(R)) \in Int /\ Cardinality(H[q]) \in Int
    BY <1>1, <2>2, <2>6, SumIsInt
  <2> QED
    BY <2>1, <2>2, <2>7, <2>8 DEF R
<1>8. Sums(g, f, P)
  BY <1>5, <1>6, <1>7 DEF Sums
<1>9. SumFunction(f) = g[P]
  <2> HIDE DEF f, g
  <2> QED
    BY <1>4, <1>8, SumIsSums
<1> QED
  BY <1>9
=============================================================================
