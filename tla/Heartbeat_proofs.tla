-------------------------- MODULE Heartbeat_proofs --------------------------
(***************************************************************************)
(* Proofs about Heartbeat, for any times and any number of pulses that may *)
(* be missed.  Only LiveSidesKept needs DriftAssumption.                   *)
(*                                                                         *)
(* InTime counts down to the end of a side whose peer is gone: the rounds  *)
(* that are left, times the longest round.  Paced is why two pulses are    *)
(* not read as one for ever: what a side has read and what waits for it    *)
(* was sent since a pulse was last read alone, one Gap apart at least.     *)
(* Drift follows a side through the rounds that count as missed: some that *)
(* found two pulses, then at most one that found none.                     *)
(***************************************************************************)
EXTENDS Heartbeat, SumLemmas

\* The least time from one pulse of a side to its next.
Gap == Shortest + Sleep

Times ==
  \A i \in Sides :
    /\ phase[i] = "window" => missed[i] < Limit /\ timer[i] <= Longest
    /\ phase[i] = "sleep" => timer[i] <= Sleep
    /\ broken[i] => Closed(Peer(i))
    /\ ~broken[i] => missed[i] <= Limit
    /\ Active(i) /\ Active(Peer(i)) => since[i] = 0

\* What is left of the round in progress, at most.
Rest(i) == timer[i] + (IF phase[i] = "window" THEN Sleep ELSE 0)

\* The count at the end of the round in progress, when the peer is gone.
AtEnd(i) ==
  IF phase[i] = "window"
    THEN Count(i) + (IF Closed(Peer(i)) /\ broken[i] THEN 1 ELSE 0)
    ELSE missed[i]

\* From the next round on each pulse sent fails.
Noticed(i) == phase[i] = "window" \/ broken[i]

\* The rounds after the one in progress.
RoundsLeft(i) ==
  IF phase[Peer(i)] = "suspended"
    THEN IF pending[i] = 1 THEN Limit + 1 ELSE Limit - AtEnd(i)
    ELSE IF pending[i] = 1
           THEN 1 + (IF Noticed(i) THEN Limit ELSE Limit + 1) \div 2
           ELSE IF Noticed(i) THEN (Limit + 1 - AtEnd(i)) \div 2
                              ELSE 1 + (Limit - AtEnd(i)) \div 2

Allowed(i) == IF phase[Peer(i)] = "suspended" THEN Limit + 2 ELSE (Limit + 1) \div 2 + 2

InTime ==
  \A i \in Sides : Active(i) /\ ~Active(Peer(i)) =>
    since[i] + Rest(i) + RoundsLeft(i) * Round <= Allowed(i) * Round

\* The time until the side's next pulse: no less than Due, no more than Latest.
Due(j) ==
  IF phase[j] = "window" THEN IF timer[j] < Shortest THEN timer[j] ELSE Shortest
                         ELSE timer[j] + Shortest
Latest(j) == timer[j] + (IF phase[j] = "window" THEN 0 ELSE Longest)

\* In each of the last a rounds two pulses were read.
Paced(i, a) == (2 * a + pending[i]) * Gap <= (a + 1) * Round - Rest(i) + Due(Peer(i))

\* The peer has sent nothing for the time e.
Quiet(i, e) == e + Latest(Peer(i)) <= Round

\* The part of the window, of Shortest, that is over.
Elapsed(i) == IF timer[i] < Shortest THEN Shortest - timer[i] ELSE 0

DriftInWindow(i) ==
  /\ got[i] = "pulse" => Paced(i, 0)
  /\ got[i] = "other" => missed[i] + 1 <= Limit - 2 /\ Paced(i, missed[i] + 1)
  /\ got[i] = "none" =>
       /\ pending[i] = 0
       /\ \/ missed[i] <= Limit - 2 /\ Quiet(i, Sleep + Elapsed(i))
          \/ missed[i] <= Limit - 1 /\ Latest(Peer(i)) < timer[i]

DriftInSleep(i) ==
  \/ /\ missed[i] <= Limit - 2
     /\ Paced(i, missed[i])
     /\ pending[i] = 0 => Quiet(i, Sleep - timer[i])
  \/ /\ missed[i] <= Limit - 1
     /\ pending[i] \in {0, 1}
     /\ pending[i] = 0 => Quiet(i, Gap + Sleep - timer[i])
     /\ pending[i] = 1 => timer[i] < Due(Peer(i))

Drift ==
  ~crowded => \A i \in Sides : Active(i) /\ Active(Peer(i)) =>
    /\ phase[i] = "window" => DriftInWindow(i)
    /\ phase[i] = "sleep" => DriftInSleep(i)

IInv == TypeOK /\ Times /\ InTime /\ Drift /\ LiveSidesKept

----------------------------------------------------------------------------
(* The times.                                                              *)

LEMMA LongestIs == Longest \in Windows /\ \A w \in Windows : w <= Longest
<1> DEFINE Good == {T \in SUBSET Windows : T # {} => \E w \in T : \A v \in T : v <= w}
<1>1. IsFiniteSet(Windows) /\ Windows # {} /\ \A w \in Windows : w \in Nat
  BY TimesAssumption
<1>2. ASSUME NEW T \in SUBSET Windows, T # {}, T \ {Pick(T)} \in Good
      PROVE  T \in Good
  <2>1. Pick(T) \in T
    BY <1>2 DEF Pick
  <2>2. CASE T \ {Pick(T)} = {}
    <3>1. \A v \in T : v <= Pick(T)
      BY <1>1, <2>1, <2>2
    <3> QED
      BY <2>1, <3>1
  <2>3. CASE T \ {Pick(T)} # {}
    <3>1. PICK w \in T \ {Pick(T)} : \A v \in T \ {Pick(T)} : v <= w
      BY <1>2, <2>3
    <3>2. CASE w <= Pick(T)
      BY <1>1, <2>1, <3>1, <3>2
    <3>3. CASE Pick(T) <= w
      BY <1>1, <2>1, <3>1, <3>3
    <3> QED
      BY <1>1, <2>1, <3>1, <3>2, <3>3
  <2> QED
    BY <2>2, <2>3
<1>3. SUBSET Windows \subseteq Good
  <2>1. {} \in Good
    OBVIOUS
  <2> HIDE DEF Good
  <2> QED
    BY <1>1, <1>2, <2>1, SubsetInduction
<1>4. Windows \in Good
  BY <1>3
<1>5. \E w \in Windows : \A v \in Windows : v <= w
  BY <1>1, <1>4
<1> QED
  BY <1>5 DEF Longest

LEMMA TimesAre ==
  /\ Longest \in Nat \ {0} /\ Shortest \in Nat \ {0} /\ Sleep \in Nat \ {0}
  /\ Limit \in Nat \ {0} /\ Round \in Nat \ {0} /\ Gap \in Nat \ {0} /\ Bound \in Nat
  /\ Round = Longest + Sleep /\ Gap = Shortest + Sleep
  /\ Bound = (Limit + 2) * Round
  /\ \A w \in Windows : w \in Nat /\ 0 < w /\ w <= Longest
<1>1. /\ Longest \in Nat \ {0} /\ Shortest \in Nat \ {0} /\ Sleep \in Nat \ {0}
      /\ Limit \in Nat \ {0}
      /\ \A w \in Windows : w \in Nat /\ 0 < w /\ w <= Longest
  BY LongestIs, TimesAssumption
<1>2. Round \in Nat \ {0} /\ Gap \in Nat \ {0}
  BY <1>1 DEF Round, Gap
<1>3. (Limit + 2) * Round \in Nat
  BY <1>1, <1>2
<1> QED
  BY <1>1, <1>2, <1>3 DEF Round, Gap, Bound

LEMMA NotBelow ==
  ASSUME NEW a \in Nat, NEW b \in Nat, a <= b
  PROVE  a * Round <= b * Round /\ a * Round \in Nat
<1> USE TimesAre
<1>1. PICK d \in Nat : b = a + d
  <2>1. b - a \in Nat /\ b = a + (b - a)
    OBVIOUS
  <2> QED
    BY <2>1
<1>2. d * Round \in Nat /\ a * Round \in Nat
  OBVIOUS
<1>3. b * Round = a * Round + d * Round
  BY <1>1
<1> QED
  BY <1>2, <1>3

(* What DriftAssumption says of the rounds that find two pulses, and of    *)
(* those that find none.                                                   *)
LEMMA NotSoOften ==
  ASSUME NEW a \in Nat, a <= Limit - 2, NEW d \in Nat, d <= Gap,
         (2 * a + 2) * Gap <= (a + 1) * Round + d
  PROVE  a + 1 <= Limit - 2
<1> USE TimesAre
<1>1. SUFFICES ASSUME a = Limit - 2
               PROVE  FALSE
  OBVIOUS
<1>2. (2 * Limit - 2) * Gap <= (Limit - 1) * Round + d
  <2>1. 2 * a + 2 = 2 * Limit - 2 /\ a + 1 = Limit - 1
    BY <1>1
  <2> QED
    BY <2>1
<1>3. (2 * Limit - 2) * Gap = (2 * Limit - 3) * Gap + Gap
  OBVIOUS
<1>4. (2 * Limit - 3) * Gap > (Limit - 1) * Round
  BY DriftAssumption DEF Gap
<1>5. (2 * Limit - 3) * Gap \in Int /\ (Limit - 1) * Round \in Int /\ (2 * Limit - 2) * Gap \in Int
  OBVIOUS
<1> HIDE TimesAre
<1>6. Gap \in Nat
  BY TimesAre
<1> QED
  BY <1>2, <1>3, <1>4, <1>5, <1>6

LEMMA RoundsAlike == 2 <= Limit /\ Round < 2 * Gap
<1> USE TimesAre
<1>1. (2 * Limit - 3) * Gap > (Limit - 1) * Round
  BY DriftAssumption DEF Gap
<1>2. Limit # 1
  <2>1. Limit = 1 => 0 - Gap > 0
    BY <1>1
  <2> QED
    BY <2>1
<1>3. SUFFICES ASSUME 2 * Gap <= Round
               PROVE  FALSE
  BY <1>2
<1>4. PICK k \in Nat, d \in Nat : k = Limit - 1 /\ Round = 2 * Gap + d
  <2>1. Limit - 1 \in Nat /\ Round - 2 * Gap \in Nat
    BY <1>3
  <2> QED
    BY <2>1
<1>5. k * Round = k * (2 * Gap) + k * d
  BY <1>4
<1>6. k * d \in Nat /\ k * (2 * Gap) = 2 * k * Gap
  OBVIOUS
<1>7. (2 * Limit - 3) * Gap = 2 * k * Gap - Gap
  BY <1>4
<1>8. 2 * k * Gap \in Int /\ k * Round \in Int
  OBVIOUS
<1>9. k * Round >= 2 * k * Gap
  BY <1>5, <1>6, <1>8
<1> HIDE TimesAre
<1>10. Gap \in Nat \ {0}
  BY TimesAre
<1> QED
  BY <1>1, <1>4, <1>7, <1>8, <1>9, <1>10

LEMMA PeersAre ==
  \A i \in Sides : /\ Peer(i) \in Sides /\ Peer(i) # i /\ Peer(Peer(i)) = i
                   /\ \A k \in Sides : k = i \/ k = Peer(i)
<1>1. Peer("NS") = "SS" /\ Peer("SS") = "NS"
  BY DEF Peer, Sides
<1> QED
  BY <1>1 DEF Sides

----------------------------------------------------------------------------
(* Type correctness.                                                       *)

LEMMA TypeInit == Init => TypeOK
<1> SUFFICES ASSUME Init
             PROVE  TypeOK
  OBVIOUS
<1>1. timer \in [Sides -> Nat]
  BY TimesAre DEF Init
<1>2. /\ missed \in [Sides -> 0..Limit + 1] /\ since \in [Sides -> 0..Bound + 1]
      /\ pending \in [Sides -> 0..2]
  BY TimesAre DEF Init
<1>3. crowded \in BOOLEAN
  BY DEF Init
<1> QED
  BY <1>1, <1>2, <1>3 DEF Init, TypeOK

LEMMA TimesInit == Init => Times
<1> SUFFICES ASSUME Init
             PROVE  Times
  OBVIOUS
<1>1. \A i \in Sides : timer[i] \in Windows /\ timer[i] <= Longest
  BY TimesAre DEF Init
<1> QED
  BY <1>1, TimesAre DEF Init, Times

\* What one step does to the side i that takes it, and to its peer j.
Ended(i, j) ==
  /\ phase[i] = "window" /\ timer[i] = 0
  /\ phase' = [phase EXCEPT ![i] = "sleep"]
  /\ timer' = [timer EXCEPT ![i] = Sleep]
  /\ UNCHANGED <<since, crowded>>
  /\ broken' = [broken EXCEPT ![i] = @ \/ Closed(j)]
  /\ missed' = [missed EXCEPT ![i] = IF Closed(j) /\ broken[i] THEN Count(i) + 1 ELSE Count(i)]
  /\ Blocked(j) => /\ got' = [got EXCEPT ![i] = "none", ![j] = "pulse"]
                   /\ UNCHANGED pending
  /\ ~Blocked(j) => /\ got' = [got EXCEPT ![i] = "none"]
                    /\ pending' = IF Closed(j) \/ pending[j] = 2 THEN pending
                                  ELSE [pending EXCEPT ![j] = @ + 1]

Started(i, j, w) ==
  /\ phase[i] = "sleep" /\ timer[i] = 0 /\ missed[i] < Limit
  /\ phase' = [phase EXCEPT ![i] = "window"]
  /\ w \in Windows
  /\ timer' = [timer EXCEPT ![i] = w]
  /\ crowded' = (crowded \/ w < Shortest)
  /\ got' = [got EXCEPT ![i] = IF pending[i] = 1 THEN "pulse"
                               ELSE IF pending[i] = 2 \/ Closed(j) THEN "other" ELSE "none"]
  /\ pending' = [pending EXCEPT ![i] = 0]
  /\ UNCHANGED <<missed, broken, since>>

\* The side i takes part no longer.
Left(i, j) ==
  /\ Active(i)
  /\ \E s \in {"down", "dead", "suspended"} :
       /\ phase' = [phase EXCEPT ![i] = s]
       /\ s = "suspended" => broken' = broken
       /\ s = "down" => missed[i] >= Limit /\ phase[i] = "sleep"
  /\ timer'[j] = timer[j]
  /\ broken'[i] = broken[i]
  /\ UNCHANGED <<missed, since, crowded>>

LEMMA StepIs ==
  ASSUME TypeOK, [Next]_vars
  PROVE  \/ \E i \in Sides : Ended(i, Peer(i))
         \/ \E i \in Sides, w \in Windows : Started(i, Peer(i), w)
         \/ \E i \in Sides : Left(i, Peer(i))
         \/ Tick
         \/ UNCHANGED vars
<1>1. ASSUME NEW i \in Sides, EndWindow(i)
      PROVE  Ended(i, Peer(i))
  BY <1>1 DEF EndWindow, Send, Ended
<1>2. ASSUME NEW i \in Sides, StartWindow(i)
      PROVE  \E w \in Windows : Started(i, Peer(i), w)
  BY <1>2 DEF StartWindow, OpenWindow, Received, Started
<1>3. ASSUME NEW i \in Sides, GiveUp(i)
      PROVE  Left(i, Peer(i))
  BY <1>3, PeersAre DEF GiveUp, CloseConnection, Left, TypeOK, Active
<1>4. ASSUME NEW i \in Sides, Die(i)
      PROVE  Left(i, Peer(i))
  BY <1>4, PeersAre DEF Die, CloseConnection, Left, TypeOK
<1>5. ASSUME NEW i \in Sides, Suspend(i)
      PROVE  Left(i, Peer(i))
  BY <1>5, PeersAre DEF Suspend, Left, TypeOK
<1> QED
  BY <1>1, <1>2, <1>3, <1>4, <1>5 DEF Next, Over

LEMMA TypeStep == TypeOK /\ Times /\ [Next]_vars => TypeOK'
<1> SUFFICES ASSUME TypeOK, Times, [Next]_vars
             PROVE  TypeOK'
  OBVIOUS
<1> USE DEF TypeOK
<1>1. ASSUME NEW i \in Sides, Ended(i, Peer(i))
      PROVE  TypeOK'
  <2>1. missed[i] < Limit /\ missed[i] \in 0..Limit + 1
    BY <1>1 DEF Ended, Times
  <2>2. Count(i) \in 0..Limit
    BY <2>1, TimesAre DEF Count
  <2>3. missed' \in [Sides -> 0..Limit + 1]
    BY <1>1, <2>2, TimesAre DEF Ended
  <2>4. pending' \in [Sides -> 0..2]
    <3>1. CASE Blocked(Peer(i)) \/ Closed(Peer(i)) \/ pending[Peer(i)] = 2
      BY <1>1, <3>1 DEF Ended
    <3>2. CASE ~Blocked(Peer(i)) /\ ~(Closed(Peer(i)) \/ pending[Peer(i)] = 2)
      <4>1. pending' = [pending EXCEPT ![Peer(i)] = @ + 1]
        BY <1>1, <3>2 DEF Ended
      <4>2. pending[Peer(i)] + 1 \in 0..2
        BY <3>2, PeersAre
      <4> QED
        BY <4>1, <4>2
    <3> QED
      BY <3>1, <3>2
  <2>5. got' \in [Sides -> {"none", "pulse", "other"}]
    BY <1>1 DEF Ended
  <2>6. broken' \in [Sides -> BOOLEAN]
    BY <1>1, Zenon DEF Ended, Closed
  <2>7. timer' \in [Sides -> Nat]
    BY <1>1, TimesAre DEF Ended
  <2>8. phase' \in [Sides -> {"window", "sleep", "down", "dead", "suspended"}]
    BY <1>1 DEF Ended
  <2>9. since' = since /\ crowded' = crowded
    BY <1>1 DEF Ended
  <2> QED
    BY <2>3, <2>4, <2>5, <2>6, <2>7, <2>8, <2>9
<1>2. ASSUME NEW i \in Sides, NEW w \in Windows, Started(i, Peer(i), w)
      PROVE  TypeOK'
  <2>1. timer' \in [Sides -> Nat]
    BY <1>2, TimesAre DEF Started
  <2>2. crowded' \in BOOLEAN
    BY <1>2 DEF Started
  <2>3. got' \in [Sides -> {"none", "pulse", "other"}] /\ pending' \in [Sides -> 0..2]
    BY <1>2 DEF Started
  <2>4. phase' \in [Sides -> {"window", "sleep", "down", "dead", "suspended"}]
    BY <1>2 DEF Started
  <2>5. missed' = missed /\ broken' = broken /\ since' = since
    BY <1>2 DEF Started
  <2> QED
    BY <2>1, <2>2, <2>3, <2>4, <2>5
<1>3. ASSUME NEW i \in Sides, GiveUp(i) \/ Die(i)
      PROVE  TypeOK'
  <2>1. CloseConnection(i) /\ UNCHANGED <<missed, since, crowded>>
    BY <1>3 DEF GiveUp, Die
  <2>2. got' \in [Sides -> {"none", "pulse", "other"}] /\ pending' \in [Sides -> 0..2]
    BY <2>1, PeersAre DEF CloseConnection
  <2>3. broken' \in [Sides -> BOOLEAN]
    BY <2>1, Zenon DEF CloseConnection
  <2>4. phase' \in [Sides -> {"window", "sleep", "down", "dead", "suspended"}]
    BY <1>3 DEF GiveUp, Die
  <2>5. timer' \in [Sides -> Nat]
    BY <1>3 DEF GiveUp, Die
  <2> QED
    BY <2>1, <2>2, <2>3, <2>4, <2>5
<1>4. ASSUME NEW i \in Sides, Suspend(i)
      PROVE  TypeOK'
  BY <1>4 DEF Suspend
<1>5. CASE Tick
  <2>1. timer' \in [Sides -> Nat]
    <3>1. \A i \in Sides : (IF Active(i) THEN timer[i] - 1 ELSE timer[i]) \in Nat
      BY <1>5 DEF Tick
    <3> QED
      BY <1>5, <3>1 DEF Tick
  <2>2. since' \in [Sides -> 0..Bound + 1]
    <3>1. \A i \in Sides : (IF Active(i) /\ ~Active(Peer(i)) /\ since[i] <= Bound
                              THEN since[i] + 1 ELSE since[i]) \in 0..Bound + 1
      BY TimesAre
    <3> QED
      BY <1>5, <3>1 DEF Tick
  <2> QED
    BY <1>5, <2>1, <2>2 DEF Tick
<1>6. CASE UNCHANGED vars
  BY <1>6 DEF vars
<1>7. ASSUME NEW i \in Sides, EndWindow(i) \/ StartWindow(i)
      PROVE  TypeOK'
  <2>1. EndWindow(i) => Ended(i, Peer(i))
    BY DEF EndWindow, Send, Ended
  <2>2. StartWindow(i) => \E w \in Windows : Started(i, Peer(i), w)
    BY DEF StartWindow, OpenWindow, Received, Started
  <2> QED
    BY <1>1, <1>2, <1>7, <2>1, <2>2
<1> QED
  BY <1>3, <1>4, <1>5, <1>6, <1>7 DEF Next, Over

TimesOf(i) ==
  /\ phase[i] = "window" => missed[i] < Limit /\ timer[i] <= Longest
  /\ phase[i] = "sleep" => timer[i] <= Sleep
  /\ broken[i] => Closed(Peer(i))
  /\ ~broken[i] => missed[i] <= Limit
  /\ Active(i) /\ Active(Peer(i)) => since[i] = 0

LEMMA TimesOfAll ==
  (Times <=> \A i \in Sides : TimesOf(i)) /\ (Times' <=> \A i \in Sides : TimesOf(i)')
BY DEF Times, TimesOf

LEMMA TimesStep == TypeOK /\ TypeOK' /\ Times /\ [Next]_vars => Times'
<1> SUFFICES ASSUME TypeOK, TypeOK', Times, [Next]_vars, NEW k \in Sides
             PROVE  TimesOf(k)'
  BY TimesOfAll
<1> USE DEF TypeOK, Active, Closed
<1>0. TimesOf(k) /\ TimesOf(Peer(k)) /\ Peer(k) \in Sides /\ Peer(Peer(k)) = k
  BY TimesOfAll, PeersAre
<1>1. ASSUME NEW i \in Sides, Ended(i, Peer(i))
      PROVE  TimesOf(k)'
  <2>1. PICK j \in Sides : j = Peer(i) /\ j # i /\ Peer(j) = i /\ (k = i \/ k = j)
    BY PeersAre
  <2>2. CASE k = i
    <3>1. phase'[i] = "sleep" /\ phase'[j] = phase[j] /\ timer'[i] = Sleep /\ since' = since
      BY <1>1, <2>1 DEF Ended
    <3>2. broken'[i] => broken[i] \/ Closed(j)
      BY <1>1, <2>1 DEF Ended
    <3>3. phase[i] = "window" /\ missed[i] < Limit
      BY <1>0, <1>1, <2>2 DEF Ended, TimesOf
    <3>4. ~broken'[i] => missed'[i] <= Limit
      <4>1. ~broken'[i] => missed'[i] = Count(i)
        BY <1>1, <2>1 DEF Ended
      <4> QED
        BY <3>3, <4>1, TimesAre DEF Count
    <3> QED
      BY <1>0, <2>1, <2>2, <3>1, <3>2, <3>3, <3>4, TimesAre DEF TimesOf
  <2>3. CASE k = j
    <3>1. /\ phase'[j] = phase[j] /\ timer'[j] = timer[j] /\ missed'[j] = missed[j]
          /\ broken'[j] = broken[j] /\ since' = since /\ phase[i] = "window" /\ phase'[i] = "sleep"
      BY <1>1, <2>1 DEF Ended
    <3> QED
      BY <1>0, <2>1, <2>3, <3>1 DEF TimesOf
  <2> QED
    BY <2>1, <2>2, <2>3
<1>2. ASSUME NEW i \in Sides, NEW w \in Windows, Started(i, Peer(i), w)
      PROVE  TimesOf(k)'
  <2>1. PICK j \in Sides : j = Peer(i) /\ j # i /\ Peer(j) = i /\ (k = i \/ k = j)
    BY PeersAre
  <2>2. /\ phase'[i] = "window" /\ phase'[j] = phase[j] /\ timer'[j] = timer[j]
        /\ timer'[i] = w /\ w <= Longest /\ UNCHANGED <<missed, broken, since>>
        /\ missed[i] < Limit /\ phase[i] = "sleep"
    BY <1>2, <2>1, TimesAre DEF Started
  <2> QED
    BY <1>0, <2>1, <2>2 DEF TimesOf
<1>3. ASSUME NEW i \in Sides, Left(i, Peer(i))
      PROVE  TimesOf(k)'
  <2>1. PICK j \in Sides : j = Peer(i) /\ j # i /\ Peer(j) = i /\ (k = i \/ k = j)
    BY PeersAre
  <2>2. PICK s \in {"down", "dead", "suspended"} :
          phase'[i] = s /\ phase'[j] = phase[j] /\ (s = "suspended" => broken' = broken)
    BY <1>3, <2>1 DEF Left
  <2>3. /\ timer'[j] = timer[j] /\ broken'[i] = broken[i] /\ UNCHANGED <<missed, since>>
        /\ phase[i] \in {"window", "sleep"}
    BY <1>3, <2>1 DEF Left
  <2>4. CASE k = i
    BY <1>0, <2>1, <2>2, <2>3, <2>4 DEF TimesOf
  <2>5. CASE k = j
    <3>1. missed[j] <= Limit
      BY <1>0, <2>1, <2>3, <2>5 DEF TimesOf
    <3> QED
      BY <1>0, <2>1, <2>2, <2>3, <2>5, <3>1 DEF TimesOf
  <2> QED
    BY <2>1, <2>4, <2>5
<1>4. CASE Tick
  <2>1. /\ phase' = phase /\ missed' = missed /\ broken' = broken
        /\ timer'[k] <= timer[k]
        /\ Active(k) /\ Active(Peer(k)) => since'[k] = since[k]
    BY <1>4 DEF Tick
  <2> QED
    BY <1>0, <2>1, TimesAre DEF TimesOf
<1>5. CASE UNCHANGED vars
  BY <1>0, <1>5 DEF vars, TimesOf
<1> QED
  BY <1>1, <1>2, <1>3, <1>4, <1>5, StepIs

----------------------------------------------------------------------------
(* A side whose peer is gone.                                              *)

InTimeOf(i) ==
  Active(i) /\ ~Active(Peer(i)) =>
    since[i] + Rest(i) + RoundsLeft(i) * Round <= Allowed(i) * Round

LEMMA InTimeOfAll ==
  (InTime <=> \A i \in Sides : InTimeOf(i)) /\ (InTime' <=> \A i \in Sides : InTimeOf(i)')
BY DEF InTime, InTimeOf

LEMMA RestIs ==
  ASSUME TypeOK, Times, NEW i \in Sides, Active(i)
  PROVE  Rest(i) \in Nat /\ Rest(i) <= Round
BY TimesAre DEF Rest, Times, TypeOK, Active

LEMMA LeftIs ==
  ASSUME TypeOK, Times, NEW i \in Sides, Active(i), ~Active(Peer(i))
  PROVE  /\ RoundsLeft(i) \in Nat /\ Allowed(i) \in Nat
         /\ RoundsLeft(i) + 1 <= Allowed(i)
<1> USE TimesAre
<1>1. missed[i] \in 0..Limit + 1 /\ (phase[i] = "window" => missed[i] < Limit)
      /\ (~broken[i] => missed[i] <= Limit) /\ (broken[i] => Closed(Peer(i)))
  BY DEF TypeOK, Times
<1>2. AtEnd(i) \in 0..Limit + 1 /\ (phase[Peer(i)] = "suspended" => AtEnd(i) <= Limit)
      /\ (~Noticed(i) => AtEnd(i) <= Limit)
  BY <1>1 DEF AtEnd, Count, Closed, Noticed
<1>3. PICK m \in 0..Limit + 1 : m = AtEnd(i)
  BY <1>2
<1>4. /\ 0 <= Limit \div 2 /\ Limit \div 2 <= (Limit + 1) \div 2 /\ (Limit + 1) \div 2 \in Nat
      /\ Limit \div 2 \in Nat
      /\ (Limit + 1 - m) \div 2 \in Nat /\ (Limit + 1 - m) \div 2 <= (Limit + 1) \div 2
  OBVIOUS
<1>5. m <= Limit => (Limit - m) \div 2 \in Nat /\ (Limit - m) \div 2 <= (Limit + 1) \div 2
  OBVIOUS
<1> QED
  BY <1>2, <1>3, <1>4, <1>5 DEF RoundsLeft, Allowed

LEMMA InTimeInit == Init => InTime
BY PeersAre DEF Init, InTime, Active

(* One round less is left when the next one starts.                        *)
LEMMA OneRoundLess ==
  ASSUME TypeOK, TypeOK', Times, NEW i \in Sides, NEW j \in Sides, j = Peer(i), i # j,
         NEW w \in Windows, Started(i, j, w), ~Active(j)
  PROVE  RoundsLeft(i)' = RoundsLeft(i) - 1
<1> USE TimesAre
<1>1. PICK n \in 0..2, m \in 0..Limit : n = pending[i] /\ m = missed[i] /\ m < Limit
  BY DEF Started, TypeOK
<1>2. /\ phase[i] = "sleep" /\ phase'[i] = "window" /\ phase'[j] = phase[j]
      /\ pending'[i] = 0 /\ missed'[i] = m /\ broken'[i] = broken[i]
      /\ got'[i] = IF n = 1 THEN "pulse" ELSE IF n = 2 \/ Closed(j) THEN "other" ELSE "none"
  BY <1>1 DEF Started, TypeOK
<1>3. Noticed(i)' /\ (Noticed(i) <=> broken[i]) /\ AtEnd(i) = m
  BY <1>1, <1>2 DEF Noticed, AtEnd
<1>4. /\ phase[j] \in {"down", "dead", "suspended"}
      /\ (Closed(j) <=> phase[j] # "suspended") /\ (Closed(j)' <=> Closed(j))
  BY <1>2 DEF Active, Closed, TypeOK
<1>5. Count(i)' = IF n = 1 THEN 0 ELSE m + 1
  BY <1>2 DEF Count
<1>6. AtEnd(i)' = (IF n = 1 THEN 0 ELSE m + 1) + (IF Closed(j) /\ broken[i] THEN 1 ELSE 0)
  BY <1>2, <1>4, <1>5 DEF AtEnd
<1>7. CASE phase[j] = "suspended"
  <2>1. AtEnd(i)' = IF n = 1 THEN 0 ELSE m + 1
    BY <1>4, <1>6, <1>7
  <2>2. RoundsLeft(i) = IF n = 1 THEN Limit + 1 ELSE Limit - m
    BY <1>1, <1>3, <1>7 DEF RoundsLeft
  <2>3. RoundsLeft(i)' = Limit - AtEnd(i)'
    BY <1>2, <1>7 DEF RoundsLeft
  <2> QED
    BY <2>1, <2>2, <2>3
<1>8. CASE phase[j] # "suspended"
  <2>1. RoundsLeft(i)' = (Limit + 1 - AtEnd(i)') \div 2
    BY <1>2, <1>3, <1>8 DEF RoundsLeft
  <2>2. RoundsLeft(i) = IF n = 1 THEN 1 + (IF broken[i] THEN Limit ELSE Limit + 1) \div 2
                        ELSE IF broken[i] THEN (Limit + 1 - m) \div 2
                                          ELSE 1 + (Limit - m) \div 2
    BY <1>1, <1>3, <1>8 DEF RoundsLeft
  <2>3. AtEnd(i)' = (IF n = 1 THEN 0 ELSE m + 1) + (IF broken[i] THEN 1 ELSE 0)
    BY <1>4, <1>6, <1>8
  <2>4. (Limit + 1 - m) \div 2 = (Limit + 1 - (m + 2)) \div 2 + 1
    BY <1>1
  <2>5. CASE n = 1
    BY <2>1, <2>2, <2>3, <2>5
  <2>6. CASE n # 1 /\ broken[i]
    <3>1. AtEnd(i)' = m + 2
      BY <2>3, <2>6
    <3> QED
      BY <2>1, <2>2, <2>4, <2>6, <3>1
  <2>7. CASE n # 1 /\ ~broken[i]
    <3>1. AtEnd(i)' = m + 1 /\ Limit + 1 - (m + 1) = Limit - m
      BY <2>3, <2>7
    <3> QED
      BY <2>1, <2>2, <2>7, <3>1
  <2> QED
    BY <2>5, <2>6, <2>7
<1> QED
  BY <1>7, <1>8

LEMMA InTimeStep ==
  ASSUME TypeOK, TypeOK', Times, Times', InTime, [Next]_vars
  PROVE  InTime'
<1> SUFFICES ASSUME NEW k \in Sides, Active(k)', ~Active(Peer(k))'
             PROVE  since'[k] + Rest(k)' + RoundsLeft(k)' * Round <= Allowed(k)' * Round
  BY InTimeOfAll DEF InTimeOf
<1>0. /\ InTimeOf(k) /\ since[k] \in Nat /\ since'[k] \in Nat
      /\ Round \in Nat
  BY InTimeOfAll, TimesAre DEF TypeOK
<1>1. ASSUME NEW i \in Sides, Ended(i, Peer(i))
      PROVE  since'[k] + Rest(k)' + RoundsLeft(k)' * Round <= Allowed(k)' * Round
  <2>1. PICK j \in Sides : j = Peer(i) /\ j # i /\ Peer(j) = i /\ (k = i \/ k = j)
    BY PeersAre
  <2>2. /\ phase[i] = "window" /\ phase'[i] = "sleep" /\ phase'[j] = phase[j]
        /\ timer[i] = 0 /\ timer'[i] = Sleep /\ since' = since
        /\ missed'[i] = Count(i) + (IF Closed(j) /\ broken[i] THEN 1 ELSE 0)
        /\ broken'[i] <=> broken[i] \/ Closed(j)
    <3>1. /\ phase[i] = "window" /\ phase'[i] = "sleep" /\ phase'[j] = phase[j]
          /\ timer[i] = 0 /\ timer'[i] = Sleep /\ since' = since
      BY <1>1, <2>1 DEF Ended, TypeOK
    <3>2. missed'[i] = IF Closed(j) /\ broken[i] THEN Count(i) + 1 ELSE Count(i)
      BY <1>1, <2>1 DEF Ended, TypeOK
    <3>3. Count(i) \in Nat
      BY TimesAre DEF Count, TypeOK
    <3>4. broken'[i] <=> broken[i] \/ Closed(j)
      BY <1>1, <2>1, Zenon DEF Ended, TypeOK
    <3> QED
      BY <3>1, <3>2, <3>3, <3>4
  <2>3. k = i /\ ~Active(j) /\ Active(i)
    BY <2>1, <2>2 DEF Active
  <2>4. pending'[i] = pending[i]
    BY <1>1, <2>1, <2>3 DEF Ended, Blocked, Active, TypeOK
  <2>5. Rest(i)' = Rest(i) /\ Allowed(i)' = Allowed(i)
    BY <2>1, <2>2, TimesAre DEF Rest, Allowed
  <2>6. AtEnd(i)' = AtEnd(i)
    BY <2>1, <2>2 DEF AtEnd
  <2>7. phase[j] # "suspended" => Closed(j)
    BY <2>3 DEF Active, Closed, TypeOK
  <2>8. RoundsLeft(i)' = RoundsLeft(i)
    BY <2>1, <2>2, <2>4, <2>6, <2>7 DEF RoundsLeft, Noticed
  <2> QED
    BY <1>0, <2>1, <2>2, <2>3, <2>5, <2>8 DEF InTimeOf
<1>2. ASSUME NEW i \in Sides, NEW w \in Windows, Started(i, Peer(i), w)
      PROVE  since'[k] + Rest(k)' + RoundsLeft(k)' * Round <= Allowed(k)' * Round
  <2>1. PICK j \in Sides : j = Peer(i) /\ j # i /\ Peer(j) = i /\ (k = i \/ k = j)
    BY PeersAre
  <2>2. /\ phase[i] = "sleep" /\ phase'[i] = "window" /\ phase'[j] = phase[j]
        /\ timer[i] = 0 /\ timer'[i] = w /\ since' = since
    BY <1>2, <2>1 DEF Started, TypeOK
  <2>3. k = i /\ ~Active(j) /\ Active(i)
    BY <2>1, <2>2 DEF Active
  <2>4. RoundsLeft(i)' = RoundsLeft(i) - 1 /\ RoundsLeft(i) \in Nat
    BY <1>2, <2>1, <2>3, OneRoundLess, LeftIs
  <2>5. Rest(i) = 0 /\ Rest(i)' <= Round /\ Rest(i)' \in Nat /\ Allowed(i)' = Allowed(i)
    BY <2>1, <2>2, TimesAre DEF Rest, Allowed, Round
  <2>6. PICK a \in Nat, b \in Int : a = RoundsLeft(i) /\ b = Allowed(i) * Round
    BY <1>0, <2>1, <2>3, <2>4, LeftIs
  <2>7. (a - 1) * Round = a * Round - Round /\ a * Round \in Int
    BY <1>0
  <2>8. since[i] + a * Round <= b
    BY <1>0, <2>1, <2>3, <2>5, <2>6, <2>7 DEF InTimeOf
  <2> QED
    BY <1>0, <2>2, <2>3, <2>4, <2>5, <2>6, <2>7, <2>8
<1>3. ASSUME NEW i \in Sides, Left(i, Peer(i))
      PROVE  since'[k] + Rest(k)' + RoundsLeft(k)' * Round <= Allowed(k)' * Round
  <2>1. PICK j \in Sides : j = Peer(i) /\ j # i /\ Peer(j) = i /\ (k = i \/ k = j)
    BY PeersAre
  <2>2. ~Active(i)' /\ phase'[j] = phase[j] /\ since' = since /\ Active(i)
    BY <1>3, <2>1 DEF Left, Active, TypeOK
  <2>3. k = j /\ Active(j)
    BY <2>1, <2>2 DEF Active
  <2>4. since[k] = 0
    BY <2>1, <2>2, <2>3 DEF Times
  <2>5. PICK r \in Nat : r = Rest(k)' /\ r <= Round
    BY TimesAre DEF Rest, Times, TypeOK, Active
  <2>6. PICK a \in Nat, b \in Nat : a = RoundsLeft(k)' /\ b = Allowed(k)' /\ a + 1 <= b
    <3> USE TimesAre
    <3>1. missed'[k] \in 0..Limit + 1 /\ (phase'[k] = "window" => missed'[k] < Limit)
          /\ (~broken'[k] => missed'[k] <= Limit) /\ (broken'[k] => Closed(Peer(k))')
      BY DEF TypeOK, Times, Closed
    <3>2. AtEnd(k)' \in 0..Limit + 1 /\ (phase'[Peer(k)] = "suspended" => AtEnd(k)' <= Limit)
          /\ (~Noticed(k)' => AtEnd(k)' <= Limit)
      BY <3>1 DEF AtEnd, Count, Closed, Noticed
    <3>3. PICK m \in 0..Limit + 1 : m = AtEnd(k)'
      BY <3>2
    <3>4. /\ 0 <= Limit \div 2 /\ Limit \div 2 <= (Limit + 1) \div 2 /\ (Limit + 1) \div 2 \in Nat
          /\ Limit \div 2 \in Nat
          /\ (Limit + 1 - m) \div 2 \in Nat /\ (Limit + 1 - m) \div 2 <= (Limit + 1) \div 2
      OBVIOUS
    <3>5. m <= Limit => (Limit - m) \div 2 \in Nat /\ (Limit - m) \div 2 <= (Limit + 1) \div 2
      OBVIOUS
    <3>6. RoundsLeft(k)' \in Nat /\ Allowed(k)' \in Nat /\ RoundsLeft(k)' + 1 <= Allowed(k)'
      BY <3>2, <3>3, <3>4, <3>5 DEF RoundsLeft, Allowed
    <3> QED
      BY <3>6
  <2>7. (a + 1) * Round <= b * Round
    BY <2>6, NotBelow
  <2>8. (a + 1) * Round = a * Round + Round /\ a * Round \in Int /\ b * Round \in Int
    BY <1>0
  <2> QED
    BY <1>0, <2>2, <2>4, <2>5, <2>6, <2>7, <2>8
<1>4. CASE Tick
  <2>1. /\ phase' = phase /\ pending' = pending /\ broken' = broken
        /\ missed' = missed /\ got' = got
    BY <1>4 DEF Tick
  <2>2. Active(k) /\ ~Active(Peer(k))
    BY <2>1 DEF Active
  <2>3. timer'[k] = timer[k] - 1 /\ since'[k] <= since[k] + 1
    BY <1>0, <1>4, <2>2 DEF Tick
  <2>4. Rest(k)' = Rest(k) - 1 /\ Rest(k) \in Nat
    BY <2>1, <2>3, TimesAre DEF Rest, TypeOK
  <2>5. RoundsLeft(k)' = RoundsLeft(k) /\ Allowed(k)' = Allowed(k)
    BY <2>1 DEF RoundsLeft, Allowed, AtEnd, Count, Closed, Noticed
  <2>6. RoundsLeft(k) * Round \in Int /\ Allowed(k) * Round \in Int
    BY <1>0, <2>2, LeftIs
  <2> QED
    BY <1>0, <2>2, <2>3, <2>4, <2>5, <2>6 DEF InTimeOf
<1>5. CASE UNCHANGED vars
  <2>1. UNCHANGED <<phase, timer, got, pending, missed, broken, since>>
    BY <1>5 DEF vars
  <2> QED
    BY <1>0, <2>1 DEF InTimeOf, Rest, RoundsLeft, Allowed, AtEnd, Count, Closed, Noticed, Active
<1> QED
  BY <1>1, <1>2, <1>3, <1>4, <1>5, StepIs

LEMMA InTimeIs == TypeOK /\ Times /\ InTime => GivenUpInTime
<1> SUFFICES ASSUME TypeOK, Times, InTime, NEW i \in Sides, Active(i)
             PROVE  since[i] <= (IF phase[Peer(i)] = "suspended"
                                   THEN Limit + 2 ELSE (Limit + 1) \div 2 + 2) * Round
  BY DEF GivenUpInTime
<1>1. since[i] \in Nat /\ Round \in Nat /\ Limit \in Nat
  BY TimesAre DEF TypeOK
<1>2. CASE Active(Peer(i))
  <2>1. since[i] = 0
    BY <1>2 DEF Times
  <2>2. (IF phase[Peer(i)] = "suspended" THEN Limit + 2 ELSE (Limit + 1) \div 2 + 2) \in Nat
    BY <1>1
  <2> QED
    BY <1>1, <2>1, <2>2
<1>3. CASE ~Active(Peer(i))
  <2>1. PICK a \in Nat, b \in Nat : a = RoundsLeft(i) /\ b = Allowed(i)
    BY <1>3, LeftIs
  <2>2. since[i] + Rest(i) + a * Round <= b * Round
    BY <1>3, <2>1 DEF InTime
  <2>3. a * Round \in Nat /\ b * Round \in Nat
    BY <1>1
  <2>4. since[i] <= b * Round
    BY <1>1, <2>2, <2>3, RestIs
  <2> QED
    BY <2>1, <2>4 DEF Allowed
<1> QED
  BY <1>2, <1>3

----------------------------------------------------------------------------
(* Two sides that take part.                                               *)

DriftOf(i) ==
  /\ phase[i] = "window" => DriftInWindow(i)
  /\ phase[i] = "sleep" => DriftInSleep(i)

LEMMA PacedKept ==
  ASSUME NEW a \in Nat, NEW p \in 0..2, NEW q \in 0..2,
         NEW r \in Int, NEW s \in Int, NEW d \in Int, NEW e \in Int,
         (2 * a + p) * Gap <= (a + 1) * Round - r + d,
         q * Gap + s - e <= p * Gap + r - d
  PROVE  (2 * a + q) * Gap <= (a + 1) * Round - s + e
<1> USE TimesAre
<1>1. PICK g \in Int, x \in Int, y \in Int, z \in Int :
        g = 2 * a * Gap /\ x = p * Gap /\ y = q * Gap /\ z = (a + 1) * Round
  OBVIOUS
<1>2. (2 * a + p) * Gap = 2 * a * Gap + p * Gap /\ (2 * a + q) * Gap = 2 * a * Gap + q * Gap
  OBVIOUS
<1> QED
  BY <1>1, <1>2

(* What the peer may still take.                                           *)
LEMMA PeerTakes ==
  ASSUME TypeOK, Times, NEW j \in Sides, Active(j)
  PROVE  /\ Due(j) \in Nat /\ Due(j) <= Gap
         /\ Latest(j) \in Nat /\ Latest(j) <= Round
BY TimesAre DEF Due, Latest, Times, TypeOK, Active

LEMMA DriftEnded ==
  ASSUME TypeOK, TypeOK', Times, Times', NEW i \in Sides, NEW j \in Sides,
         j = Peer(i), i = Peer(j), i # j, Ended(i, j), Active(j),
         DriftOf(i), DriftOf(j)
  PROVE  DriftOf(i)' /\ DriftOf(j)'
<1> USE TimesAre
<1>1. /\ phase[i] = "window" /\ phase'[i] = "sleep" /\ phase'[j] = phase[j]
      /\ timer[i] = 0 /\ timer'[i] = Sleep /\ timer'[j] = timer[j]
      /\ missed'[i] = Count(i) /\ missed'[j] = missed[j] /\ pending'[i] = pending[i]
  <2>1. /\ phase[i] = "window" /\ phase'[i] = "sleep" /\ phase'[j] = phase[j]
        /\ timer[i] = 0 /\ timer'[i] = Sleep /\ timer'[j] = timer[j]
    BY DEF Ended, TypeOK
  <2>2. ~Closed(j)
    BY DEF Active, Closed
  <2>3. missed'[i] = Count(i) /\ missed'[j] = missed[j]
    <3>1. missed' = [missed EXCEPT ![i] = Count(i)]
      BY <2>2 DEF Ended
    <3>2. missed \in [Sides -> 0..Limit + 1]
      BY DEF TypeOK
    <3> HIDE TimesAre
    <3> QED
      BY <3>1, <3>2
  <2>4. pending'[i] = pending[i]
    BY DEF Ended, TypeOK
  <2> QED
    BY <2>1, <2>3, <2>4
<1>2. PICK p \in 0..2, q \in 0..2, m \in Nat, n \in Nat, t \in Nat :
        p = pending[i] /\ q = pending[j] /\ m = missed[i] /\ n = missed[j] /\ t = timer[j]
  <2>1. /\ pending[i] \in 0..2 /\ pending[j] \in 0..2
        /\ missed[i] \in Nat /\ missed[j] \in Nat /\ timer[j] \in Nat
    BY DEF TypeOK
  <2> QED
    BY <2>1
<1>3. phase[j] \in {"window", "sleep"} /\ got[j] \in {"none", "pulse", "other"}
      /\ got[i] \in {"none", "pulse", "other"}
  BY DEF Active, TypeOK
<1>4. DriftOf(i)'
  <2>1. PICK d \in Nat, l \in Nat : /\ d = Due(j) /\ l = Latest(j) /\ l <= Round
                                    /\ d = Due(j)' /\ l = Latest(j)'
                                    /\ l = Latest(Peer(i)) /\ l = Latest(Peer(i))'
    BY <1>1, PeerTakes DEF Due, Latest
  <2>2. Rest(i) = Sleep /\ Rest(i)' = Sleep
    BY <1>1 DEF Rest
  <2>3. DriftInWindow(i)
    BY <1>1 DEF DriftOf
  <2>4. SUFFICES DriftInSleep(i)'
    BY <1>1 DEF DriftOf
  <2>5. CASE got[i] = "pulse"
    <3>1. missed'[i] = 0 /\ 0 <= Limit - 2
      BY <1>1, <2>5, RoundsAlike DEF Count
    <3>2. Paced(i, 0)'
      BY <1>1, <2>1, <2>2, <2>3, <2>5 DEF DriftInWindow, Paced
    <3>3. Quiet(i, Sleep - timer[i])'
      BY <1>1, <2>1 DEF Quiet
    <3> QED
      BY <3>1, <3>2, <3>3 DEF DriftInSleep
  <2>6. CASE got[i] = "other"
    <3>1. missed'[i] = m + 1 /\ m + 1 <= Limit - 2
      BY <1>1, <1>2, <2>3, <2>6 DEF Count, DriftInWindow
    <3>2. Paced(i, missed[i])'
      BY <1>1, <1>2, <2>1, <2>2, <2>3, <2>6, <3>1 DEF DriftInWindow, Paced
    <3>3. Quiet(i, Sleep - timer[i])'
      BY <1>1, <2>1 DEF Quiet
    <3> QED
      BY <3>1, <3>2, <3>3 DEF DriftInSleep
  <2>7. CASE got[i] = "none"
    <3>1. pending[i] = 0 /\ m <= Limit - 2 /\ Quiet(i, Sleep + Elapsed(i))
      BY <1>1, <1>2, <2>1, <2>3, <2>7 DEF DriftInWindow
    <3>2. missed'[i] = m + 1
      BY <1>1, <1>2, <2>7 DEF Count
    <3>3. Elapsed(i) = Shortest
      BY <1>1 DEF Elapsed
    <3>4. Quiet(i, Gap + Sleep - timer[i])'
      BY <1>1, <2>1, <3>1, <3>3 DEF Quiet, Gap
    <3> QED
      BY <1>1, <3>1, <3>2, <3>4 DEF DriftInSleep
  <2> QED
    BY <1>3, <2>5, <2>6, <2>7
<1>5. DriftOf(j)'
  <2>1. Due(i) = 0 /\ Due(i)' = Gap /\ Latest(i)' = Round
    BY <1>1 DEF Due, Latest, Gap, Round
  <2>2. Rest(j)' = Rest(j) /\ Rest(j) \in Nat /\ Rest(j) <= Round
    BY <1>1, RestIs DEF Rest
  <2>3. ASSUME ~Blocked(j)
        PROVE  /\ got'[j] = got[j]
               /\ pending'[j] = IF q = 2 THEN 2 ELSE q + 1
    <3>1. ~Closed(j)
      BY DEF Active, Closed
    <3>2. got' = [got EXCEPT ![i] = "none"]
      BY <2>3 DEF Ended
    <3>3. pending' = IF pending[j] = 2 THEN pending ELSE [pending EXCEPT ![j] = @ + 1]
      BY <2>3, <3>1 DEF Ended
    <3>4. pending'[j] = IF pending[j] = 2 THEN 2 ELSE pending[j] + 1
      BY <3>3 DEF TypeOK
    <3> QED
      BY <1>2, <3>2, <3>4 DEF TypeOK
  <2>4. ASSUME NEW a \in Nat, Paced(j, a), ~Blocked(j)
        PROVE  Paced(j, a)'
    <3>1. PICK b \in 0..2 : b = pending'[j] /\ (b = q \/ b = q + 1)
      BY <1>2, <2>3, <2>4
    <3>2. b * Gap + Rest(j)' - Gap <= q * Gap + Rest(j) - 0
      BY <2>2, <3>1
    <3>3. PICK r \in Nat : r = Rest(j) /\ r = Rest(j)'
      BY <2>2
    <3>4. (2 * a + q) * Gap <= (a + 1) * Round - r + 0
      BY <1>2, <2>1, <2>4, <3>3 DEF Paced
    <3>5. (2 * a + b) * Gap <= (a + 1) * Round - r + Gap
      BY <3>2, <3>3, <3>4, PacedKept
    <3> QED
      BY <2>1, <3>1, <3>3, <3>5 DEF Paced
  <2>5. CASE phase[j] = "window" /\ got[j] = "none"
    <3>1. got'[j] = "pulse" /\ pending'[j] = 0
      BY <2>5 DEF Ended, Blocked, TypeOK, DriftOf, DriftInWindow
    <3>2. Paced(j, 0)'
      BY <2>1, <2>2, <3>1 DEF Paced
    <3> QED
      BY <1>1, <2>5, <3>1, <3>2 DEF DriftOf, DriftInWindow
  <2>6. CASE phase[j] = "window" /\ got[j] # "none"
    <3>1. ~Blocked(j)
      BY <2>6 DEF Blocked
    <3>2. got[j] = "pulse" => Paced(j, 0)
      BY <2>6 DEF DriftOf, DriftInWindow
    <3>3. got[j] = "other" => n + 1 <= Limit - 2 /\ Paced(j, n + 1)
      BY <1>2, <2>6 DEF DriftOf, DriftInWindow
    <3>4. got[j] = "pulse" => Paced(j, 0)'
      BY <2>4, <3>1, <3>2
    <3>5. got[j] = "other" => Paced(j, n + 1)'
      BY <2>4, <3>1, <3>3
    <3>6. DriftInWindow(j)'
      BY <1>1, <1>2, <1>3, <2>3, <2>6, <3>1, <3>3, <3>4, <3>5 DEF DriftInWindow, Paced
    <3> QED
      BY <1>1, <2>6, <3>6 DEF DriftOf
  <2>7. CASE phase[j] = "sleep"
    <3>1. ~Blocked(j) /\ DriftInSleep(j) /\ t <= Sleep
      BY <1>2, <2>7 DEF Blocked, DriftOf, Times
    <3>2. pending'[j] # 0 /\ (q = 0 => pending'[j] = 1)
      BY <2>3, <3>1
    <3>3. CASE n <= Limit - 2 /\ Paced(j, n)
      <4>1. Paced(j, n)'
        BY <2>4, <3>1, <3>3
      <4>2. Paced(j, missed[j])'
        BY <1>1, <1>2, <4>1 DEF Paced
      <4>3. missed'[j] <= Limit - 2
        BY <1>1, <1>2, <3>3
      <4>4. DriftInSleep(j)'
        BY <3>2, <4>2, <4>3 DEF DriftInSleep
      <4> QED
        BY <1>1, <2>7, <4>4 DEF DriftOf
    <3>4. CASE n <= Limit - 1 /\ q \in {0, 1} /\ (q = 1 => t < Due(i))
      <4>1. q = 0
        BY <2>1, <3>4
      <4>2. t < Gap
        BY <3>1
      <4>3. pending'[j] = 1 /\ timer'[j] < Due(i)'
        BY <1>1, <1>2, <2>1, <3>2, <4>1, <4>2
      <4> QED
        BY <1>1, <1>2, <2>7, <3>4, <4>3 DEF DriftOf, DriftInSleep
    <3> QED
      BY <1>2, <3>1, <3>3, <3>4 DEF DriftInSleep
  <2> QED
    BY <1>3, <2>5, <2>6, <2>7
<1> QED
  BY <1>4, <1>5

LEMMA DriftStarted ==
  ASSUME TypeOK, TypeOK', Times, Times', NEW i \in Sides, NEW j \in Sides,
         j = Peer(i), i = Peer(j), i # j, NEW w \in Windows, Started(i, j, w), Shortest <= w,
         Active(j), DriftOf(i), DriftOf(j)
  PROVE  DriftOf(i)' /\ DriftOf(j)'
<1> USE TimesAre
<1>1. /\ phase[i] = "sleep" /\ phase'[i] = "window" /\ phase'[j] = phase[j]
      /\ timer[i] = 0 /\ timer'[i] = w /\ timer'[j] = timer[j]
      /\ missed' = missed /\ pending'[i] = 0 /\ pending'[j] = pending[j]
      /\ got'[j] = got[j]
      /\ got'[i] = IF pending[i] = 1 THEN "pulse" ELSE IF pending[i] = 2 THEN "other" ELSE "none"
  <2>1. ~Closed(j)
    BY DEF Active, Closed
  <2>2. /\ phase[i] = "sleep" /\ phase'[i] = "window" /\ phase'[j] = phase[j]
        /\ timer[i] = 0 /\ timer'[i] = w /\ timer'[j] = timer[j]
    BY DEF Started, TypeOK
  <2>3. missed' = missed /\ pending'[i] = 0 /\ pending'[j] = pending[j]
    BY DEF Started, TypeOK
  <2>4. /\ got'[j] = got[j]
        /\ got'[i] = IF pending[i] = 1 THEN "pulse" ELSE IF pending[i] = 2 THEN "other" ELSE "none"
    BY <2>1 DEF Started, TypeOK
  <2> QED
    BY <2>2, <2>3, <2>4
<1>2. PICK p \in 0..2, m \in Nat, t \in Nat : p = pending[i] /\ m = missed[i] /\ t = timer[j]
  BY DEF TypeOK
<1>3. PICK d \in Nat, l \in Nat : /\ d = Due(j) /\ l = Latest(j) /\ d <= Gap /\ l <= Round
                                  /\ d = Due(j)' /\ l = Latest(j)'
                                  /\ d = Due(Peer(i)) /\ d = Due(Peer(i))'
                                  /\ l = Latest(Peer(i)) /\ l = Latest(Peer(i))'
  BY <1>1, PeerTakes DEF Due, Latest
<1>4. Rest(i) = 0 /\ Rest(i)' = w + Sleep /\ w + Sleep <= Round /\ Elapsed(i)' = 0
  BY <1>1 DEF Rest, Elapsed, Round
<1>5. DriftOf(i)'
  <2>1. SUFFICES DriftInWindow(i)'
    BY <1>1 DEF DriftOf
  <2>2. DriftInSleep(i)
    BY <1>1 DEF DriftOf
  <2>3. CASE p = 1
    <3>1. Paced(i, 0)'
      BY <1>1, <1>3, <1>4 DEF Paced
    <3> QED
      BY <1>1, <1>2, <2>3, <3>1 DEF DriftInWindow
  <2>4. CASE p # 1 /\ m <= Limit - 2 /\ Paced(i, m) /\ (p = 0 => Quiet(i, Sleep))
    <3>1. CASE p = 0
      <4>1. Quiet(i, Sleep + Elapsed(i))'
        BY <1>3, <1>4, <2>4, <3>1 DEF Quiet
      <4> QED
        BY <1>1, <1>2, <2>4, <3>1, <4>1 DEF DriftInWindow
    <3>2. CASE p = 2
      <4>1. (2 * m + 2) * Gap <= (m + 1) * Round + d
        BY <1>2, <1>3, <1>4, <2>4, <3>2 DEF Paced
      <4>2. m + 1 <= Limit - 2
        BY <1>3, <2>4, <4>1, NotSoOften
      <4>3. PICK g \in Int, z \in Int : g = (2 * m + 2) * Gap /\ z = (m + 1) * Round
        OBVIOUS
      <4>4. (2 * (m + 1) + 0) * Gap = g /\ (m + 1 + 1) * Round = z + Round
        BY <4>3
      <4>5. (2 * (m + 1) + 0) * Gap <= (m + 1 + 1) * Round - (w + Sleep) + d
        BY <1>4, <4>1, <4>3, <4>4
      <4>6. Paced(i, missed[i] + 1)'
        BY <1>1, <1>2, <1>3, <1>4, <4>5 DEF Paced
      <4> QED
        BY <1>1, <1>2, <3>2, <4>2, <4>6 DEF DriftInWindow
    <3> QED
      BY <2>4, <3>1, <3>2
  <2>5. CASE p # 1 /\ m <= Limit - 1 /\ p = 0 /\ Quiet(i, Gap + Sleep)
    <3>1. l < w
      BY <1>3, <2>5, RoundsAlike DEF Quiet, Gap
    <3> QED
      BY <1>1, <1>2, <1>3, <2>5, <3>1 DEF DriftInWindow
  <2>6. Sleep - timer[i] = Sleep /\ Gap + Sleep - timer[i] = Gap + Sleep
    BY <1>1
  <2> QED
    BY <1>2, <2>2, <2>3, <2>4, <2>5, <2>6 DEF DriftInSleep
<1>6. DriftOf(j)'
  <2>1. Due(i)' = Due(i) /\ Latest(i)' <= Latest(i) /\ Latest(i) \in Nat /\ Latest(i)' \in Nat
    BY <1>1 DEF Due, Latest
  <2>2. Rest(j)' = Rest(j) /\ Elapsed(j)' = Elapsed(j)
    BY <1>1 DEF Rest, Elapsed
  <2>3. \A a \in Nat : Paced(j, a) => Paced(j, a)'
    BY <1>1, <2>1, <2>2 DEF Paced
  <2>4. ASSUME NEW e \in Int, Quiet(j, e)
        PROVE  e + Latest(i)' <= Round
    BY <2>1, <2>4 DEF Quiet
  <2>5. PICK n \in Nat : n = missed[j]
    BY DEF TypeOK
  <2>6. CASE phase[j] = "window"
    <3>1. DriftInWindow(j)
      BY <2>6 DEF DriftOf
    <3>2. Elapsed(j) \in Int
      BY <1>2 DEF Elapsed
    <3>3. got[j] = "pulse" => Paced(j, 0)'
      BY <2>3, <3>1 DEF DriftInWindow
    <3>4. got[j] = "other" => missed'[j] + 1 <= Limit - 2 /\ Paced(j, missed[j] + 1)'
      <4>1. got[j] = "other" => n + 1 <= Limit - 2 /\ Paced(j, missed[j] + 1)
        BY <2>5, <3>1 DEF DriftInWindow
      <4>2. got[j] = "other" => Paced(j, missed[j] + 1)'
        <5>1. got[j] = "other" => (2 * (missed[j] + 1) + pending[j]) * Gap
                                    <= (missed[j] + 1 + 1) * Round - Rest(j) + Due(Peer(j))
          BY <4>1 DEF Paced
        <5> QED
          BY <1>1, <2>1, <2>2, <5>1 DEF Paced
      <4> QED
        BY <1>1, <2>5, <4>1, <4>2 DEF Paced
    <3>5. Quiet(j, Sleep + Elapsed(j)) => Quiet(j, Sleep + Elapsed(j))'
      BY <2>2, <2>4, <3>2 DEF Quiet
    <3>6. Latest(i) < timer[j] => Latest(i)' < timer'[j]
      BY <1>1, <1>2, <2>1
    <3>7. DriftInWindow(j)'
      BY <1>1, <3>1, <3>3, <3>4, <3>5, <3>6 DEF DriftInWindow
    <3> QED
      BY <1>1, <2>6, <3>7 DEF DriftOf
  <2>7. CASE phase[j] = "sleep"
    <3>1. DriftInSleep(j)
      BY <2>7 DEF DriftOf
    <3>2. Paced(j, missed[j]) => Paced(j, missed[j])'
      <4>1. Paced(j, n) => Paced(j, n)'
        BY <2>3
      <4> QED
        BY <1>1, <2>5, <4>1 DEF Paced
    <3>3. Quiet(j, Sleep - timer[j]) => Quiet(j, Sleep - timer[j])'
      BY <1>1, <1>2, <2>4 DEF Quiet
    <3>4. Quiet(j, Gap + Sleep - timer[j]) => Quiet(j, Gap + Sleep - timer[j])'
      BY <1>1, <1>2, <2>4 DEF Quiet
    <3>5. DriftInSleep(j)'
      BY <1>1, <2>1, <3>1, <3>2, <3>3, <3>4 DEF DriftInSleep
    <3> QED
      BY <1>1, <2>7, <3>5 DEF DriftOf
  <2> QED
    BY <2>6, <2>7 DEF Active
<1> QED
  BY <1>5, <1>6

(* A second of both sides.                                                 *)
LEMMA DriftSecond ==
  ASSUME TypeOK, TypeOK', Times, Times', NEW i \in Sides, NEW j \in Sides,
         j = Peer(i), i = Peer(j), Tick, Active(i), Active(j), DriftOf(i)
  PROVE  DriftOf(i)'
<1> USE TimesAre
<1>1. /\ phase' = phase /\ pending' = pending /\ missed' = missed /\ got' = got
      /\ timer[i] > 0 /\ timer[j] > 0 /\ timer'[i] = timer[i] - 1 /\ timer'[j] = timer[j] - 1
  BY DEF Tick
<1>2. PICK t \in Nat, n \in Nat, p \in 0..2 : t = timer[i] /\ n = missed[i] /\ p = pending[i]
  BY DEF TypeOK
<1>3. /\ Due(j) \in Nat /\ Due(j)' \in Nat /\ Due(j)' >= Due(j) - 1
      /\ Latest(j) \in Nat /\ Latest(j)' = Latest(j) - 1
  BY <1>1 DEF Due, Latest, TypeOK
<1>4. Rest(i) \in Nat /\ Rest(i)' = Rest(i) - 1
  BY <1>1, <1>2 DEF Rest
<1>5. Elapsed(i) \in Nat /\ Elapsed(i)' \in Nat /\ Elapsed(i)' <= Elapsed(i) + 1
  BY <1>1, <1>2 DEF Elapsed
<1>6. ASSUME NEW a \in Nat, Paced(i, a)
      PROVE  (2 * a + pending'[i]) * Gap <= (a + 1) * Round - Rest(i)' + Due(Peer(i))'
  <2>1. PICK x \in Int, z \in Int : x = (2 * a + p) * Gap /\ z = (a + 1) * Round
    OBVIOUS
  <2>2. x <= z - Rest(i) + Due(j)
    BY <1>2, <1>6, <2>1 DEF Paced
  <2>3. x <= z - Rest(i)' + Due(j)'
    BY <1>3, <1>4, <2>2
  <2> QED
    BY <1>1, <1>2, <2>1, <2>3
<1>7. CASE phase[i] = "window"
  <2>1. DriftInWindow(i)
    BY <1>7 DEF DriftOf
  <2>2. got[i] = "pulse" => Paced(i, 0)'
    BY <1>6, <2>1 DEF DriftInWindow, Paced
  <2>3. got[i] = "other" => missed'[i] + 1 <= Limit - 2 /\ Paced(i, missed[i] + 1)'
    <3>1. got[i] = "other" => n + 1 <= Limit - 2 /\ Paced(i, n + 1) /\ n + 1 \in Nat
      BY <1>2, <2>1 DEF DriftInWindow
    <3> QED
      BY <1>1, <1>2, <1>6, <3>1 DEF Paced
  <2>4. Quiet(i, Sleep + Elapsed(i)) => Quiet(i, Sleep + Elapsed(i))'
    BY <1>3, <1>5 DEF Quiet
  <2>5. Latest(j) < timer[i] => Latest(j)' < timer'[i]
    BY <1>1, <1>2, <1>3
  <2>6. DriftInWindow(i)'
    BY <1>1, <2>1, <2>2, <2>3, <2>4, <2>5 DEF DriftInWindow
  <2> QED
    BY <1>1, <1>7, <2>6 DEF DriftOf
<1>8. CASE phase[i] = "sleep"
  <2>1. DriftInSleep(i)
    BY <1>8 DEF DriftOf
  <2>2. Paced(i, missed[i]) => Paced(i, missed[i])'
    <3>1. Paced(i, n) => (2 * n + pending'[i]) * Gap <= (n + 1) * Round - Rest(i)' + Due(Peer(i))'
      BY <1>6
    <3> QED
      BY <1>1, <1>2, <3>1 DEF Paced
  <2>3. Quiet(i, Sleep - timer[i]) => Quiet(i, Sleep - timer[i])'
    BY <1>1, <1>2, <1>3 DEF Quiet
  <2>4. Quiet(i, Gap + Sleep - timer[i]) => Quiet(i, Gap + Sleep - timer[i])'
    BY <1>1, <1>2, <1>3 DEF Quiet
  <2>5. timer[i] < Due(j) => timer'[i] < Due(j)'
    BY <1>1, <1>2, <1>3
  <2>6. DriftInSleep(i)'
    BY <1>1, <2>1, <2>2, <2>3, <2>4, <2>5 DEF DriftInSleep
  <2> QED
    BY <1>1, <1>8, <2>6 DEF DriftOf
<1> QED
  BY <1>7, <1>8 DEF Active

LEMMA DriftOfAll ==
  /\ Drift <=> (~crowded => \A i \in Sides : Active(i) /\ Active(Peer(i)) => DriftOf(i))
  /\ Drift' <=> (~crowded' => \A i \in Sides : Active(i)' /\ Active(Peer(i))' => DriftOf(i)')
BY DEF Drift, DriftOf

LEMMA DriftInit == Init => Drift
<1> SUFFICES ASSUME Init, ~crowded, NEW i \in Sides
             PROVE  DriftOf(i)
  BY DriftOfAll
<1> USE TimesAre
<1>1. PICK j \in Sides : j = Peer(i)
  BY PeersAre
<1>2. /\ phase[i] = "window" /\ phase[j] = "window" /\ missed[i] = 0 /\ pending[i] = 0
      /\ timer[i] \in Windows /\ timer[j] \in Windows
      /\ timer[i] >= Shortest /\ timer[j] >= Shortest
      /\ got[i] \in {"pulse", "none"}
  BY DEF Init
<1>3. /\ Rest(i) \in Nat /\ Rest(i) <= Round /\ Due(j) = Shortest
      /\ Latest(j) \in Nat /\ Latest(j) <= Longest /\ Elapsed(i) = 0
  BY <1>2 DEF Rest, Due, Latest, Elapsed, Round
<1>4. Paced(i, 0)
  BY <1>1, <1>2, <1>3 DEF Paced
<1>5. Quiet(i, Sleep + Elapsed(i)) /\ 0 <= Limit - 2
  BY <1>1, <1>3, RoundsAlike DEF Quiet, Round
<1>6. DriftInWindow(i)
  BY <1>2, <1>4, <1>5 DEF DriftInWindow
<1> QED
  BY <1>2, <1>6 DEF DriftOf

LEMMA DriftStep ==
  ASSUME TypeOK, TypeOK', Times, Times', Drift, [Next]_vars
  PROVE  Drift'
<1> SUFFICES ASSUME ~crowded', NEW k \in Sides, Active(k)', Active(Peer(k))'
             PROVE  DriftOf(k)'
  BY DriftOfAll
<1>1. PICK l \in Sides : l = Peer(k) /\ k = Peer(l) /\ k # l /\ \A i \in Sides : i = k \/ i = l
  BY PeersAre
<1>2. ASSUME ~crowded, Active(k), Active(l)
      PROVE  DriftOf(k) /\ DriftOf(l)
  BY <1>1, <1>2, DriftOfAll
<1>3. ASSUME NEW i \in Sides, Ended(i, Peer(i))
      PROVE  DriftOf(k)'
  <2>1. ~crowded /\ Active(k) /\ Active(l)
    BY <1>1, <1>3 DEF Ended, Active, TypeOK
  <2> QED
    BY <1>1, <1>2, <1>3, <2>1, DriftEnded
<1>4. ASSUME NEW i \in Sides, NEW w \in Windows, Started(i, Peer(i), w)
      PROVE  DriftOf(k)'
  <2>1. ~crowded /\ Active(k) /\ Active(l)
    BY <1>1, <1>4 DEF Started, Active, TypeOK
  <2>2. Shortest <= w
    <3>1. ~(w < Shortest)
      BY <1>4 DEF Started
    <3> QED
      BY <3>1, TimesAre
  <2> QED
    BY <1>1, <1>2, <1>4, <2>1, <2>2, DriftStarted
<1>5. ASSUME NEW i \in Sides, Left(i, Peer(i))
      PROVE  DriftOf(k)'
  BY <1>1, <1>5 DEF Left, Active, TypeOK
<1>6. CASE Tick
  <2>1. ~crowded /\ Active(k) /\ Active(l)
    BY <1>1, <1>6 DEF Tick, Active
  <2> QED
    BY <1>1, <1>2, <1>6, <2>1, DriftSecond
<1>7. CASE UNCHANGED vars
  <2>1. ~crowded /\ Active(k) /\ Active(l)
    BY <1>1, <1>7 DEF vars, Active
  <2>2. UNCHANGED <<phase, timer, got, pending, missed>>
    BY <1>7 DEF vars
  <2> QED
    BY <1>2, <2>1, <2>2 DEF DriftOf, DriftInWindow, DriftInSleep, Paced, Quiet, Rest, Due,
                            Latest, Elapsed
<1> QED
  BY <1>3, <1>4, <1>5, <1>6, <1>7, StepIs

----------------------------------------------------------------------------
(* No side is given up while it takes part.                                *)

LEMMA KeptStep ==
  ASSUME TypeOK, TypeOK', Drift, LiveSidesKept, [Next]_vars
  PROVE  LiveSidesKept'
<1> SUFFICES ASSUME NEW k \in Sides, phase'[k] = "down", ~crowded', Active(Peer(k))'
             PROVE  FALSE
  BY DEF LiveSidesKept
<1>1. PICK l \in Sides : l = Peer(k) /\ k = Peer(l) /\ k # l /\ \A i \in Sides : i = k \/ i = l
  BY PeersAre
<1>2. ASSUME phase' = phase, crowded' = crowded
      PROVE  FALSE
  BY <1>2 DEF LiveSidesKept, Active
<1>3. ASSUME NEW i \in Sides, Ended(i, Peer(i))
      PROVE  FALSE
  BY <1>1, <1>3 DEF Ended, Active, TypeOK, LiveSidesKept
<1>4. ASSUME NEW i \in Sides, NEW w \in Windows, Started(i, Peer(i), w)
      PROVE  FALSE
  BY <1>1, <1>4 DEF Started, Active, TypeOK, LiveSidesKept
<1>5. ASSUME NEW i \in Sides, Left(i, Peer(i))
      PROVE  FALSE
  <2>1. CASE i = l
    BY <1>1, <1>5, <2>1 DEF Left, Active, TypeOK
  <2>2. CASE i = k
    <3>1. /\ missed[k] >= Limit /\ phase[k] = "sleep" /\ phase'[l] = phase[l]
          /\ crowded' = crowded
      BY <1>1, <1>5, <2>2 DEF Left, TypeOK
    <3>2. Active(k) /\ Active(l)
      BY <1>1, <3>1 DEF Active
    <3>3. DriftInSleep(k)
      BY <1>1, <3>1, <3>2 DEF Drift
    <3> QED
      BY <3>1, <3>3, TimesAre DEF DriftInSleep, TypeOK
  <2> QED
    BY <1>1, <2>1, <2>2
<1>6. CASE Tick
  BY <1>2, <1>6 DEF Tick
<1>7. CASE UNCHANGED vars
  BY <1>2, <1>7 DEF vars
<1> QED
  BY <1>3, <1>4, <1>5, <1>6, <1>7, StepIs

(* This much needs no DriftAssumption.                                     *)
LEMMA CountsDown == Spec => [](TypeOK /\ Times /\ InTime)
<1>1. Init => TypeOK /\ Times /\ InTime
  BY TypeInit, TimesInit, InTimeInit
<1>2. TypeOK /\ Times /\ InTime /\ [Next]_vars => (TypeOK /\ Times /\ InTime)'
  BY TypeStep, TimesStep, InTimeStep
<1> QED
  BY <1>1, <1>2, PTL DEF Spec

LEMMA InductiveInv == Spec => []IInv
<1>1. Init => IInv
  BY TypeInit, TimesInit, InTimeInit, DriftInit DEF IInv, LiveSidesKept, Init
<1>2. IInv /\ [Next]_vars => IInv'
  BY TypeStep, TimesStep, InTimeStep, DriftStep, KeptStep DEF IInv
<1> QED
  BY <1>1, <1>2, PTL DEF Spec

(* Every variable keeps its type; not_received_count goes past             *)
(* NOT_RECEIVED_COUNT by one at most, since a round counts twice when      *)
(* sendData fails in it too.                                               *)
THEOREM TypeCorrect == Spec => []TypeOK
BY CountsDown, PTL

(* Neither the name server nor the storage server gives the other one up   *)
(* while both run, however their rounds drift against each other and       *)
(* although two pulses received as one string count as none.               *)
THEOREM LiveSidesStay == Spec => []LiveSidesKept
<1>1. IInv => LiveSidesKept
  BY DEF IInv
<1> QED
  BY <1>1, InductiveInv, PTL

(* A side whose peer is gone gives it up within the rounds its counter     *)
(* allows for, each of at most the longest period and the sleep.           *)
THEOREM GoneAreGivenUp == Spec => []GivenUpInTime
BY CountsDown, InTimeIs, PTL
=============================================================================
