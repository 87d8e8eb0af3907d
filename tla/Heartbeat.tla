------------------------------ MODULE Heartbeat ------------------------------
(***************************************************************************)
(* The pulses between the name server ("NS", the last part of              *)
(* handleStorageServer) and a storage server ("SS",                        *)
(* NameServerPulseHandler).  Both sides run the same loop: wait for a      *)
(* pulse for one period whether it comes or not, send one's own, sleep.    *)
(*                                                                         *)
(* Time passes in seconds.  The period is measured in processor time of    *)
(* the process, so that it passes faster while other threads of it spin,   *)
(* and slower while the process does not run; what is left for sleep is    *)
(* rounded down to whole seconds.  Pulses travel in a byte stream: those   *)
(* that have piled up are received as one string.                          *)
(***************************************************************************)
EXTENDS Integers, FiniteSets

CONSTANTS
  Windows,       \* the seconds that a period of PERIODIC_HEART_BEAT may take
  Shortest,      \* the least of them in a process without spinning threads
  Sleep,         \* PERIODIC_HEART_BEAT less the time of sending, rounded down
  Limit          \* NOT_RECEIVED_COUNT

ASSUME TimesAssumption ==
  /\ Windows \subseteq Nat \ {0} /\ Windows # {} /\ IsFiniteSet(Windows)
  /\ Shortest \in Nat \ {0} /\ Sleep \in Nat \ {0} /\ Limit \in Nat \ {0}

Longest == CHOOSE w \in Windows : \A v \in Windows : v <= w

\* What a round, or the time from one pulse to the next, may last.
Round == Longest + Sleep

(* The peer cannot send two pulses in each of Limit - 1 rounds in a row.   *)
ASSUME DriftAssumption == (2 * Limit - 3) * (Shortest + Sleep) > (Limit - 1) * Round

VARIABLES
  phase,       \* of each side: receiving, asleep, given up, or gone
  timer,       \* seconds left of it
  got,         \* what the receiving thread has received
  pending,     \* pulses in the stream to this side; two stands for more
  missed,      \* not_received_count
  broken,      \* this side has sent to a closed connection, or was reset
  since,       \* history: seconds since the other side stopped taking part
  crowded      \* history: a period was shorter than Shortest

vars == <<phase, timer, got, pending, missed, broken, since, crowded>>

Sides == {"NS", "SS"}
Peer(i) == CHOOSE j \in Sides : j # i

Active(i) == phase[i] \in {"window", "sleep"}
Closed(i) == phase[i] \in {"down", "dead"}

(* The storage server has sent its first pulse.                            *)
Init ==
  /\ phase = [i \in Sides |-> "window"]
  /\ timer \in [Sides -> Windows]
  /\ got = [i \in Sides |-> IF i = "NS" THEN "pulse" ELSE "none"]
  /\ pending = [i \in Sides |-> 0]
  /\ missed = [i \in Sides |-> 0]
  /\ broken = [i \in Sides |-> FALSE]
  /\ since = [i \in Sides |-> 0]
  /\ crowded = \E i \in Sides : timer[i] < Shortest

----------------------------------------------------------------------------
Blocked(i) == phase[i] = "window" /\ got[i] = "none"

\* A slip: the count goes on from where it was.
CountKept(i) == IF got[i] = "pulse" THEN missed[i] ELSE missed[i] + 1

\* not_received_count after the receive: only the single pulse counts.
Count(i) == IF got[i] = "pulse" THEN 0 ELSE missed[i] + 1

\* A slip: a pulse that cannot be sent is not noticed.
SendIgnored(i, before) ==
  /\ UNCHANGED broken
  /\ missed' = [missed EXCEPT ![i] = before]
  /\ IF Blocked(Peer(i))
       THEN got' = [got EXCEPT ![i] = "none", ![Peer(i)] = "pulse"] /\ UNCHANGED pending
       ELSE /\ got' = [got EXCEPT ![i] = "none"]
            /\ pending' = [pending EXCEPT ![Peer(i)] = IF @ < 2 THEN @ + 1 ELSE 2]

(* sendData: what is sent to a closed connection is taken the first time;  *)
(* after that the child is killed, and the round counts once more.         *)
Send(i, before) ==
  LET j == Peer(i)
  IN  /\ broken' = [broken EXCEPT ![i] = @ \/ Closed(j)]
      /\ missed' = [missed EXCEPT ![i] = IF Closed(j) /\ broken[i] THEN before + 1 ELSE before]
      /\ IF Blocked(j)
           THEN got' = [got EXCEPT ![i] = "none", ![j] = "pulse"] /\ UNCHANGED pending
           ELSE /\ got' = [got EXCEPT ![i] = "none"]
                /\ pending' = IF Closed(j) \/ pending[j] = 2 THEN pending
                              ELSE [pending EXCEPT ![j] = @ + 1]

EndWindow(i) ==
  /\ phase[i] = "window" /\ timer[i] = 0
  /\ Send(i, Count(i))
  /\ phase' = [phase EXCEPT ![i] = "sleep"]
  /\ timer' = [timer EXCEPT ![i] = Sleep]
  /\ UNCHANGED <<since, crowded>>

\* What the receiving thread finds at once: the single pulse; several, or the
\* end of a closed connection; nothing.
Received(i) ==
  IF pending[i] = 1 THEN "pulse"
  ELSE IF pending[i] = 2 \/ Closed(Peer(i)) THEN "other" ELSE "none"

OpenWindow(i) ==
  /\ phase' = [phase EXCEPT ![i] = "window"]
  /\ \E w \in Windows :
       /\ timer' = [timer EXCEPT ![i] = w]
       /\ crowded' = (crowded \/ w < Shortest)
  /\ got' = [got EXCEPT ![i] = Received(i)]
  /\ pending' = [pending EXCEPT ![i] = 0]
  /\ UNCHANGED <<missed, broken, since>>

\* A slip: the loop ends at the limit only, which a round may step over.
StartWindowPast(i) ==
  /\ phase[i] = "sleep" /\ timer[i] = 0 /\ missed[i] # Limit
  /\ OpenWindow(i)

(* The next round. *)
StartWindow(i) ==
  /\ phase[i] = "sleep" /\ timer[i] = 0 /\ missed[i] < Limit
  /\ OpenWindow(i)

\* The connection is closed.  If pulses are left unread this resets it: what
\* was on its way to the peer is lost.
CloseConnection(i) ==
  LET j == Peer(i)
  IN  /\ got' = IF Blocked(j) THEN [got EXCEPT ![j] = "other"] ELSE got
      /\ pending' = [pending EXCEPT ![i] = 0, ![j] = IF pending[i] > 0 THEN 0 ELSE @]
      /\ broken' = [broken EXCEPT ![j] = @ \/ pending[i] > 0]

(* running = 0 on the name server; a storage server accepts no other       *)
(* connection for the pulses.                                              *)
GiveUp(i) ==
  /\ phase[i] = "sleep" /\ timer[i] = 0
  /\ missed[i] >= Limit
  /\ phase' = [phase EXCEPT ![i] = "down"]
  /\ CloseConnection(i)
  /\ UNCHANGED <<timer, missed, since, crowded>>

(* The process ends. *)
Die(i) ==
  /\ Active(i)
  /\ phase' = [phase EXCEPT ![i] = "dead"]
  /\ timer' = [timer EXCEPT ![i] = 0]
  /\ CloseConnection(i)
  /\ UNCHANGED <<missed, since, crowded>>

(* The process is suspended and stays so: its connection stays open.       *)
Suspend(i) ==
  /\ Active(i)
  /\ phase' = [phase EXCEPT ![i] = "suspended"]
  /\ timer' = [timer EXCEPT ![i] = 0]
  /\ UNCHANGED <<got, pending, missed, broken, since, crowded>>

\* The seconds after which a side has counted enough rounds, whatever it read.
Bound == (Limit + 2) * Round

(* A second passes once nothing is due. *)
Tick ==
  /\ \E i \in Sides : Active(i)
  /\ \A i \in Sides : Active(i) => timer[i] > 0
  /\ timer' = [i \in Sides |-> IF Active(i) THEN timer[i] - 1 ELSE timer[i]]
  /\ since' = [i \in Sides |-> IF Active(i) /\ ~Active(Peer(i)) /\ since[i] <= Bound
                                 THEN since[i] + 1 ELSE since[i]]
  /\ UNCHANGED <<phase, got, pending, missed, broken, crowded>>

Over == ~(\E i \in Sides : Active(i)) /\ UNCHANGED vars

Next ==
  \/ \E i \in Sides : EndWindow(i) \/ StartWindow(i) \/ GiveUp(i) \/ Die(i) \/ Suspend(i)
  \/ Tick
  \/ Over

Spec == Init /\ [][Next]_vars

----------------------------------------------------------------------------
(* Properties *)

TypeOK ==
  /\ phase \in [Sides -> {"window", "sleep", "down", "dead", "suspended"}]
  /\ timer \in [Sides -> Nat]
  /\ got \in [Sides -> {"none", "pulse", "other"}]
  /\ pending \in [Sides -> 0..2]
  /\ missed \in [Sides -> 0..Limit + 1]
  /\ broken \in [Sides -> BOOLEAN]
  /\ since \in [Sides -> 0..Bound + 1]
  /\ crowded \in BOOLEAN

\* No side gives the other one up while that takes part, as long as no period
\* was cut below Shortest by threads that spin beside it and none lasts longer
\* than the longest of Windows: however the two loops drift against each other,
\* and although two pulses read as one count as none.  (A side whose rounds
\* last twice as long as its peer's would read two pulses in every one.)
LiveSidesKept ==
  \A i \in Sides : phase[i] = "down" => crowded \/ ~Active(Peer(i))

\* A process that ended, or that closed the connection because it gave up
\* itself, is given up within half as many rounds as may be missed, rounded up,
\* and two more; one that is suspended within two rounds more than may be missed.
GivenUpInTime ==
  \A i \in Sides : Active(i) =>
    since[i] <= (IF phase[Peer(i)] = "suspended" THEN Limit + 2 ELSE (Limit + 1) \div 2 + 2)
                * Round
=============================================================================
