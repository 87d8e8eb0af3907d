------------------------- MODULE AcceptLoops_proofs -------------------------
(***************************************************************************)
(* Type correctness and the safety properties of AcceptLoops, for any      *)
(* connections and any number of descriptors.                              *)
(***************************************************************************)
EXTENDS AcceptLoops, TLAPS, WellFoundedInduction

\* The thread has read a descriptor and not closed it yet.
Serving(c) == pc[c] \in {"serve", "work", "close"}

(* The pulse thread goes on only with a number that accept has returned.   *)
SocketsAccepted == pulsePc = "beat" => pulseSocket \in Fds

TypeInv == TypeOK /\ SocketsAccepted

(* There is a lowest free descriptor whenever there is a free one.         *)
LEMMA LowestIsFree ==
  ASSUME Free # {}
  PROVE  Lowest \in Fds /\ open[Lowest] = None
<1>1. Fds \subseteq Nat
  BY ConnsAssumption DEF Fds
<1>2. PICK x \in Free : \A y \in Free : ~ (<<y, x>> \in OpToRel(<, Nat))
  <2>1. Free \subseteq Nat
    BY <1>1 DEF Free
  <2> QED
    BY <2>1, NatLessThanWellFounded, WFMin
<1>3. ASSUME NEW y \in Free
      PROVE  x <= y
  <2>1. x \in Nat /\ y \in Nat
    BY <1>1 DEF Free
  <2>2. ~ (y < x)
    BY <1>2, <2>1 DEF OpToRel
  <2> QED
    BY <2>1, <2>2
<1>4. Lowest \in Free
  BY <1>3 DEF Lowest
<1> QED
  BY <1>4 DEF Free

LEMMA LowestIsNumber ==
  ASSUME Free # {}
  PROVE  Lowest # Failed
BY LowestIsFree, ConnsAssumption DEF Failed, Fds

LEMMA TypeInit == Init => TypeInv
<1> SUFFICES ASSUME Init
             PROVE  TypeInv
  OBVIOUS
<1>1. /\ loop \in Loops /\ arrived \subseteq Conns /\ queue \in Seq(Conns)
      /\ newSocket \in -1..MaxFds /\ pulseSocket \in 0..MaxFds
      /\ pending \subseteq Conns /\ lost \subseteq Conns /\ faults \subseteq Faults
  BY ConnsAssumption DEF Init
<1>2. /\ open \in [Fds -> Conns \cup {None}] /\ pc \in [Conns -> Steps]
      /\ answers \in [Conns -> SUBSET Conns]
  BY DEF Init, Steps
<1>3. socket \in [Conns -> -1..MaxFds]
  BY ConnsAssumption DEF Init
<1>4. pulsePc \in {"accept", "beat", "done"}
  BY DEF Init
<1>5. SocketsAccepted
  BY DEF Init, SocketsAccepted, Serving
<1> QED
  BY <1>1, <1>2, <1>3, <1>4, <1>5 DEF TypeInv, TypeOK

LEMMA TypeStep == TypeInv /\ [Next]_vars => TypeInv'
<1> SUFFICES ASSUME TypeInv, [Next]_vars
             PROVE  TypeInv'
  OBVIOUS
<1> USE DEF TypeInv, TypeOK, SocketsAccepted, Serving
<1>1. CASE UNCHANGED vars
  BY <1>1 DEF vars, environment, thread, exchange, pulse
<1>2. ASSUME NEW c \in Conns, Arrive(c)
      PROVE  TypeInv'
  BY <1>2 DEF Arrive, thread, pulse
<1>3. ASSUME queue # <<>>
      PROVE  Head(queue) \in Conns /\ Tail(queue) \in Seq(Conns)
  BY <1>3
<1>4. CASE Accept
  <2> USE <1>4 DEF Accept
  <2>1. Lowest \in Fds /\ Head(queue) \in Conns /\ Tail(queue) \in Seq(Conns)
    BY <1>3, LowestIsFree
  <2>2. /\ loop' \in Loops /\ arrived' \subseteq Conns /\ queue' \in Seq(Conns)
        /\ newSocket' \in Fds /\ lost' \subseteq Conns
    BY <2>1 DEF environment
  <2>3. /\ open' \in [Fds -> Conns \cup {None}] /\ socket' \in [Conns -> -1..MaxFds]
        /\ pc' \in [Conns -> Steps]
    BY <2>1 DEF Steps
  <2>4. faults' \subseteq Faults
    BY DEF Faults, Struck
  <2>5. /\ pending' \subseteq Conns /\ answers' \in [Conns -> SUBSET Conns]
        /\ pulsePc' \in {"accept", "beat", "done"} /\ pulseSocket' \in 0..MaxFds
    BY DEF exchange, pulse
  <2>6. SocketsAccepted'
    BY <2>2 DEF pulse
  <2> QED
    BY <2>2, <2>3, <2>4, <2>5, <2>6 DEF Fds
<1>5. CASE AcceptWithoutThread
  <2> USE <1>5 DEF AcceptWithoutThread
  <2>1. Lowest \in Fds /\ Head(queue) \in Conns /\ Tail(queue) \in Seq(Conns)
    BY <1>3, LowestIsFree
  <2>2. /\ loop' \in Loops /\ arrived' \subseteq Conns /\ queue' \in Seq(Conns)
        /\ newSocket' \in Fds /\ pc' \in [Conns -> Steps]
        /\ socket' \in [Conns -> -1..MaxFds]
    BY <2>1 DEF environment, thread
  <2>3. open' \in [Fds -> Conns \cup {None}] /\ lost' \subseteq Conns
    BY <2>1
  <2>4. faults' \subseteq Faults
    BY DEF Faults, Struck
  <2>5. /\ pending' \subseteq Conns /\ answers' \in [Conns -> SUBSET Conns]
        /\ pulsePc' \in {"accept", "beat", "done"} /\ pulseSocket' \in 0..MaxFds
    BY DEF exchange, pulse
  <2>6. SocketsAccepted'
    BY <2>2 DEF pulse, thread
  <2>7. newSocket' \in -1..MaxFds
    <3> HIDE DEF AcceptWithoutThread, TypeInv
    <3> QED
      BY <2>2, ConnsAssumption DEF Fds
  <2> QED
    BY <2>2, <2>3, <2>4, <2>5, <2>6, <2>7
<1>6. CASE AcceptPulse
  <2> USE <1>6 DEF AcceptPulse
  <2>1. Lowest \in Fds /\ Head(queue) \in Conns /\ Tail(queue) \in Seq(Conns)
    BY <1>3, LowestIsFree
  <2>2. /\ loop' \in Loops /\ arrived' \subseteq Conns /\ queue' \in Seq(Conns)
        /\ newSocket' \in -1..MaxFds /\ lost' \subseteq Conns /\ pc' \in [Conns -> Steps]
        /\ socket' \in [Conns -> -1..MaxFds]
    BY <2>1 DEF environment, thread
  <2>3. open' \in [Fds -> Conns \cup {None}]
    BY <2>1
  <2>4. faults' \subseteq Faults
    BY DEF Faults, Struck
  <2>5. /\ pending' \subseteq Conns /\ answers' \in [Conns -> SUBSET Conns]
        /\ pulsePc' = "beat" /\ pulseSocket' \in Fds
    BY <2>1 DEF exchange
  <2>6. SocketsAccepted'
    BY <2>5 DEF thread
  <2> QED
    BY <2>2, <2>3, <2>4, <2>5, <2>6 DEF Fds
<1>7. CASE GiveUpPulse
  BY <1>7 DEF GiveUpPulse, environment, exchange, thread, CloseFd
<1>8. ASSUME NEW c \in Conns, ReadSocket(c)
      PROVE  TypeInv'
  BY <1>8 DEF ReadSocket, environment, exchange, pulse, Goto, Steps
<1>9. ASSUME NEW c \in Conns, ReceiveRequest(c)
      PROVE  TypeInv'
  <2>1. pending' \subseteq Conns
    BY <1>9 DEF ReceiveRequest
  <2>2. pc' \in [Conns -> Steps] /\ \A d \in Conns : pc'[d] # "none" => pc[d] # "none"
    BY <1>9 DEF ReceiveRequest, Goto, Steps
  <2>3. \A d \in Conns : Serving(d)' => Serving(d)
    BY <1>9 DEF ReceiveRequest, Goto
  <2> QED
    BY <1>9, <2>1, <2>2, <2>3 DEF ReceiveRequest, environment, pulse
<1>10. ASSUME NEW c \in Conns, NoRequest(c)
      PROVE  TypeInv'
  <2>1. lost' \subseteq Conns
    <3>1. Behind(socket[c]) \in Conns \cup {None}
      BY DEF Behind
    <3> QED
      BY <1>10, <3>1 DEF NoRequest
  <2>2. pc' \in [Conns -> Steps] /\ \A d \in Conns : pc'[d] # "none" => pc[d] # "none"
    BY <1>10 DEF NoRequest, Goto, Steps
  <2>3. \A d \in Conns : Serving(d)' => Serving(d)
    BY <1>10 DEF NoRequest, Goto
  <2> QED
    BY <1>10, <2>1, <2>2, <2>3 DEF NoRequest, environment, exchange, pulse
<1>11. ASSUME NEW c \in Conns, Answer(c)
      PROVE  TypeInv'
  BY <1>11 DEF Answer, environment, pulse, Goto, Steps
<1>12. ASSUME NEW c \in Conns, Close(c)
      PROVE  TypeInv'
  BY <1>12 DEF Close, environment, exchange, pulse, Goto, CloseFd, Steps
<1>13. CASE AcceptFails
  <2> USE <1>13 DEF AcceptFails
  <2>1. queue' \in Seq(Conns)
    BY <1>3
  <2>2. newSocket' \in -1..MaxFds
    BY ConnsAssumption DEF Failed
  <2>3. faults' \subseteq Faults
    BY DEF Faults, Struck
  <2> QED
    BY <2>1, <2>2, <2>3 DEF environment, thread, exchange, pulse
<1>14. CASE AcceptPulseFails
  <2> USE <1>14 DEF AcceptPulseFails
  <2>1. queue' \in Seq(Conns)
    BY <1>3
  <2> QED
    BY <2>1 DEF environment, thread, exchange
<1> QED
  BY <1>1, <1>2, <1>4, <1>5, <1>6, <1>7, <1>8, <1>9, <1>10, <1>11, <1>12, <1>13, <1>14
  DEF Next, Handle, Idle

\* Spec keeps every variable of AcceptLoops of its type.
THEOREM TypeCorrect == Spec => []TypeOK
<1>1. TypeInv => TypeOK
  BY DEF TypeInv
<1> QED
  BY <1>1, TypeInit, TypeStep, PTL DEF Spec

----------------------------------------------------------------------------
(* Ownership: what makes OwnAnswers, DescriptorsOwned and PulseKept        *)
(* inductive.  It speaks of histories in which every thread read in time.  *)

\* Nothing has been done for the connection yet.
Fresh(c) == pc[c] = "none" /\ c \notin lost /\ \A f \in Fds : open[f] # c

WaitingFresh ==
  /\ \A c \in Conns : c \notin arrived => Fresh(c)
  /\ \A i \in 1..Len(queue) : queue[i] \in arrived /\ Fresh(queue[i])
  /\ \A i, j \in 1..Len(queue) : queue[i] = queue[j] => i = j

OneDescriptor ==
  \A f, g \in Fds : open[f] # None /\ open[f] = open[g] => f = g

\* The loop's variable still holds what the thread that has not read it is
\* meant to read.
StartedFindOwn ==
  \A c \in Conns : pc[c] = "start" => newSocket \in Fds /\ open[newSocket] = c

ServingOwn ==
  \A c \in Conns :
    /\ Serving(c) => socket[c] \in Fds /\ open[socket[c]] = c
    /\ answers[c] \subseteq {c}

OpenOwned ==
  \A f \in Fds : \/ open[f] \in {None} \cup lost
                 \/ Busy(open[f])
                 \/ pulsePc = "beat" /\ pulseSocket = f

PulseOwned ==
  pulsePc = "beat" =>
    /\ open[pulseSocket] \in Conns /\ ~Busy(open[pulseSocket])
    /\ faults = {} => open[pulseSocket] = Pulse

Ownership ==
  ReadInTime =>
    /\ WaitingFresh /\ OneDescriptor /\ StartedFindOwn /\ ServingOwn
    /\ OpenOwned /\ PulseOwned

LEMMA OwnershipInit == Init => Ownership
<1> SUFFICES ASSUME Init
             PROVE  Ownership
  OBVIOUS
<1>1. \A c \in Conns : pc[c] = "none" /\ answers[c] = {}
  BY DEF Init
<1>2. \A f \in Fds : open[f] = None
  BY DEF Init
<1>3. queue = <<>> /\ lost = {} /\ pulsePc # "beat"
  BY DEF Init
<1>4. WaitingFresh
  BY <1>1, <1>2, <1>3, ConnsAssumption DEF WaitingFresh, Fresh
<1>5. OneDescriptor /\ OpenOwned
  BY <1>2 DEF OneDescriptor, OpenOwned
<1>6. StartedFindOwn /\ ServingOwn /\ PulseOwned
  BY <1>1, <1>3 DEF StartedFindOwn, ServingOwn, Serving, PulseOwned
<1> QED
  BY <1>4, <1>5, <1>6 DEF Ownership

(* A connection has arrived. *)
LEMMA ArriveOwns ==
  ASSUME TypeInv, Ownership, NEW c \in Conns, Arrive(c)
  PROVE  Ownership'
<1> SUFFICES ASSUME ReadInTime
             PROVE  Ownership'
  BY DEF Arrive, Ownership, ReadInTime
<1> USE DEF Arrive, TypeInv, TypeOK, Ownership, thread, pulse
<1>1. WaitingFresh'
  BY DEF WaitingFresh, Fresh
<1>2. OneDescriptor' /\ StartedFindOwn' /\ ServingOwn'
  BY DEF OneDescriptor, StartedFindOwn, ServingOwn, Serving
<1>3. OpenOwned' /\ PulseOwned'
  BY DEF OpenOwned, PulseOwned, Busy
<1> QED
  BY <1>1, <1>2, <1>3

(* A connection leaves the queue. *)
LEMMA HeadIsFresh ==
  ASSUME TypeInv, WaitingFresh, queue # <<>>
  PROVE  /\ Head(queue) \in arrived /\ Head(queue) \in Conns /\ Fresh(Head(queue))
         /\ \A i \in 1..Len(Tail(queue)) :
              /\ Tail(queue)[i] \in arrived /\ Fresh(Tail(queue)[i])
              /\ Tail(queue)[i] # Head(queue)
         /\ \A i, j \in 1..Len(Tail(queue)) : Tail(queue)[i] = Tail(queue)[j] => i = j
<1> USE DEF TypeInv, TypeOK, WaitingFresh
<1>1. Len(queue) \in Nat /\ Len(queue) > 0 /\ Head(queue) = queue[1] /\ queue[1] \in Conns
  OBVIOUS
<1>2. Len(Tail(queue)) = Len(queue) - 1
      /\ \A i \in 1..Len(Tail(queue)) : Tail(queue)[i] = queue[i + 1]
  BY <1>1
<1>3. \A i \in 1..Len(Tail(queue)) : i + 1 \in 1..Len(queue) /\ i + 1 # 1
  BY <1>1, <1>2
<1>4. 1 \in 1..Len(queue)
  BY <1>1
<1>5. \A i \in 1..Len(Tail(queue)) :
              /\ Tail(queue)[i] \in arrived /\ Fresh(Tail(queue)[i])
              /\ Tail(queue)[i] # Head(queue)
  BY <1>1, <1>2, <1>3, <1>4
<1>6. ASSUME NEW i \in 1..Len(Tail(queue)), NEW j \in 1..Len(Tail(queue)),
             Tail(queue)[i] = Tail(queue)[j]
      PROVE  i = j
  <2>1. i + 1 = j + 1
    BY <1>2, <1>3, <1>6
  <2> QED
    BY <2>1, <1>1, <1>2
<1> QED
  BY <1>1, <1>4, <1>5, <1>6

(* Taking a connection off the queue leaves the others as they are.        *)
LEMMA TailIsFresh ==
  ASSUME TypeInv, WaitingFresh, queue # <<>>, queue' = Tail(queue), arrived' = arrived,
         \A c \in Conns : Fresh(c) /\ c # Head(queue) => Fresh(c)'
  PROVE  WaitingFresh'
<1>1. Tail(queue) \in Seq(Conns)
  BY DEF TypeInv, TypeOK
<1>2. \A i \in 1..Len(Tail(queue)) : Tail(queue)[i] \in Conns
  BY <1>1
<1>3. ASSUME NEW i \in 1..Len(queue')
      PROVE  queue'[i] \in arrived' /\ Fresh(queue[i])'
  <2>1. PICK c \in Conns :
          c = Tail(queue)[i] /\ Fresh(c) /\ c # Head(queue) /\ c \in arrived
    BY <1>2, HeadIsFresh
  <2>2. Fresh(c)'
    BY <2>1
  <2> QED
    BY <2>1, <2>2 DEF Fresh
<1>4. \A c \in Conns : c \notin arrived => Fresh(c)'
  BY HeadIsFresh DEF WaitingFresh
<1> QED
  BY <1>3, <1>4, HeadIsFresh DEF WaitingFresh

(* The loop accepts the connection and starts a thread for it.             *)
LEMMA AcceptOwns ==
  ASSUME TypeInv, Ownership, Accept
  PROVE  Ownership'
<1> SUFFICES ASSUME ReadInTime'
             PROVE  Ownership'
  BY DEF Ownership
<1> DEFINE h == Head(queue)
<1> USE DEF Accept, TypeInv, TypeOK
<1>1. /\ ReadInTime /\ \A c \in Conns : pc[c] # "start"
      /\ faults' = {} => faults = {}
  <2>1. Lowest # Failed
    BY LowestIsNumber
  <2>2. faults' = faults \cup Struck(Lowest, h)
    OBVIOUS
  <2>3. ~ Late /\ faults \subseteq faults'
    BY <2>1, <2>2 DEF ReadInTime, Struck
  <2> QED
    BY <2>3 DEF Late, ReadInTime
<1>2. /\ WaitingFresh /\ OneDescriptor /\ StartedFindOwn /\ ServingOwn
      /\ OpenOwned /\ PulseOwned
  BY <1>1 DEF Ownership
<1>3. Lowest \in Fds /\ open[Lowest] = None
  BY LowestIsFree
<1>4. /\ h \in Conns /\ h \in arrived /\ Fresh(h)
      /\ \A i \in 1..Len(Tail(queue)) :
           Tail(queue)[i] \in arrived /\ Fresh(Tail(queue)[i]) /\ Tail(queue)[i] # h
      /\ \A i, j \in 1..Len(Tail(queue)) : Tail(queue)[i] = Tail(queue)[j] => i = j
  BY <1>2, HeadIsFresh
<1>5. /\ pc' = [pc EXCEPT ![h] = "start"] /\ open' = [open EXCEPT ![Lowest] = h]
      /\ UNCHANGED <<arrived, socket, answers, pulsePc, pulseSocket, lost>>
      /\ newSocket' = Lowest /\ queue' = Tail(queue)
  BY DEF environment, exchange, pulse
<1>6. ASSUME NEW c \in Conns, Fresh(c), c # h
      PROVE  Fresh(c)'
  BY <1>3, <1>4, <1>5, <1>6 DEF Fresh
<1>7. WaitingFresh'
  BY <1>1, <1>2, <1>4, <1>5, <1>6, TailIsFresh
<1>8. OneDescriptor'
  BY <1>2, <1>3, <1>4, <1>5 DEF OneDescriptor, Fresh
<1>9. StartedFindOwn'
  BY <1>1, <1>3, <1>5 DEF StartedFindOwn
<1>10. ServingOwn'
  BY <1>2, <1>3, <1>5, ConnsAssumption DEF ServingOwn, Serving, SocketsAccepted
<1>11. OpenOwned'
  BY <1>2, <1>3, <1>4, <1>5 DEF OpenOwned, Busy
<1>12. PulseOwned'
  <2> SUFFICES ASSUME pulsePc = "beat"
               PROVE  PulseOwned'
    BY <1>5 DEF PulseOwned
  <2>1. pulseSocket \in Fds
    BY DEF SocketsAccepted
  <2>2. open[pulseSocket] \in Conns /\ open[pulseSocket] # h /\ pulseSocket # Lowest
    BY <1>2, <1>3, <1>4, <2>1, ConnsAssumption DEF PulseOwned, Fresh
  <2> QED
    BY <1>1, <1>2, <1>3, <1>4, <1>5, <2>1, <2>2 DEF PulseOwned, Busy
<1> QED
  BY <1>7, <1>8, <1>9, <1>10, <1>11, <1>12 DEF Ownership

(* The loop accepts the connection and fails to start a thread for it.     *)
LEMMA AcceptWithoutThreadOwns ==
  ASSUME TypeInv, Ownership, AcceptWithoutThread
  PROVE  Ownership'
<1> SUFFICES ASSUME ReadInTime'
             PROVE  Ownership'
  BY DEF Ownership
<1> DEFINE h == Head(queue)
<1> USE DEF AcceptWithoutThread, TypeInv, TypeOK
<1>1. /\ ReadInTime /\ \A c \in Conns : pc[c] # "start"
      /\ faults' = {} => faults = {}
  <2>1. Lowest # Failed
    BY LowestIsNumber
  <2>2. faults' = faults \cup Struck(Lowest, h)
    OBVIOUS
  <2>3. ~ Late /\ faults \subseteq faults'
    BY <2>1, <2>2 DEF ReadInTime, Struck
  <2> QED
    BY <2>3 DEF Late, ReadInTime
<1>2. /\ WaitingFresh /\ OneDescriptor /\ StartedFindOwn /\ ServingOwn
      /\ OpenOwned /\ PulseOwned
  BY <1>1 DEF Ownership
<1>3. Lowest \in Fds /\ open[Lowest] = None
  BY LowestIsFree
<1>4. /\ h \in Conns /\ h \in arrived /\ Fresh(h)
      /\ \A i \in 1..Len(Tail(queue)) :
           Tail(queue)[i] \in arrived /\ Fresh(Tail(queue)[i]) /\ Tail(queue)[i] # h
      /\ \A i, j \in 1..Len(Tail(queue)) : Tail(queue)[i] = Tail(queue)[j] => i = j
  BY <1>2, HeadIsFresh
<1>5. /\ UNCHANGED <<arrived, pc, socket, answers, pulsePc, pulseSocket>>
      /\ queue' = Tail(queue)
      /\ \/ UNCHANGED <<open, lost>>
         \/ open' = [open EXCEPT ![Lowest] = h] /\ lost' = lost \cup {h}
  BY DEF environment, exchange, pulse, thread
<1>6. open \in [Fds -> Conns \cup {None}]
  OBVIOUS
<1>7. ASSUME NEW c \in Conns, Fresh(c), c # h
      PROVE  Fresh(c)'
  BY <1>3, <1>4, <1>5, <1>7 DEF Fresh
<1>8. WaitingFresh'
  BY <1>1, <1>2, <1>4, <1>5, <1>7, TailIsFresh
<1> HIDE DEF AcceptWithoutThread, TypeInv, h
<1>9. OneDescriptor'
  <2>1. CASE UNCHANGED open
    BY <1>2, <2>1 DEF OneDescriptor
  <2>2. CASE open' = [open EXCEPT ![Lowest] = h]
    BY <1>2, <1>3, <1>4, <2>2 DEF OneDescriptor, Fresh
  <2> QED
    BY <1>5, <2>1, <2>2
<1>10. StartedFindOwn'
  BY <1>1, <1>5 DEF StartedFindOwn
<1>11. ServingOwn'
  <2>1. \A c \in Conns : Serving(c) => socket[c] \in Fds /\ socket[c] # Lowest
    BY <1>2, <1>3, ConnsAssumption DEF ServingOwn, TypeInv, SocketsAccepted
  <2> QED
    BY <1>2, <1>5, <1>6, <2>1 DEF ServingOwn, Serving
<1>12. OpenOwned'
  BY <1>2, <1>3, <1>4, <1>5, <1>6 DEF OpenOwned, Busy
<1>13. PulseOwned'
  <2> SUFFICES ASSUME pulsePc = "beat"
               PROVE  PulseOwned'
    BY <1>5 DEF PulseOwned
  <2>1. pulseSocket \in Fds
    BY DEF TypeInv, SocketsAccepted
  <2>2. open[pulseSocket] \in Conns /\ pulseSocket # Lowest
    BY <1>2, <1>3, <2>1, ConnsAssumption DEF PulseOwned
  <2> QED
    BY <1>1, <1>2, <1>3, <1>5, <1>6, <2>1, <2>2 DEF PulseOwned, Busy
<1> QED
  BY <1>8, <1>9, <1>10, <1>11, <1>12, <1>13 DEF Ownership

(* A connection that is broken off while it waits, or none at all.         *)
LEMMA ShorterQueueOwns ==
  ASSUME TypeInv, Ownership, ReadInTime,
         queue' = queue \/ (queue # <<>> /\ queue' = Tail(queue)),
         newSocket' = newSocket \/ \A c \in Conns : pc[c] # "start",
         pulsePc' = pulsePc \/ (pulsePc' = "done" /\ pulsePc # "beat"),
         faults' = {} => faults = {},
         UNCHANGED <<arrived, open, pc, socket, answers, pulseSocket, lost>>
  PROVE  Ownership'
<1>1. /\ WaitingFresh /\ OneDescriptor /\ StartedFindOwn /\ ServingOwn
      /\ OpenOwned /\ PulseOwned
  BY DEF Ownership
<1>2. \A c \in Conns : Fresh(c) => Fresh(c)'
  BY DEF Fresh
<1>3. WaitingFresh'
  <2>1. CASE queue' = queue
    <3>1. \A i \in 1..Len(queue) : queue[i] \in Conns
      BY DEF TypeInv, TypeOK
    <3> QED
      BY <1>1, <1>2, <2>1, <3>1 DEF WaitingFresh
  <2>2. CASE queue # <<>> /\ queue' = Tail(queue)
    BY <1>1, <1>2, <2>2, TailIsFresh
  <2> QED
    BY <2>1, <2>2
<1>4. OneDescriptor' /\ ServingOwn'
  BY <1>1 DEF OneDescriptor, ServingOwn, Serving
<1>5. StartedFindOwn'
  BY <1>1 DEF StartedFindOwn
<1>6. OpenOwned' /\ PulseOwned'
  BY <1>1 DEF OpenOwned, PulseOwned, Busy
<1> QED
  BY <1>3, <1>4, <1>5, <1>6 DEF Ownership

(* accept fails in the loop, and its -1 is nobody's descriptor.            *)
LEMMA AcceptFailsOwns ==
  ASSUME TypeInv, Ownership, AcceptFails
  PROVE  Ownership'
<1> SUFFICES ASSUME ReadInTime'
             PROVE  Ownership'
  BY DEF Ownership
<1>1. faults' = faults \cup Struck(Failed, None)
  BY DEF AcceptFails
<1>2. ~ Late /\ faults \subseteq faults'
  BY <1>1 DEF ReadInTime, Struck
<1>3. ReadInTime /\ (\A c \in Conns : pc[c] # "start") /\ (faults' = {} => faults = {})
  BY <1>2 DEF ReadInTime, Late
<1>4. /\ UNCHANGED <<arrived, open, pc, socket, answers, pulsePc, pulseSocket, lost>>
      /\ queue' = queue \/ (queue # <<>> /\ queue' = Tail(queue))
  BY DEF AcceptFails, environment, thread, exchange, pulse
<1>5. pulsePc' = pulsePc \/ (pulsePc' = "done" /\ pulsePc # "beat")
  BY DEF AcceptFails, pulse
<1>6. newSocket' = newSocket \/ \A c \in Conns : pc[c] # "start"
  BY <1>3
<1>7. faults' = {} => faults = {}
  BY <1>3
<1> HIDE DEF AcceptFails
<1> QED
  BY <1>3, <1>4, <1>5, <1>6, <1>7, ShorterQueueOwns

(* accept fails in the thread of the pulses, which returns.                *)
LEMMA AcceptPulseFailsOwns ==
  ASSUME TypeInv, Ownership, AcceptPulseFails
  PROVE  Ownership'
<1> SUFFICES ASSUME ReadInTime'
             PROVE  Ownership'
  BY DEF Ownership
<1>1. faults' = faults /\ newSocket' = newSocket /\ pulsePc # "beat" /\ pulsePc' = "done"
  BY DEF AcceptPulseFails
<1>2. ReadInTime
  BY <1>1 DEF ReadInTime
<1>3. /\ UNCHANGED <<arrived, open, pc, socket, answers, pulseSocket, lost>>
      /\ queue' = queue \/ (queue # <<>> /\ queue' = Tail(queue))
  BY DEF AcceptPulseFails, environment, thread, exchange
<1> QED
  BY <1>1, <1>2, <1>3, ShorterQueueOwns

(* NameServerPulseHandler accepts the connection.                          *)
LEMMA AcceptPulseOwns ==
  ASSUME TypeInv, Ownership, AcceptPulse
  PROVE  Ownership'
<1> SUFFICES ASSUME ReadInTime'
             PROVE  Ownership'
  BY DEF Ownership
<1> DEFINE h == Head(queue)
<1> USE DEF AcceptPulse, TypeInv, TypeOK
<1>1. ReadInTime /\ (faults' = {} => h = Pulse)
  BY DEF ReadInTime
<1>2. /\ WaitingFresh /\ OneDescriptor /\ StartedFindOwn /\ ServingOwn
      /\ OpenOwned /\ PulseOwned
  BY <1>1 DEF Ownership
<1>3. Lowest \in Fds /\ open[Lowest] = None
  BY LowestIsFree
<1>4. /\ h \in Conns /\ h \in arrived /\ Fresh(h)
      /\ \A i \in 1..Len(Tail(queue)) :
           Tail(queue)[i] \in arrived /\ Fresh(Tail(queue)[i]) /\ Tail(queue)[i] # h
      /\ \A i, j \in 1..Len(Tail(queue)) : Tail(queue)[i] = Tail(queue)[j] => i = j
  BY <1>2, HeadIsFresh
<1>5. /\ UNCHANGED <<arrived, pc, socket, answers, lost, newSocket>>
      /\ queue' = Tail(queue) /\ open' = [open EXCEPT ![Lowest] = h]
      /\ pulsePc = "accept" /\ pulsePc' = "beat" /\ pulseSocket' = Lowest
  BY DEF environment, exchange, thread
<1>6. ASSUME NEW c \in Conns, Fresh(c), c # h
      PROVE  Fresh(c)'
  BY <1>3, <1>4, <1>5, <1>6 DEF Fresh
<1>7. WaitingFresh'
  BY <1>1, <1>2, <1>4, <1>5, <1>6, TailIsFresh
<1>8. OneDescriptor'
  BY <1>2, <1>3, <1>4, <1>5 DEF OneDescriptor, Fresh
<1>9. StartedFindOwn'
  BY <1>2, <1>3, <1>5, ConnsAssumption DEF StartedFindOwn, SocketsAccepted
<1>10. ServingOwn'
  BY <1>2, <1>3, <1>5, ConnsAssumption DEF ServingOwn, Serving, SocketsAccepted
<1>11. OpenOwned'
  BY <1>2, <1>3, <1>5 DEF OpenOwned, Busy
<1>12. PulseOwned'
  BY <1>1, <1>3, <1>4, <1>5 DEF PulseOwned, Busy, Fresh
<1> QED
  BY <1>7, <1>8, <1>9, <1>10, <1>11, <1>12 DEF Ownership

(* No more pulses come, and the thread closes the socket.                  *)
LEMMA GiveUpPulseOwns ==
  ASSUME TypeInv, Ownership, GiveUpPulse
  PROVE  Ownership'
<1> SUFFICES ASSUME ReadInTime
             PROVE  Ownership'
  BY DEF Ownership, GiveUpPulse, ReadInTime
<1>1. /\ WaitingFresh /\ OneDescriptor /\ StartedFindOwn /\ ServingOwn
      /\ OpenOwned /\ PulseOwned
  BY DEF Ownership
<1>2. /\ UNCHANGED <<arrived, queue, pc, socket, answers, pulseSocket, lost, newSocket>>
      /\ open' = [open EXCEPT ![pulseSocket] = None]
      /\ pulsePc = "beat" /\ pulsePc' = "done"
  <2>1. open' = [open EXCEPT ![pulseSocket] = None]
    <3>1. open \in [Fds -> Conns \cup {None}]
      BY DEF TypeInv, TypeOK
    <3> QED
      BY <3>1 DEF GiveUpPulse, CloseFd
  <2> QED
    BY <2>1 DEF GiveUpPulse, environment, exchange, thread
<1>3. open \in [Fds -> Conns \cup {None}] /\ pulseSocket \in Fds /\ queue \in Seq(Conns)
  BY <1>2 DEF TypeInv, TypeOK, SocketsAccepted
<1>4. ~Busy(open[pulseSocket])
  BY <1>1, <1>2 DEF PulseOwned
<1>5. WaitingFresh'
  <2>1. \A c \in Conns : Fresh(c) => Fresh(c)'
    BY <1>2, <1>3, ConnsAssumption DEF Fresh
  <2>2. \A i \in 1..Len(queue) : queue[i] \in Conns
    BY <1>3
  <2> QED
    BY <1>1, <1>2, <2>1, <2>2 DEF WaitingFresh, Fresh
<1>6. OneDescriptor'
  BY <1>1, <1>2, <1>3 DEF OneDescriptor
<1>7. StartedFindOwn'
  <2>1. \A c \in Conns : pc[c] = "start" => newSocket \in Fds /\ newSocket # pulseSocket
    BY <1>1, <1>4 DEF StartedFindOwn, Busy, TypeInv, SocketsAccepted
  <2> QED
    BY <1>1, <1>2, <1>3, <2>1 DEF StartedFindOwn
<1>8. ServingOwn'
  <2>1. \A c \in Conns : Serving(c) => socket[c] \in Fds /\ socket[c] # pulseSocket
    BY <1>1, <1>4 DEF ServingOwn, Serving, Busy, TypeInv, SocketsAccepted
  <2> QED
    BY <1>1, <1>2, <1>3, <2>1 DEF ServingOwn, Serving
<1>9. OpenOwned' /\ PulseOwned'
  BY <1>1, <1>2, <1>3 DEF OpenOwned, PulseOwned, Busy
<1> QED
  BY <1>5, <1>6, <1>7, <1>8, <1>9 DEF Ownership

(* The thread reads the variable of the loop.                              *)
LEMMA ReadSocketOwns ==
  ASSUME TypeInv, Ownership, NEW c \in Conns, ReadSocket(c)
  PROVE  Ownership'
<1> SUFFICES ASSUME ReadInTime
             PROVE  Ownership'
  BY DEF Ownership, ReadSocket, ReadInTime
<1>1. /\ WaitingFresh /\ OneDescriptor /\ StartedFindOwn /\ ServingOwn
      /\ OpenOwned /\ PulseOwned
  BY DEF Ownership
<1>2. /\ UNCHANGED <<arrived, queue, open, answers, pulsePc, pulseSocket, lost, newSocket, faults>>
      /\ socket' = [socket EXCEPT ![c] = newSocket]
      /\ pc[c] = "start" /\ pc' = [pc EXCEPT ![c] = "serve"]
  BY DEF ReadSocket, Goto, environment, exchange, pulse
<1>3. /\ pc \in [Conns -> Steps] /\ socket \in [Conns -> -1..MaxFds]
      /\ queue \in Seq(Conns) /\ open \in [Fds -> Conns \cup {None}]
  BY DEF TypeInv, TypeOK
<1>4. \A d : Busy(d)' <=> Busy(d)
  BY <1>2, <1>3 DEF Busy
<1>5. WaitingFresh'
  <2>1. \A d \in Conns : Fresh(d) => Fresh(d)'
    BY <1>2, <1>3 DEF Fresh
  <2>2. \A i \in 1..Len(queue) : queue[i] \in Conns
    BY <1>3
  <2> QED
    BY <1>1, <1>2, <2>1, <2>2 DEF WaitingFresh, Fresh
<1>6. OneDescriptor' /\ StartedFindOwn'
  BY <1>1, <1>2, <1>3 DEF OneDescriptor, StartedFindOwn
<1>7. ServingOwn'
  BY <1>1, <1>2, <1>3 DEF ServingOwn, Serving, StartedFindOwn
<1>8. OpenOwned' /\ PulseOwned'
  BY <1>1, <1>2, <1>4 DEF OpenOwned, PulseOwned
<1> QED
  BY <1>5, <1>6, <1>7, <1>8 DEF Ownership

(* A thread goes on with the descriptor it has, or returns and leaves it   *)
(* open: the connection is lost then.                                      *)
LEMMA GoingOnOwns ==
  ASSUME TypeInv, Ownership, ReadInTime,
         NEW c \in Conns, Serving(c), pc' \in [Conns -> Steps],
         \A d \in Conns : d # c => pc'[d] = pc[d],
         pc'[c] \in {"work", "close"} \/ (pc'[c] = "done" /\ c \in lost'),
         lost' \subseteq lost \cup {c}, lost \subseteq lost',
         \A d \in Conns : answers'[d] \subseteq {d},
         UNCHANGED <<arrived, queue, open, newSocket, socket, pulsePc, pulseSocket, faults>>
  PROVE  Ownership'
<1>1. /\ WaitingFresh /\ OneDescriptor /\ StartedFindOwn /\ ServingOwn
      /\ OpenOwned /\ PulseOwned
  BY DEF Ownership
<1>2. queue \in Seq(Conns) /\ open \in [Fds -> Conns \cup {None}]
  BY DEF TypeInv, TypeOK
<1>3. WaitingFresh'
  <2>1. \A d \in Conns : Fresh(d) => Fresh(d)'
    BY DEF Fresh, Serving
  <2>2. \A i \in 1..Len(queue) : queue[i] \in Conns
    BY <1>2
  <2> QED
    BY <1>1, <2>1, <2>2 DEF WaitingFresh, Fresh
<1>4. OneDescriptor' /\ StartedFindOwn' /\ ServingOwn'
  BY <1>1 DEF OneDescriptor, StartedFindOwn, ServingOwn, Serving
<1>5. OpenOwned'
  <2> SUFFICES ASSUME NEW f \in Fds, open[f] \in Conns
               PROVE  \/ open[f] \in lost' \/ Busy(open[f])'
                      \/ pulsePc = "beat" /\ pulseSocket = f
    BY <1>2 DEF OpenOwned, Busy
  <2> QED
    BY <1>1, ConnsAssumption DEF OpenOwned, Busy
<1>6. PulseOwned'
  BY <1>1 DEF PulseOwned, Busy, Serving
<1> QED
  BY <1>3, <1>4, <1>5, <1>6 DEF Ownership

(* The thread takes a request from its connection.                         *)
LEMMA ReceiveRequestOwns ==
  ASSUME TypeInv, Ownership, NEW c \in Conns, ReceiveRequest(c)
  PROVE  Ownership'
<1> SUFFICES ASSUME ReadInTime
             PROVE  Ownership'
  BY DEF Ownership, ReceiveRequest, ReadInTime
<1>1. ServingOwn /\ Serving(c)
  BY DEF Ownership, ReceiveRequest, Serving
<1>2. pc' \in [Conns -> Steps] /\ pc'[c] = "work" /\ \A d \in Conns : d # c => pc'[d] = pc[d]
  BY DEF ReceiveRequest, Goto, TypeInv, TypeOK, Steps
<1>3. /\ UNCHANGED <<arrived, queue, open, newSocket, socket, pulsePc, pulseSocket, faults>>
      /\ UNCHANGED <<lost, answers>>
  BY DEF ReceiveRequest, environment, pulse
<1> QED
  BY <1>1, <1>2, <1>3, GoingOnOwns DEF ServingOwn

(* The thread gets no request it understands.                              *)
LEMMA NoRequestOwns ==
  ASSUME TypeInv, Ownership, NEW c \in Conns, NoRequest(c)
  PROVE  Ownership'
<1> SUFFICES ASSUME ReadInTime
             PROVE  Ownership'
  BY DEF Ownership, NoRequest, ReadInTime
<1>1. ServingOwn /\ Serving(c)
  BY DEF Ownership, NoRequest, Serving
<1>2. Behind(socket[c]) = c
  BY <1>1 DEF ServingOwn, Behind
<1>3. /\ UNCHANGED <<arrived, queue, open, newSocket, socket, pulsePc, pulseSocket, faults>>
      /\ UNCHANGED answers
  BY DEF NoRequest, environment, exchange, pulse
<1>4. pc' \in [Conns -> Steps] /\ \A d \in Conns : d # c => pc'[d] = pc[d]
  BY DEF NoRequest, Goto, TypeInv, TypeOK, Steps
<1>5. /\ pc'[c] = "close" \/ (pc'[c] = "done" /\ c \in lost')
      /\ lost' \subseteq lost \cup {c} /\ lost \subseteq lost'
  BY <1>2, ConnsAssumption DEF NoRequest, Goto, TypeInv, TypeOK
<1> QED
  BY <1>1, <1>3, <1>4, <1>5, GoingOnOwns DEF ServingOwn

(* The thread answers on the connection behind its descriptor.             *)
LEMMA AnswerOwns ==
  ASSUME TypeInv, Ownership, NEW c \in Conns, Answer(c)
  PROVE  Ownership'
<1> SUFFICES ASSUME ReadInTime
             PROVE  Ownership'
  BY DEF Ownership, Answer, ReadInTime
<1>1. ServingOwn /\ Serving(c)
  BY DEF Ownership, Answer, Serving
<1>2. Behind(socket[c]) = c
  BY <1>1 DEF ServingOwn, Behind
<1>3. UNCHANGED <<arrived, queue, open, newSocket, socket, pulsePc, pulseSocket, faults>>
      /\ UNCHANGED lost
  BY DEF Answer, environment, pulse
<1>4. pc' \in [Conns -> Steps] /\ pc'[c] = "close" /\ \A d \in Conns : d # c => pc'[d] = pc[d]
  BY DEF Answer, Goto, TypeInv, TypeOK, Steps
<1>5. \A d \in Conns : answers'[d] \subseteq {d}
  BY <1>1, <1>2, ConnsAssumption DEF Answer, ServingOwn, TypeInv, TypeOK
<1> QED
  BY <1>1, <1>3, <1>4, <1>5, GoingOnOwns

(* The thread closes its descriptor, which from then on is free for the    *)
(* next connection: no other thread, and not the pulse thread, has it.     *)
LEMMA CloseOwns ==
  ASSUME TypeInv, Ownership, NEW c \in Conns, Close(c)
  PROVE  Ownership'
<1> SUFFICES ASSUME ReadInTime
             PROVE  Ownership'
  BY DEF Ownership, Close, ReadInTime
<1>1. /\ WaitingFresh /\ OneDescriptor /\ StartedFindOwn /\ ServingOwn
      /\ OpenOwned /\ PulseOwned
  BY DEF Ownership
<1>2. /\ UNCHANGED <<arrived, queue, newSocket, socket, answers, pulsePc, pulseSocket, lost,
                     faults>>
      /\ open' = [open EXCEPT ![socket[c]] = None]
      /\ pc[c] = "close" /\ pc' = [pc EXCEPT ![c] = "done"]
  <2>1. open' = [open EXCEPT ![socket[c]] = None]
    <3>1. open \in [Fds -> Conns \cup {None}]
      BY DEF TypeInv, TypeOK
    <3> QED
      BY <3>1 DEF Close, CloseFd
  <2> QED
    BY <2>1 DEF Close, Goto, environment, exchange, pulse
<1>3. /\ pc \in [Conns -> Steps] /\ open \in [Fds -> Conns \cup {None}]
      /\ queue \in Seq(Conns) /\ socket[c] \in Fds
  BY <1>1, <1>2 DEF TypeInv, TypeOK, ServingOwn, Serving
<1>4. open[socket[c]] = c /\ Busy(c)
  BY <1>1, <1>2 DEF ServingOwn, Serving, Busy
<1>5. WaitingFresh'
  <2>1. \A d \in Conns : Fresh(d) => Fresh(d)'
    BY <1>2, <1>3, ConnsAssumption DEF Fresh
  <2>2. \A i \in 1..Len(queue) : queue[i] \in Conns
    BY <1>3
  <2> QED
    BY <1>1, <1>2, <2>1, <2>2 DEF WaitingFresh, Fresh
<1>6. OneDescriptor'
  BY <1>1, <1>2, <1>3 DEF OneDescriptor
<1>7. StartedFindOwn'
  <2>1. \A d \in Conns :
          pc[d] = "start" => d # c /\ newSocket \in Fds /\ newSocket # socket[c]
    BY <1>1, <1>2, <1>4 DEF StartedFindOwn, TypeInv, SocketsAccepted
  <2> QED
    BY <1>1, <1>2, <1>3, <2>1 DEF StartedFindOwn
<1>8. ServingOwn'
  <2>1. \A d \in Conns :
          Serving(d) /\ d # c => socket[d] \in Fds /\ socket[d] # socket[c]
    BY <1>1, <1>4 DEF ServingOwn, TypeInv, SocketsAccepted
  <2> QED
    BY <1>1, <1>2, <1>3, <2>1 DEF ServingOwn, Serving
<1>9. OpenOwned'
  <2> SUFFICES ASSUME NEW f \in Fds, f # socket[c], open[f] \in Conns
               PROVE  \/ open[f] \in lost \/ Busy(open[f])'
                      \/ pulsePc = "beat" /\ pulseSocket = f
    BY <1>2, <1>3 DEF OpenOwned, Busy
  <2>1. open[f] # c
    BY <1>1, <1>3, <1>4, ConnsAssumption DEF OneDescriptor
  <2> QED
    BY <1>1, <1>2, <1>3, <2>1, ConnsAssumption DEF OpenOwned, Busy
<1>10. PulseOwned'
  <2> SUFFICES ASSUME pulsePc = "beat"
               PROVE  PulseOwned'
    BY <1>2 DEF PulseOwned
  <2>1. pulseSocket \in Fds /\ pulseSocket # socket[c]
    BY <1>1, <1>4 DEF PulseOwned, TypeInv, SocketsAccepted
  <2> QED
    BY <1>1, <1>2, <1>3, <2>1 DEF PulseOwned, Busy
<1> QED
  BY <1>5, <1>6, <1>7, <1>8, <1>9, <1>10 DEF Ownership

LEMMA OwnershipStep == TypeInv /\ Ownership /\ [Next]_vars => Ownership'
<1> SUFFICES ASSUME TypeInv, Ownership, [Next]_vars
             PROVE  Ownership'
  OBVIOUS
<1>1. CASE UNCHANGED vars
  <2>1. UNCHANGED <<arrived, queue, open, newSocket, pc, socket, answers>>
        /\ UNCHANGED <<pulsePc, pulseSocket, lost, faults>>
    BY <1>1 DEF vars, environment, thread, exchange, pulse
  <2> QED
    BY <2>1 DEF Ownership, WaitingFresh, Fresh, OneDescriptor, StartedFindOwn,
                ServingOwn, Serving, OpenOwned, PulseOwned, Busy, ReadInTime
<1>2. CASE Accept
  BY <1>2, AcceptOwns
<1>3. CASE AcceptWithoutThread
  BY <1>3, AcceptWithoutThreadOwns
<1>4. CASE AcceptPulse
  BY <1>4, AcceptPulseOwns
<1>5. CASE GiveUpPulse
  BY <1>5, GiveUpPulseOwns
<1>6. ASSUME NEW c \in Conns, Arrive(c) \/ Handle(c)
      PROVE  Ownership'
  BY <1>6, ArriveOwns, ReadSocketOwns, ReceiveRequestOwns, NoRequestOwns, AnswerOwns, CloseOwns
  DEF Handle
<1>7. CASE AcceptFails
  BY <1>7, AcceptFailsOwns
<1>8. CASE AcceptPulseFails
  BY <1>8, AcceptPulseFailsOwns
<1> QED
  BY <1>1, <1>2, <1>3, <1>4, <1>5, <1>6, <1>7, <1>8 DEF Next, Idle

LEMMA Owned == Spec => [](TypeInv /\ Ownership)
<1> QED
  BY TypeInit, TypeStep, OwnershipInit, OwnershipStep, PTL DEF Spec

\* However many clients there are and however often a descriptor is handed
\* out again, a client is answered by the thread that was started for it,
\* unless the loop wrote its variable before that thread had read it.
THEOREM AnswersTheirOwn == Spec => []OwnAnswers
<1>1. Ownership => OwnAnswers
  BY DEF Ownership, ServingOwn, Serving, OwnAnswers
<1> QED
  BY <1>1, Owned, PTL

\* Every open descriptor has exactly one thread that is going to close it,
\* but for those of a thread that could not be created or read the loop's
\* variable too late, or of a request that was not understood.
THEOREM DescriptorsHaveOwners == Spec => []DescriptorsOwned
<1>1. TypeInv /\ Ownership => DescriptorsOwned
  BY DEF Ownership, OpenOwned, ServingOwn, Serving, DescriptorsOwned
<1> QED
  BY <1>1, Owned, PTL

\* No request thread ever has the descriptor of the pulses, as long as the
\* pulse thread and the loop accepted their own connections.
THEOREM PulseIsKept == Spec => []PulseKept
<1>1. Ownership => PulseKept
  <2> SUFFICES ASSUME Ownership, faults = {}, pulsePc = "beat"
               PROVE  PulseKept
    BY DEF PulseKept
  <2>1. ServingOwn /\ PulseOwned
    BY DEF Ownership, ReadInTime
  <2>2. \A c \in Conns : Serving(c) => socket[c] # pulseSocket
    BY <2>1 DEF ServingOwn, PulseOwned, Serving, Busy
  <2> QED
    BY <2>1, <2>2 DEF PulseOwned, PulseKept, Serving
<1> QED
  BY <1>1, Owned, PTL
=============================================================================
