----------------------------- MODULE AcceptLoops -----------------------------
(***************************************************************************)
(* The loops that accept connections and start a thread for each:          *)
(* handleClients of the name server, handleClients of a storage server,    *)
(* and NameServerThreadHandler, which accepts on one socket with the       *)
(* thread of the pulses.  A loop keeps the accepted descriptor in a local  *)
(* variable and gives the thread its address; the variable of the next     *)
(* turn is at the same place.  accept returns the lowest free descriptor.  *)
(*                                                                         *)
(* What a thread does with its request is the subject of NameServer,       *)
(* FileTable and FileLock; here it takes the request from whatever         *)
(* connection its descriptor stands for, answers on it and closes it.      *)
(***************************************************************************)
EXTENDS Integers, Sequences, FiniteSets

CONSTANTS
  Requests,    \* connections of clients, or of the name server for a client
  Pulse,       \* the connection of the name server for the pulses
  MaxFds,      \* bound: descriptors that are free for connections
  None         \* no connection

Conns == Requests \cup {Pulse}

ASSUME ConnsAssumption == Pulse \notin Requests /\ None \notin Conns /\ MaxFds \in Nat

Fds == 1..MaxFds
Failed == -1             \* what accept returns when it fails

VARIABLES
  loop,        \* which of the three loops this is
  arrived, queue,
  open,        \* the connection behind each descriptor
  newSocket,   \* the local variable of the loop: what accept returned last
  pc,          \* the thread started for each connection
  socket,      \* the descriptor it has read
  pending,     \* connections whose request was not taken yet
  answers,     \* the threads that have answered on a connection
  pulsePc, pulseSocket,         \* NameServerPulseHandler
  lost,        \* history: connections whose descriptor nobody closes
  faults       \* history: the hazards that have struck so far

environment == <<loop, arrived>>
thread      == <<pc, socket>>
exchange    == <<pending, answers>>
pulse       == <<pulsePc, pulseSocket>>
vars == <<environment, queue, open, newSocket, thread, exchange, pulse, lost, faults>>

Loops == {"name server, clients", "storage server, clients", "storage server, name server"}
Steps == {"none", "start", "serve", "work", "close", "done"}

\* A connection was accepted, or accept failed, before a thread had read the
\* variable; the pulse thread accepted a request, or the loop the connection for
\* the pulses.
Faults == {"overtaken", "emptied", "swapped"}

WithPulse == loop = "storage server, name server"

Init ==
  /\ loop \in Loops
  /\ arrived = {}
  /\ queue = <<>>
  /\ open = [f \in Fds |-> None]
  /\ newSocket = 0
  /\ pc = [c \in Conns |-> "none"]
  /\ socket = [c \in Conns |-> 0]
  /\ pending = {}
  /\ answers = [c \in Conns |-> {}]
  /\ pulsePc = IF WithPulse THEN "accept" ELSE "done"
  /\ pulseSocket = 0
  /\ lost = {}
  /\ faults = {}

(* A request may be sent as soon as the storage server is in the list, the *)
(* connection for the pulses comes any time.                               *)
Arrive(c) ==
  /\ c \notin arrived
  /\ c = Pulse => WithPulse
  /\ arrived' = arrived \cup {c}
  /\ queue' = Append(queue, c)
  /\ pending' = pending \cup {c}
  /\ UNCHANGED <<loop, open, newSocket, thread, answers, pulse, lost, faults>>

Free == {f \in Fds : open[f] = None}
Lowest == CHOOSE f \in Free : \A g \in Free : f <= g

Late == \E c \in Conns : pc[c] = "start"

(* What the next write to the variable, and the connection it is for, make *)
(* of the history.                                                         *)
Struck(value, c) ==
  (IF ~ Late THEN {} ELSE IF value = Failed THEN {"emptied"} ELSE {"overtaken"})
    \cup (IF c = Pulse THEN {"swapped"} ELSE {})

(* A connection is accepted, and a thread started for it.                  *)
Accept ==
  /\ queue # <<>> /\ Free # {}
  /\ queue' = Tail(queue)
  /\ open' = [open EXCEPT ![Lowest] = Head(queue)]
  /\ newSocket' = Lowest
  /\ pc' = [pc EXCEPT ![Head(queue)] = "start"]
  /\ faults' = faults \cup Struck(Lowest, Head(queue))
  /\ UNCHANGED <<environment, socket, exchange, pulse, lost>>

(* accept fails: no descriptor is free, or the connection was broken off   *)
(* while it waited.  Its -1 is in the variable when the loop goes round.   *)
AcceptFails ==
  /\ \/ Free = {} /\ UNCHANGED queue
     \/ Free # {} /\ queue # <<>> /\ queue' = Tail(queue)
  /\ newSocket' = Failed
  /\ faults' = faults \cup Struck(Failed, None)
  /\ UNCHANGED <<environment, open, thread, exchange, pulse, lost>>

(* No thread could be created: the number pthread_create returns is not    *)
(* negative, and the detach that follows fails.  Only the name server      *)
(* closes the socket then.                                                 *)
AcceptWithoutThread ==
  /\ queue # <<>> /\ Free # {}
  /\ queue' = Tail(queue)
  /\ newSocket' = Lowest
  /\ IF loop = "name server, clients"
       THEN UNCHANGED <<open, lost>>
       ELSE /\ open' = [open EXCEPT ![Lowest] = Head(queue)]
            /\ lost' = lost \cup {Head(queue)}
  /\ faults' = faults \cup Struck(Lowest, Head(queue))
  /\ UNCHANGED <<environment, thread, exchange, pulse>>

----------------------------------------------------------------------------
(* The thread that was started for connection c.  A call on the -1 of a    *)
(* failed accept fails and changes nothing.                                *)

Goto(c, step) == pc' = [pc EXCEPT ![c] = step]
Behind(f) == IF f \in Fds THEN open[f] ELSE None
CloseFd(f) == open' = [g \in Fds |-> IF g = f THEN None ELSE open[g]]

ReadSocket(c) ==
  /\ pc[c] = "start"
  /\ socket' = [socket EXCEPT ![c] = newSocket]
  /\ Goto(c, "serve")
  /\ UNCHANGED <<environment, queue, open, newSocket, exchange, pulse, lost, faults>>

\* A slip: the socket is closed as soon as the request was received.
ReceiveRequestClosing(c) ==
  /\ pc[c] = "serve"
  /\ Behind(socket[c]) \in pending \ {Pulse}
  /\ pending' = pending \ {Behind(socket[c])}
  /\ CloseFd(socket[c])
  /\ Goto(c, "work")
  /\ UNCHANGED <<environment, queue, newSocket, socket, answers, pulse, lost, faults>>

ReceiveRequest(c) ==
  /\ pc[c] = "serve"
  /\ Behind(socket[c]) \in pending \ {Pulse}
  /\ pending' = pending \ {Behind(socket[c])}
  /\ Goto(c, "work")
  /\ UNCHANGED <<environment, queue, open, newSocket, socket, answers, pulse, lost, faults>>

(* No operation number in time, or something else instead, a pulse for     *)
(* one: handleClientRequest of a storage server leaves the socket open.    *)
NoRequest(c) ==
  /\ pc[c] = "serve"
  /\ IF loop = "storage server, clients"
       THEN /\ Goto(c, "done")
            /\ lost' = lost \cup ({Behind(socket[c])} \ {None})
       ELSE /\ Goto(c, "close")
            /\ UNCHANGED lost
  /\ UNCHANGED <<environment, queue, open, newSocket, socket, exchange, pulse, faults>>

(* Whoever is behind the descriptor by now.                                *)
Answer(c) ==
  /\ pc[c] = "work"
  /\ answers' = IF Behind(socket[c]) = None THEN answers
                ELSE [answers EXCEPT ![Behind(socket[c])] = @ \cup {c}]
  /\ Goto(c, "close")
  /\ UNCHANGED <<environment, queue, open, newSocket, socket, pending, pulse, lost, faults>>

\* A slip: the thread returns and leaves the socket open.
CloseNot(c) ==
  /\ pc[c] = "close"
  /\ Goto(c, "done")
  /\ UNCHANGED <<environment, queue, open, newSocket, socket, exchange, pulse, lost, faults>>

Close(c) ==
  /\ pc[c] = "close"
  /\ CloseFd(socket[c])
  /\ Goto(c, "done")
  /\ UNCHANGED <<environment, queue, newSocket, socket, exchange, pulse, lost, faults>>

----------------------------------------------------------------------------
(* NameServerPulseHandler accepts one connection, whichever comes, and     *)
(* returns when accept fails: there are no pulses for this server then.    *)

\* A slip: the result of accept is not looked at.
AcceptPulseUnchecked ==
  /\ pulsePc = "accept"
  /\ Free = {}
  /\ pulseSocket' = Failed
  /\ pulsePc' = "beat"
  /\ UNCHANGED <<environment, queue, open, newSocket, thread, exchange, lost, faults>>

AcceptPulseFails ==
  /\ pulsePc = "accept"
  /\ \/ Free = {} /\ UNCHANGED queue
     \/ Free # {} /\ queue # <<>> /\ queue' = Tail(queue)
  /\ pulsePc' = "done"
  /\ UNCHANGED <<environment, open, newSocket, thread, exchange, pulseSocket, lost, faults>>

AcceptPulse ==
  /\ pulsePc = "accept"
  /\ queue # <<>> /\ Free # {}
  /\ queue' = Tail(queue)
  /\ open' = [open EXCEPT ![Lowest] = Head(queue)]
  /\ pulseSocket' = Lowest
  /\ pulsePc' = "beat"
  /\ faults' = IF Head(queue) = Pulse THEN faults ELSE faults \cup {"swapped"}
  /\ UNCHANGED <<environment, newSocket, thread, exchange, lost>>

(* No more pulses arrive (see Heartbeat).                                  *)
GiveUpPulse ==
  /\ pulsePc = "beat"
  /\ open[pulseSocket] # Pulse
  /\ CloseFd(pulseSocket)
  /\ pulsePc' = "done"
  /\ UNCHANGED <<environment, queue, newSocket, thread, exchange, pulseSocket, lost, faults>>

Handle(c) ==
  ReadSocket(c) \/ ReceiveRequest(c) \/ NoRequest(c) \/ Answer(c) \/ Close(c)

Busy(c) == pc[c] \in {"start", "serve", "work", "close"}

(* The loops wait for a connection, or for a descriptor. *)
Idle ==
  /\ queue = <<>> \/ Free = {}
  /\ ~ \E c \in Conns : Busy(c)
  /\ UNCHANGED vars

Next ==
  \/ \E c \in Conns : Arrive(c) \/ Handle(c)
  \/ Accept \/ AcceptFails \/ AcceptWithoutThread
  \/ AcceptPulse \/ AcceptPulseFails \/ GiveUpPulse
  \/ Idle

Spec == Init /\ [][Next]_vars

(* The threads are scheduled, and wait for a client for a bounded time.    *)
FairSpec ==
  /\ Spec
  /\ WF_vars(Accept \/ AcceptFails \/ AcceptWithoutThread)
  /\ WF_vars(GiveUpPulse)
  /\ \A c \in Conns : WF_vars(Handle(c))

----------------------------------------------------------------------------
(* Properties *)

TypeOK ==
  /\ loop \in Loops /\ arrived \subseteq Conns /\ queue \in Seq(Conns)
  /\ open \in [Fds -> Conns \cup {None}] /\ newSocket \in -1..MaxFds
  /\ pc \in [Conns -> Steps] /\ socket \in [Conns -> -1..MaxFds]
  /\ pending \subseteq Conns /\ answers \in [Conns -> SUBSET Conns]
  /\ pulsePc \in {"accept", "beat", "done"} /\ pulseSocket \in 0..MaxFds
  /\ lost \subseteq Conns /\ faults \subseteq Faults

\* Every thread had read the variable before the loop wrote it again.
ReadInTime == "overtaken" \notin faults /\ "emptied" \notin faults

\* Unless accept returned, a descriptor or its -1, before the last thread had
\* read its socket, a client is answered by the thread that was started for it
\* and by no other, although descriptors are handed out again as soon as they
\* are closed.
OwnAnswers ==
  ReadInTime =>
    \A c \in Conns :
      /\ answers[c] \subseteq {c}
      /\ pc[c] \in {"serve", "work", "close"} => open[socket[c]] = c

\* Every open descriptor has a thread that is going to close it, and one only,
\* unless a thread read its socket too late, could not be created, or left a
\* request it did not understand: nothing else uses the descriptors up.
DescriptorsOwned ==
  ReadInTime =>
    /\ \A f \in Fds : open[f] \in {None} \cup lost \/ Busy(open[f])
                        \/ (pulsePc = "beat" /\ pulseSocket = f)
    /\ \A c, d \in {x \in Conns : pc[x] \in {"serve", "work", "close"}} :
         socket[c] = socket[d] => c = d

\* Once the pulse thread has the connection for the pulses, no request thread
\* reads from it, answers on it or closes it, as long as each read its own
\* socket in time.
PulseKept ==
  (faults = {} /\ pulsePc = "beat") =>
    /\ open[pulseSocket] = Pulse
    /\ \A c \in Conns : pc[c] \in {"serve", "work", "close"} => socket[c] # pulseSocket

\* In the end every connection was closed: no client waits for ever for a
\* thread or an answer, even when the descriptors ran out on the way, unless a
\* thread read its socket too late or descriptors were lost.
EveryClientReleased ==
  <>[](\/ ~ ReadInTime \/ lost # {}
       \/ queue = <<>> /\ \A f \in Fds : open[f] \in {None, Pulse})
=============================================================================
