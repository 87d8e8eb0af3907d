------------------------------ MODULE Delivery ------------------------------
(***************************************************************************)
(* What a file transfer promises (file.c:286-374, client.c:187-265): the   *)
(* pieces of a file reach the other side in order and none is left out.    *)
(* A piece may come more than once.  FileTransfer is shown to implement    *)
(* this as long as certain hazards do not strike.                          *)
(***************************************************************************)
EXTENDS Naturals, Sequences, FiniteSetsExt, SequencesExt

VARIABLES
  size,                    \* the number of pieces of the file
  received,                \* the pieces written by the receiver so far
  complete                 \* the receiver has seen the end of the file

deliveryVars == <<size, received, complete>>

\* The last piece that has arrived.
Furthest == Max(ToSet(received) \cup {0})

DeliveryInit == size \in Nat /\ received = <<>> /\ complete = FALSE

(* A piece that is not beyond the next one. *)
Deliver ==
  /\ ~complete
  /\ \E i \in 1..Furthest + 1 : i <= size /\ received' = Append(received, i)
  /\ UNCHANGED <<size, complete>>

Complete ==
  /\ ~complete
  /\ Furthest = size
  /\ complete' = TRUE
  /\ UNCHANGED <<size, received>>

DeliveryNext == Deliver \/ Complete
=============================================================================
