----------------------------- MODULE EventQueue -----------------------------
(***************************************************************************)
(* What an event ring promises: events, numbered in the order of posting,  *)
(* are received in that order, none of them twice.  A call receives until  *)
(* the queue is empty or its buffer is full; the event that follows in a   *)
(* full buffer's call is lost, and no other.                               *)
(***************************************************************************)
EXTENDS Naturals, Sequences

CONSTANTS
  Capacity,  (* How many events wait at most.                              *)
  Rooms      (* How many events a caller's buffer may have room for.       *)

VARIABLES posted, pending, received, calling, room

queueVars == <<posted, pending, received, calling, room>>

Init ==
  /\ posted = 0 /\ pending = <<>> /\ received = <<>>
  /\ calling = FALSE /\ room = 0

Post ==
  /\ Len(pending) < Capacity
  /\ posted' = posted + 1
  /\ pending' = Append(pending, posted + 1)
  /\ UNCHANGED <<received, calling, room>>

Open ==
  /\ ~calling
  /\ calling' = TRUE
  /\ room' \in Rooms
  /\ UNCHANGED <<posted, pending, received>>

Receive ==
  /\ calling /\ room > 0
  /\ pending # <<>>
  /\ received' = Append(received, Head(pending))
  /\ pending' = Tail(pending)
  /\ room' = room - 1
  /\ UNCHANGED <<posted, calling>>

Drop ==
  /\ calling /\ room = 0
  /\ pending # <<>>
  /\ pending' = Tail(pending)
  /\ calling' = FALSE
  /\ UNCHANGED <<posted, received, room>>

Close ==
  /\ calling
  /\ pending = <<>>
  /\ calling' = FALSE /\ room' = 0
  /\ UNCHANGED <<posted, pending, received>>

Next == Post \/ Open \/ Receive \/ Drop \/ Close

Spec == Init /\ [][Next]_queueVars
=============================================================================
