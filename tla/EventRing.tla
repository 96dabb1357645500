----------------------------- MODULE EventRing -----------------------------
(***************************************************************************)
(* XhciEventRing of pci/usb/xhci/ring.rs: one segment of TRBs that the     *)
(* host controller fills and dequeue_events drains, with the cycle bit to  *)
(* tell fresh TRBs from old ones and the event ring dequeue pointer (ERDP) *)
(* to give slots back.  The controller runs between any two steps of the   *)
(* driver; a TRB is written, and read, as a whole.                         *)
(***************************************************************************)
EXTENDS Naturals, Sequences

CONSTANTS
  SegmentSize,  (* SEGMENT_SIZE.                                            *)
  BufferLens,   (* The values of buffer.len() in calls of dequeue_events.   *)
  MaxEvents     (* Bound on the events the controller posts.                *)

ASSUME SegmentSizeAssumption == SegmentSize \in Nat \ {0, 1}
ASSUME BufferLensAssumption == BufferLens \subseteq Nat
ASSUME MaxEventsAssumption == MaxEvents \in Nat

VARIABLES
  trbs,         (* The segment: the number of the event, and the cycle bit. *)
  enqueue_idx,  (* Where the controller writes next.                        *)
  producer,     (* The cycle bit it writes.                                 *)
  posted,       (* How many events it has written.                          *)
  erdp,         (* Its ERDP register, as an index.                          *)
  dequeue_idx,  (* Where the driver reads next.                             *)
  cycle_bit,    (* The cycle bit the driver expects.                        *)
  call,         (* Where dequeue_events is.                                 *)
  len,          (* buffer.len() of this call, or of the last one.           *)
  buffer,       (* What this call has stored; its length is idx.            *)
  delivered     (* What earlier calls returned.                             *)

controller == <<trbs, enqueue_idx, producer, posted>>
reader     == <<dequeue_idx, cycle_bit>>
vars       == <<controller, reader, erdp, call, len, buffer, delivered>>

Slots == 0 .. (SegmentSize - 1)

After(i) == (i + 1) % SegmentSize

TypeOK ==
  /\ trbs \in [Slots -> [event : 0 .. MaxEvents, cycle : BOOLEAN]]
  /\ enqueue_idx \in Slots /\ dequeue_idx \in Slots /\ erdp \in Slots
  /\ producer \in BOOLEAN /\ cycle_bit \in BOOLEAN
  /\ posted \in 0 .. MaxEvents
  /\ call \in {"none", "loop", "drained", "too_small"}
  /\ len \in BufferLens \cup {0}
  /\ buffer \in Seq(1 .. MaxEvents) /\ delivered \in Seq(1 .. MaxEvents)

-----------------------------------------------------------------------------
(* init_ring: zeroed TRBs, ERDP at the first one, cycle bit 1. *)
Init ==
  /\ trbs = [i \in Slots |-> [event |-> 0, cycle |-> FALSE]]
  /\ enqueue_idx = 0 /\ producer = TRUE /\ posted = 0
  /\ erdp = 0
  /\ dequeue_idx = 0 /\ cycle_bit = TRUE
  /\ call = "none" /\ len = 0 /\ buffer = <<>> /\ delivered = <<>>

(* The controller posts an event unless the ring is full: the slot before  *)
(* ERDP stays empty.  It starts with cycle bit 1 and toggles it when it    *)
(* wraps. *)
Post ==
  /\ posted < MaxEvents
  /\ After(enqueue_idx) # erdp
  /\ trbs' = [trbs EXCEPT ![enqueue_idx] = [event |-> posted + 1, cycle |-> producer]]
  /\ posted' = posted + 1
  /\ enqueue_idx' = After(enqueue_idx)
  /\ producer' = IF After(enqueue_idx) = 0 THEN ~producer ELSE producer
  /\ UNCHANGED <<reader, erdp, call, len, buffer, delivered>>

Call ==
  /\ call = "none"
  /\ call' = "loop"
  /\ len' \in BufferLens
  /\ buffer' = <<>>
  /\ UNCHANGED <<controller, reader, erdp, delivered>>

(***************************************************************************)
(* dequeue_trb, and what the loop of dequeue_events does with its result.  *)
(***************************************************************************)
Fresh == trbs[dequeue_idx].cycle = cycle_bit

(* Mutation of Advance: the wrap is one slot late.                         *)
AdvanceTooFar ==
  /\ dequeue_idx' = IF dequeue_idx = SegmentSize THEN 0 ELSE dequeue_idx + 1
  /\ cycle_bit' = IF dequeue_idx = SegmentSize THEN ~cycle_bit ELSE cycle_bit

(* Mutation of Advance: the cycle bit does not change at the wrap.         *)
AdvanceSameCycle ==
  /\ dequeue_idx' = IF dequeue_idx + 1 = SegmentSize THEN 0 ELSE dequeue_idx + 1
  /\ UNCHANGED cycle_bit

Advance ==
  /\ dequeue_idx' = IF dequeue_idx + 1 = SegmentSize THEN 0 ELSE dequeue_idx + 1
  /\ cycle_bit' = IF dequeue_idx + 1 = SegmentSize THEN ~cycle_bit ELSE cycle_bit

(* Mutation of Store: ERDP is written for every event.                     *)
StoreAndRelease ==
  /\ call = "loop" /\ Fresh
  /\ Len(buffer) < len
  /\ buffer' = Append(buffer, trbs[dequeue_idx].event)
  /\ Advance
  /\ erdp' = dequeue_idx'
  /\ UNCHANGED <<controller, call, len, delivered>>

Store ==
  /\ call = "loop" /\ Fresh
  /\ Len(buffer) < len
  /\ buffer' = Append(buffer, trbs[dequeue_idx].event)
  /\ Advance
  /\ UNCHANGED <<controller, erdp, call, len, delivered>>

(* The TRB that does not fit has been dequeued all the same. *)
Overrun ==
  /\ call = "loop" /\ Fresh
  /\ Len(buffer) >= len
  /\ call' = "too_small"
  /\ Advance
  /\ UNCHANGED <<controller, erdp, len, buffer, delivered>>

Drain ==
  /\ call = "loop" /\ ~Fresh
  /\ call' = "drained"
  /\ UNCHANGED <<controller, reader, erdp, len, buffer, delivered>>

(* Both returns: ERDP is written, the caller gets idx and the buffer. *)
ReturnReleasing(idx) ==
  /\ call \in {"drained", "too_small"}
  /\ erdp' = idx
  /\ call' = "none"
  /\ delivered' = delivered \o buffer
  /\ buffer' = <<>>
  /\ UNCHANGED <<controller, reader, len>>

(* Mutation of Return: ERDP is one slot ahead.                             *)
ReturnOneMore == ReturnReleasing(After(dequeue_idx))

Return == ReturnReleasing(dequeue_idx)

Next == Post \/ Call \/ Store \/ Overrun \/ Drain \/ Return

Spec == Init /\ [][Next]_vars
-----------------------------------------------------------------------------
(* The slots between the reader and the controller. *)
Unread == (enqueue_idx + SegmentSize - dequeue_idx) % SegmentSize

UnreadSlot(k) == (dequeue_idx + k) % SegmentSize

(* The cycle bit tells the driver exactly which slots hold an unread event,*)
(* over any number of laps of the two sides.                               *)
CycleMarksUnread ==
  \A k \in Slots :
    LET lap == IF dequeue_idx + k < SegmentSize THEN cycle_bit ELSE ~cycle_bit
    IN (trbs[UnreadSlot(k)].cycle = lap) <=> k < Unread

(* A buffer one shorter than the segment is never too small, although the  *)
(* controller posts while the call runs: ERDP is written at its end only,  *)
(* and the controller stays clear of it.                                   *)
SegmentFits == call = "too_small" => len < SegmentSize - 1

(* Events reach the callers in order, none of them twice, and the          *)
(* controller overwrites none that is unread.  One is lost only when the   *)
(* buffer of a call is full, and a call that loses none empties the ring.  *)
Pending == [k \in 1 .. Unread |-> trbs[UnreadSlot(k - 1)].event]

Room == IF call = "loop" THEN len - Len(buffer) ELSE 0

Queue == INSTANCE EventQueue
  WITH Capacity <- SegmentSize - 1, Rooms <- BufferLens,
       pending <- Pending, received <- delivered \o buffer,
       calling <- call = "loop", room <- Room

QueueSpec == Queue!Spec

(* The amounts that the calls returned add up to the events taken from the *)
(* ring ("returns the amount of events processed which have been           *)
(* enqueued", dequeue_events).                                             *)
AmountsAddUp == call = "none" => Len(delivered) + Unread = posted
=============================================================================
