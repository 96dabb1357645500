-------------------------- MODULE EventRingProofs --------------------------
(***************************************************************************)
(* Proofs about EventRing, for every segment size from two TRBs on and     *)
(* every number of events: its invariants, and that it implements          *)
(* EventQueue.                                                             *)
(***************************************************************************)
EXTENDS EventRing, SequenceTheorems, TLAPS

N == SegmentSize

(* Both sides are in the same lap, or the controller is one ahead.  ERDP   *)
(* lies behind the reader and ahead of the controller.                     *)
LapInv ==
  IF producer = cycle_bit
  THEN dequeue_idx <= enqueue_idx /\ (erdp <= dequeue_idx \/ erdp > enqueue_idx)
  ELSE enqueue_idx < erdp /\ erdp <= dequeue_idx

(* The slots written in the controller's lap carry its cycle bit, the      *)
(* others the opposite one.                                                *)
BitsInv == \A i \in Slots : trbs[i].cycle = producer <=> i < enqueue_idx

(* The last events posted, in the order of their numbers.                  *)
EventAt(i) ==
  IF i < enqueue_idx THEN posted - enqueue_idx + 1 + i
  ELSE IF posted = enqueue_idx THEN 0
  ELSE posted - enqueue_idx - N + 1 + i

EventsInv ==
  /\ posted = enqueue_idx \/ posted >= enqueue_idx + N
  /\ producer # cycle_bit => posted # enqueue_idx
  /\ \A i \in Slots : trbs[i].event = EventAt(i)

(* How far the reader is ahead of ERDP.                                    *)
Ahead ==
  IF erdp <= dequeue_idx THEN dequeue_idx - erdp ELSE dequeue_idx - erdp + N

(* A call has stored what lies between ERDP and the reader.                *)
CallInv ==
  /\ call = "none" => erdp = dequeue_idx /\ buffer = <<>>
  /\ call = "loop" => Len(buffer) = Ahead /\ Len(buffer) <= len
  /\ SegmentFits

IInv == TypeOK /\ LapInv /\ BitsInv /\ EventsInv /\ CallInv

-----------------------------------------------------------------------------
(* The arithmetic of the ring, without the modulus.                        *)

(* The remainder of a number less than twice the divisor.                  *)
LEMMA ModOnce ==
  ASSUME NEW n \in Nat \ {0}, NEW x \in Nat, x < 2 * n
  PROVE  x % n = IF x < n THEN x ELSE x - n
<1> DEFINE q == x \div n
           m == x % n
<1>1. x = n * q + m /\ m \in 0..(n - 1) /\ q \in Int
  OBVIOUS
<1> HIDE DEF q, m
<1>2. q < 2
  <2>1. SUFFICES ASSUME q >= 2 PROVE FALSE
    BY <1>1
  <2>2. n * q >= 2 * n
    BY <1>1, <2>1
  <2> QED
    BY <1>1, <2>2
<1>3. q > -1
  <2>1. SUFFICES ASSUME q <= -1 PROVE FALSE
    BY <1>1
  <2>2. n * q <= -n
    BY <1>1, <2>1
  <2> QED
    BY <1>1, <2>2
<1>4. CASE q = 0
  BY <1>1, <1>4 DEF m
<1>5. CASE q = 1
  BY <1>1, <1>5 DEF m
<1> QED
  BY <1>1, <1>2, <1>3, <1>4, <1>5

(* The size of the segment and its slots.                                  *)
LEMMA SizeIs == N \in Nat /\ N >= 2 /\ Slots = 0..(N - 1) /\ SegmentSize = N
BY SegmentSizeAssumption DEF N, Slots

(* The remainder by the segment size.                                      *)
WrapsOnce(x) == x % N = IF x < N THEN x ELSE x - N

LEMMA Wraps == \A x \in 0..(2 * N - 1) : WrapsOnce(x)
<1> SUFFICES ASSUME NEW x \in 0..(2 * N - 1) PROVE WrapsOnce(x)
  OBVIOUS
<1>1. N \in Nat \ {0} /\ x \in Nat /\ x < 2 * N
  BY SizeIs
<1> QED
  BY <1>1, ModOnce DEF WrapsOnce

(* The slot after a slot.                                                  *)
LEMMA AfterIs ==
  ASSUME NEW i \in Slots
  PROVE  After(i) = (IF i + 1 = N THEN 0 ELSE i + 1) /\ After(i) \in Slots
<1>1. i + 1 \in 0..(2 * N - 1) /\ i + 1 <= N /\ i \in Nat
  BY SizeIs
<1>2. WrapsOnce(i + 1)
  BY <1>1, Wraps
<1> QED
  BY <1>1, <1>2, SizeIs DEF After, WrapsOnce

(* The slot k places on from a slot.                                       *)
LEMMA PlaceIs ==
  ASSUME NEW i \in Slots, NEW k \in Slots
  PROVE  /\ (i + k) % N = IF i + k < N THEN i + k ELSE i + k - N
         /\ (i + k) % N \in Slots
<1>1. i + k \in 0..(2 * N - 1) /\ i \in Nat /\ k \in Nat
  BY SizeIs
<1>2. WrapsOnce(i + k)
  BY <1>1, Wraps
<1> QED
  BY <1>1, <1>2, SizeIs DEF WrapsOnce

(* How far one slot is ahead of another.                                   *)
LEMMA DistanceIs ==
  ASSUME NEW i \in Slots, NEW j \in Slots
  PROVE  (i + N - j) % N = IF j <= i THEN i - j ELSE i - j + N
<1>1. i + N - j \in 0..(2 * N - 1) /\ i \in Nat /\ j \in Nat
  BY SizeIs
<1>2. WrapsOnce(i + N - j)
  BY <1>1, Wraps
<1> QED
  BY <1>1, <1>2, SizeIs DEF WrapsOnce

(* A truth value that is another one's opposite.                           *)
LEMMA Opposite ==
  ASSUME NEW a \in BOOLEAN, NEW b \in BOOLEAN
  PROVE  (a = ~b) <=> (a # b)
OBVIOUS

LEMMA OppositeIs ==
  ASSUME NEW b \in BOOLEAN
  PROVE  (~b) \in BOOLEAN /\ (~b) # b
OBVIOUS
-----------------------------------------------------------------------------
(* The invariant holds at the start and is kept by every step.             *)

TrbStates == [event : 0 .. MaxEvents, cycle : BOOLEAN]

(* The numbers of the ring.                                                *)
LEMMA RingState ==
  ASSUME TypeOK
  PROVE  /\ enqueue_idx \in 0..(N - 1) /\ dequeue_idx \in 0..(N - 1) /\ erdp \in 0..(N - 1)
         /\ posted \in 0..MaxEvents /\ MaxEvents \in Nat /\ N \in Nat /\ N >= 2
         /\ Slots = 0..(N - 1) /\ trbs \in [Slots -> TrbStates]
         /\ producer \in BOOLEAN /\ cycle_bit \in BOOLEAN
BY SizeIs, MaxEventsAssumption DEF TypeOK, TrbStates

(* An empty ring satisfies the invariant.                                  *)
LEMMA InitIInv == Init => IInv
<1> SUFFICES ASSUME Init PROVE IInv
  OBVIOUS
<1>1. N \in Nat /\ N >= 2 /\ Slots = 0..(N - 1) /\ MaxEvents \in Nat
  BY SizeIs, MaxEventsAssumption
<1>2. trbs \in [Slots -> TrbStates]
  BY <1>1 DEF Init, TrbStates
<1>3. TypeOK
  <2>1. <<>> \in Seq(1 .. MaxEvents)
    BY EmptySeq
  <2>2. 0 \in Slots /\ 0 \in 0..MaxEvents
    BY <1>1
  <2> QED
    BY <1>2, <2>1, <2>2 DEF Init, TypeOK, TrbStates
<1>4. LapInv /\ BitsInv /\ EventsInv
  <2>1. \A i \in Slots : trbs[i].event = 0 /\ trbs[i].cycle = FALSE
    BY DEF Init
  <2>2. LapInv
    BY DEF Init, LapInv
  <2>3. BitsInv
    <3>1. SUFFICES ASSUME NEW i \in Slots
                   PROVE  trbs[i].cycle # producer /\ ~(i < enqueue_idx)
      BY DEF BitsInv
    <3>2. trbs[i].cycle = FALSE /\ producer = TRUE
      BY <2>1 DEF Init
    <3>3. ~(i < enqueue_idx)
      BY <1>1 DEF Init
    <3> QED
      BY <3>2, <3>3
  <2>4. EventsInv
    BY <1>1, <2>1 DEF Init, EventsInv, EventAt
  <2> QED
    BY <2>2, <2>3, <2>4
<1>5. CallInv
  BY DEF Init, CallInv, SegmentFits
<1> QED
  BY <1>3, <1>4, <1>5 DEF IInv

(* The controller's write.                                                 *)
LEMMA PostKeepsIInv ==
  ASSUME IInv, Post
  PROVE  IInv'
<1>1. TypeOK /\ LapInv /\ BitsInv /\ EventsInv /\ CallInv
  BY DEF IInv
<1>2. /\ enqueue_idx \in 0..(N - 1) /\ dequeue_idx \in 0..(N - 1) /\ erdp \in 0..(N - 1)
      /\ posted \in 0..MaxEvents /\ MaxEvents \in Nat /\ N \in Nat /\ N >= 2
      /\ Slots = 0..(N - 1) /\ trbs \in [Slots -> TrbStates]
      /\ producer \in BOOLEAN /\ cycle_bit \in BOOLEAN
  BY <1>1, RingState
<1>3. /\ dequeue_idx' = dequeue_idx /\ cycle_bit' = cycle_bit /\ erdp' = erdp
      /\ call' = call /\ len' = len /\ buffer' = buffer /\ delivered' = delivered
      /\ posted' = posted + 1 /\ posted < MaxEvents
  BY DEF Post, reader
<1>4. /\ After(enqueue_idx) = (IF enqueue_idx + 1 = N THEN 0 ELSE enqueue_idx + 1)
      /\ After(enqueue_idx) \in Slots /\ enqueue_idx' = After(enqueue_idx)
      /\ enqueue_idx' # erdp
  BY <1>2, AfterIs DEF Post
<1> DEFINE new == [event |-> posted + 1, cycle |-> producer]
<1>5. new \in TrbStates /\ new.event = posted + 1 /\ new.cycle = producer
  BY <1>2, <1>3 DEF TrbStates
<1>6. trbs' = [trbs EXCEPT ![enqueue_idx] = new]
  BY DEF Post
<1> HIDE DEF new
<1>7. /\ trbs' \in [Slots -> TrbStates]
      /\ \A i \in Slots : trbs'[i] = IF i = enqueue_idx THEN new ELSE trbs[i]
  BY <1>2, <1>5, <1>6
<1>8. producer' \in BOOLEAN
  BY <1>2, OppositeIs DEF Post
<1>9. TypeOK'
  <2>1. trbs' \in [Slots -> [event : 0 .. MaxEvents, cycle : BOOLEAN]]
    BY <1>7 DEF TrbStates
  <2>2. enqueue_idx' \in Slots /\ dequeue_idx' \in Slots /\ erdp' \in Slots
    BY <1>2, <1>3, <1>4
  <2>3. producer' \in BOOLEAN /\ cycle_bit' \in BOOLEAN
    BY <1>2, <1>3, <1>8
  <2>4. posted' \in 0 .. MaxEvents
    BY <1>2, <1>3
  <2>5. /\ call' \in {"none", "loop", "drained", "too_small"}
        /\ len' \in BufferLens \cup {0}
        /\ buffer' \in Seq(1 .. MaxEvents) /\ delivered' \in Seq(1 .. MaxEvents)
    BY <1>1, <1>3 DEF TypeOK
  <2> QED
    BY <2>1, <2>2, <2>3, <2>4, <2>5 DEF TypeOK
<1>10. CallInv'
  BY <1>1, <1>3 DEF CallInv, SegmentFits, Ahead
<1>11. CASE enqueue_idx + 1 # N
  <2>1. enqueue_idx' = enqueue_idx + 1 /\ producer' = producer
    BY <1>2, <1>4, <1>11 DEF Post
  <2>2. LapInv'
    BY <1>1, <1>2, <1>3, <1>4, <2>1 DEF LapInv
  <2>3. BitsInv'
    <3>1. SUFFICES ASSUME NEW i \in Slots
                   PROVE  trbs'[i].cycle = producer <=> i < enqueue_idx + 1
      BY <2>1 DEF BitsInv
    <3>2. trbs[i].cycle = producer <=> i < enqueue_idx
      BY <1>1 DEF BitsInv
    <3> QED
      BY <1>2, <1>5, <1>7, <3>2
  <2>4. EventsInv'
    <3>1. posted' = enqueue_idx' \/ posted' >= enqueue_idx' + N
      BY <1>1, <1>2, <1>3, <2>1 DEF EventsInv
    <3>2. producer' # cycle_bit' => posted' # enqueue_idx'
      BY <1>1, <1>2, <1>3, <2>1 DEF EventsInv
    <3>3. \A i \in Slots : trbs'[i].event = EventAt(i)'
      <4>1. SUFFICES ASSUME NEW i \in Slots PROVE trbs'[i].event = EventAt(i)'
        OBVIOUS
      <4>2. trbs[i].event = EventAt(i)
        BY <1>1 DEF EventsInv
      <4> QED
        BY <1>2, <1>3, <1>5, <1>7, <2>1, <4>2 DEF EventAt
    <3> QED
      BY <3>1, <3>2, <3>3 DEF EventsInv
  <2> QED
    BY <1>9, <1>10, <2>2, <2>3, <2>4 DEF IInv
<1>12. CASE enqueue_idx + 1 = N
  <2>1. enqueue_idx' = 0 /\ producer' = ~producer /\ producer' # producer
    BY <1>2, <1>4, <1>12, OppositeIs DEF Post
  <2>2. producer = cycle_bit /\ erdp <= dequeue_idx
    BY <1>1, <1>2, <1>12 DEF LapInv
  <2>3. LapInv'
    BY <1>2, <1>3, <1>4, <2>1, <2>2 DEF LapInv
  <2>4. BitsInv'
    <3>1. SUFFICES ASSUME NEW i \in Slots
                   PROVE  trbs'[i].cycle # producer' /\ ~(i < 0)
      BY <2>1 DEF BitsInv
    <3>2. trbs[i].cycle = producer <=> i < enqueue_idx
      BY <1>1 DEF BitsInv
    <3>3. trbs'[i].cycle = producer
      BY <1>2, <1>5, <1>7, <1>12, <3>2
    <3> QED
      BY <1>2, <2>1, <3>3
  <2>5. EventsInv'
    <3>1. posted' >= enqueue_idx' + N /\ posted' # enqueue_idx'
      BY <1>1, <1>2, <1>3, <1>12, <2>1 DEF EventsInv
    <3>2. \A i \in Slots : trbs'[i].event = EventAt(i)'
      <4>1. SUFFICES ASSUME NEW i \in Slots PROVE trbs'[i].event = EventAt(i)'
        OBVIOUS
      <4>2. trbs[i].event = EventAt(i)
        BY <1>1 DEF EventsInv
      <4> QED
        BY <1>2, <1>3, <1>5, <1>7, <1>12, <2>1, <4>2 DEF EventAt
    <3> QED
      BY <3>1, <3>2 DEF EventsInv
  <2> QED
    BY <1>9, <1>10, <2>3, <2>4, <2>5 DEF IInv
<1> QED
  BY <1>11, <1>12

(* An unread TRB: it is of the reader's lap, and carries an event.         *)
LEMMA FreshIs ==
  ASSUME IInv, Fresh
  PROVE  /\ producer = cycle_bit => dequeue_idx < enqueue_idx
         /\ trbs[dequeue_idx].event \in 1 .. MaxEvents
<1>1. TypeOK /\ LapInv /\ BitsInv /\ EventsInv
  BY DEF IInv
<1>2. /\ enqueue_idx \in 0..(N - 1) /\ dequeue_idx \in 0..(N - 1) /\ dequeue_idx \in Slots
      /\ posted \in 0..MaxEvents /\ MaxEvents \in Nat /\ N \in Nat /\ N >= 2
  BY <1>1, RingState
<1>3. trbs[dequeue_idx].cycle = cycle_bit
  BY DEF Fresh
<1>4. trbs[dequeue_idx].cycle = producer <=> dequeue_idx < enqueue_idx
  BY <1>1, <1>2 DEF BitsInv
<1>5. producer = cycle_bit => dequeue_idx < enqueue_idx
  BY <1>3, <1>4
<1>6. producer # cycle_bit => ~(dequeue_idx < enqueue_idx) /\ posted # enqueue_idx
  BY <1>1, <1>3, <1>4 DEF EventsInv
<1>7. trbs[dequeue_idx].event = EventAt(dequeue_idx)
  BY <1>1, <1>2 DEF EventsInv
<1>8. posted = enqueue_idx \/ posted >= enqueue_idx + N
  BY <1>1 DEF EventsInv
<1>9. EventAt(dequeue_idx) \in 1 .. MaxEvents
  <2>1. CASE dequeue_idx < enqueue_idx
    BY <1>2, <1>8, <2>1 DEF EventAt
  <2>2. CASE ~(dequeue_idx < enqueue_idx)
    BY <1>2, <1>5, <1>6, <1>8, <2>2 DEF EventAt
  <2> QED
    BY <2>1, <2>2
<1> QED
  BY <1>5, <1>7, <1>9

(* The reader's step, while ERDP stays: it comes no closer to ERDP from    *)
(* behind, and one slot further from it.                                   *)
LEMMA AdvanceKeeps ==
  ASSUME IInv, Fresh, Advance, UNCHANGED <<controller, erdp>>
  PROVE  /\ dequeue_idx' \in Slots /\ cycle_bit' \in BOOLEAN
         /\ LapInv' /\ BitsInv' /\ EventsInv'
         /\ Ahead' = Ahead + 1 /\ Ahead < N - 1
<1>1. TypeOK /\ LapInv /\ BitsInv /\ EventsInv
  BY DEF IInv
<1>2. /\ enqueue_idx \in 0..(N - 1) /\ dequeue_idx \in 0..(N - 1) /\ erdp \in 0..(N - 1)
      /\ posted \in 0..MaxEvents /\ MaxEvents \in Nat /\ N \in Nat /\ N >= 2
      /\ Slots = 0..(N - 1) /\ SegmentSize = N
      /\ producer \in BOOLEAN /\ cycle_bit \in BOOLEAN
  BY <1>1, RingState, SizeIs
<1>3. /\ trbs' = trbs /\ enqueue_idx' = enqueue_idx /\ producer' = producer
      /\ posted' = posted /\ erdp' = erdp
  BY DEF controller
<1>4. producer = cycle_bit => dequeue_idx < enqueue_idx
  BY FreshIs
<1>5. BitsInv'
  BY <1>1, <1>3 DEF BitsInv
<1>6. \A i \in Slots : trbs'[i].event = EventAt(i)'
  BY <1>1, <1>3 DEF EventsInv, EventAt
<1>7. CASE dequeue_idx + 1 # N
  <2>1. dequeue_idx' = dequeue_idx + 1 /\ cycle_bit' = cycle_bit
    BY <1>2, <1>7 DEF Advance
  <2>2. LapInv'
    BY <1>1, <1>2, <1>3, <1>4, <2>1 DEF LapInv
  <2>3. EventsInv'
    BY <1>1, <1>3, <1>6, <2>1 DEF EventsInv
  <2>4. erdp <= dequeue_idx \/ erdp > dequeue_idx + 1
    BY <1>1, <1>2, <1>4 DEF LapInv
  <2>5. erdp <= dequeue_idx => dequeue_idx - erdp < N - 1
    BY <1>2, <1>7
  <2>6. Ahead' = Ahead + 1 /\ Ahead < N - 1
    BY <1>2, <1>3, <2>1, <2>4, <2>5 DEF Ahead
  <2> QED
    BY <1>2, <1>5, <1>7, <2>1, <2>2, <2>3, <2>6
<1>8. CASE dequeue_idx + 1 = N
  <2>1. dequeue_idx' = 0 /\ cycle_bit' = ~cycle_bit /\ cycle_bit' \in BOOLEAN
    BY <1>2, <1>8, OppositeIs DEF Advance
  <2>2. producer # cycle_bit
    BY <1>2, <1>4, <1>8
  <2>3. producer = cycle_bit'
    BY <1>2, <2>1, <2>2, Opposite
  <2>4. enqueue_idx < erdp /\ erdp <= dequeue_idx
    BY <1>1, <2>2 DEF LapInv
  <2>5. LapInv'
    BY <1>2, <1>3, <2>1, <2>3, <2>4 DEF LapInv
  <2>6. EventsInv'
    BY <1>1, <1>3, <1>6, <2>3 DEF EventsInv
  <2>7. erdp > 0
    BY <1>2, <2>4
  <2>8. Ahead = N - 1 - erdp /\ Ahead' = N - erdp
    BY <1>2, <1>3, <1>8, <2>1, <2>4, <2>7 DEF Ahead
  <2>9. 0 \in Slots
    BY <1>2
  <2> QED
    BY <1>2, <1>5, <2>1, <2>5, <2>6, <2>7, <2>8, <2>9
<1> QED
  BY <1>7, <1>8

(* What is left to show of a step of the driver.                           *)
LEMMA DriverStep ==
  ASSUME IInv, UNCHANGED controller, dequeue_idx' \in Slots, cycle_bit' \in BOOLEAN,
         erdp' \in Slots, LapInv', BitsInv', EventsInv', CallInv',
         call' \in {"none", "loop", "drained", "too_small"}, len' \in BufferLens \cup {0},
         buffer' \in Seq(1 .. MaxEvents), delivered' \in Seq(1 .. MaxEvents)
  PROVE  IInv'
<1>1. /\ trbs' = trbs /\ enqueue_idx' = enqueue_idx /\ producer' = producer
      /\ posted' = posted
  BY DEF controller
<1>2. /\ trbs' \in [Slots -> [event : 0 .. MaxEvents, cycle : BOOLEAN]]
      /\ enqueue_idx' \in Slots /\ posted' \in 0 .. MaxEvents
  BY <1>1 DEF IInv, TypeOK
<1>3. producer' \in BOOLEAN
  BY <1>1 DEF IInv, TypeOK
<1>4. TypeOK'
  BY <1>2, <1>3 DEF TypeOK
<1> QED
  BY <1>4 DEF IInv

(* What an invariant ring has, for a step of the driver.                   *)
LEMMA DriverState ==
  ASSUME IInv
  PROVE  /\ dequeue_idx \in Slots /\ cycle_bit \in BOOLEAN /\ erdp \in Slots
         /\ len \in BufferLens \cup {0} /\ len \in Nat
         /\ buffer \in Seq(1 .. MaxEvents) /\ delivered \in Seq(1 .. MaxEvents)
<1>1. TypeOK
  BY DEF IInv
<1>2. len \in BufferLens \cup {0}
  BY <1>1 DEF TypeOK
<1>3. len \in Nat
  BY <1>2, BufferLensAssumption
<1> QED
  BY <1>1, <1>2, <1>3 DEF TypeOK

(* A step that moves neither side keeps what is between them.              *)
LEMMA RingStays ==
  ASSUME IInv, UNCHANGED <<controller, reader, erdp>>
  PROVE  LapInv' /\ BitsInv' /\ EventsInv' /\ Ahead' = Ahead
<1>1. /\ trbs' = trbs /\ enqueue_idx' = enqueue_idx /\ producer' = producer
      /\ posted' = posted /\ dequeue_idx' = dequeue_idx /\ cycle_bit' = cycle_bit
      /\ erdp' = erdp
  BY DEF controller, reader
<1> QED
  BY <1>1 DEF IInv, LapInv, BitsInv, EventsInv, EventAt, Ahead

(* A call begins with nothing stored and ERDP at the reader.               *)
LEMMA CallKeepsIInv ==
  ASSUME IInv, Call
  PROVE  IInv'
<1>1. /\ call = "none" /\ call' = "loop" /\ len' \in BufferLens /\ buffer' = <<>>
      /\ delivered' = delivered /\ dequeue_idx' = dequeue_idx /\ cycle_bit' = cycle_bit
      /\ erdp' = erdp /\ UNCHANGED <<controller, reader, erdp>> /\ UNCHANGED controller
  BY DEF Call, reader
<1>2. Ahead' = 0
  BY <1>1, RingStays, DriverState, SizeIs DEF IInv, CallInv, Ahead
<1>3. len' \in Nat /\ Len(buffer') = 0
  BY <1>1, BufferLensAssumption, EmptySeq
<1>4. CallInv'
  BY <1>1, <1>2, <1>3 DEF CallInv, SegmentFits
<1>5. <<>> \in Seq(1 .. MaxEvents)
  BY EmptySeq
<1> QED
  BY <1>1, <1>4, <1>5, RingStays, DriverState, DriverStep

(* An event is stored.                                                     *)
LEMMA StoreKeepsIInv ==
  ASSUME IInv, Store
  PROVE  IInv'
<1>1. /\ call = "loop" /\ call' = "loop" /\ Fresh /\ Advance /\ Len(buffer) < len
      /\ buffer' = Append(buffer, trbs[dequeue_idx].event)
      /\ delivered' = delivered /\ len' = len /\ erdp' = erdp
      /\ UNCHANGED <<controller, erdp>> /\ UNCHANGED controller
  BY DEF Store
<1>2. trbs[dequeue_idx].event \in 1 .. MaxEvents
  BY <1>1, FreshIs
<1>3. buffer' \in Seq(1 .. MaxEvents) /\ Len(buffer') = Len(buffer) + 1
  BY <1>1, <1>2, DriverState, AppendProperties
<1>4. Ahead' = Ahead + 1 /\ Len(buffer) = Ahead /\ Len(buffer) \in Nat
  BY <1>1, AdvanceKeeps, DriverState, LenProperties DEF IInv, CallInv
<1>5. CallInv'
  BY <1>1, <1>3, <1>4, DriverState DEF CallInv, SegmentFits
<1> QED
  BY <1>1, <1>3, <1>5, AdvanceKeeps, DriverState, DriverStep

(* An event does not fit: there are more of them than a buffer of the      *)
(* segment's size but one would have held.                                 *)
LEMMA OverrunKeepsIInv ==
  ASSUME IInv, Overrun
  PROVE  IInv'
<1>1. /\ call = "loop" /\ call' = "too_small" /\ Fresh /\ Advance /\ Len(buffer) >= len
      /\ buffer' = buffer /\ delivered' = delivered /\ len' = len /\ erdp' = erdp
      /\ UNCHANGED <<controller, erdp>> /\ UNCHANGED controller
  BY DEF Overrun
<1>2. Ahead < N - 1 /\ Len(buffer) = Ahead
  BY <1>1, AdvanceKeeps DEF IInv, CallInv
<1>3. Len(buffer) \in Nat
  BY DriverState, LenProperties
<1>4. CallInv'
  BY <1>1, <1>2, <1>3, DriverState, SizeIs DEF CallInv, SegmentFits
<1> QED
  BY <1>1, <1>4, AdvanceKeeps, DriverState, DriverStep

(* There is nothing more to read.                                          *)
LEMMA DrainKeepsIInv ==
  ASSUME IInv, Drain
  PROVE  IInv'
<1>1. /\ call' = "drained" /\ buffer' = buffer /\ delivered' = delivered /\ len' = len
      /\ dequeue_idx' = dequeue_idx /\ cycle_bit' = cycle_bit /\ erdp' = erdp
      /\ UNCHANGED <<controller, reader, erdp>> /\ UNCHANGED controller
  BY DEF Drain, reader
<1>2. CallInv'
  BY <1>1 DEF CallInv, SegmentFits
<1> QED
  BY <1>1, <1>2, RingStays, DriverState, DriverStep

(* The call returns and gives its slots back.                              *)
LEMMA ReturnKeepsIInv ==
  ASSUME IInv, Return
  PROVE  IInv'
<1>1. /\ call' = "none" /\ erdp' = dequeue_idx /\ buffer' = <<>> /\ len' = len
      /\ delivered' = delivered \o buffer /\ dequeue_idx' = dequeue_idx
      /\ cycle_bit' = cycle_bit /\ UNCHANGED controller
  BY DEF Return, ReturnReleasing, reader
<1>2. /\ trbs' = trbs /\ enqueue_idx' = enqueue_idx /\ producer' = producer
      /\ posted' = posted
  BY <1>1 DEF controller
<1>3. /\ dequeue_idx \in 0..(N - 1) /\ enqueue_idx \in 0..(N - 1) /\ erdp \in 0..(N - 1)
      /\ N \in Nat
  BY RingState DEF IInv
<1>4. LapInv'
  BY <1>1, <1>2, <1>3 DEF IInv, LapInv
<1>5. BitsInv' /\ EventsInv'
  BY <1>1, <1>2 DEF IInv, BitsInv, EventsInv, EventAt
<1>6. CallInv'
  BY <1>1 DEF CallInv, SegmentFits
<1>7. delivered' \in Seq(1 .. MaxEvents) /\ buffer' \in Seq(1 .. MaxEvents)
  BY <1>1, DriverState, ConcatProperties, EmptySeq
<1> QED
  BY <1>1, <1>4, <1>5, <1>6, <1>7, DriverState, DriverStep

LEMMA NextIInv == IInv /\ [Next]_vars => IInv'
<1> SUFFICES ASSUME IInv, [Next]_vars PROVE IInv'
  OBVIOUS
<1>1. CASE Next
  BY <1>1, PostKeepsIInv, CallKeepsIInv, StoreKeepsIInv, OverrunKeepsIInv,
     DrainKeepsIInv, ReturnKeepsIInv DEF Next
<1>2. CASE UNCHANGED vars
  <2>1. /\ UNCHANGED <<controller, reader, erdp>> /\ UNCHANGED controller
        /\ dequeue_idx' = dequeue_idx /\ cycle_bit' = cycle_bit /\ erdp' = erdp
        /\ call' = call /\ buffer' = buffer /\ delivered' = delivered /\ len' = len
    BY <1>2 DEF vars, reader
  <2>2. CallInv'
    BY <2>1, RingStays DEF IInv, CallInv, SegmentFits
  <2>3. call' \in {"none", "loop", "drained", "too_small"}
    BY <2>1 DEF IInv, TypeOK
  <2> QED
    BY <2>1, <2>2, <2>3, RingStays, DriverState, DriverStep
<1> QED
  BY <1>1, <1>2

-----------------------------------------------------------------------------
(* The invariants of the run.                                              *)

(* The invariant holds in every reachable state (ring.rs:83-210).          *)
THEOREM Invariance == Spec => []IInv
<1>1. Init => IInv
  BY InitIInv
<1>2. IInv /\ [Next]_vars => IInv'
  BY NextIInv
<1> QED
  BY <1>1, <1>2, PTL DEF Spec

(* Indices stay in the segment.                                            *)
THEOREM TypeCorrectness == Spec => []TypeOK
<1>1. IInv => TypeOK
  BY DEF IInv
<1> QED
  BY <1>1, Invariance, PTL

(* The number of unread events, without the modulus.                       *)
LEMMA UnreadIs ==
  ASSUME IInv
  PROVE  /\ Unread = IF producer = cycle_bit THEN enqueue_idx - dequeue_idx
                     ELSE enqueue_idx - dequeue_idx + N
         /\ Unread \in 0..(N - 1)
<1>1. /\ enqueue_idx \in 0..(N - 1) /\ dequeue_idx \in 0..(N - 1) /\ N \in Nat
      /\ Slots = 0..(N - 1) /\ LapInv /\ erdp \in 0..(N - 1)
  BY RingState DEF IInv
<1>2. Unread = IF dequeue_idx <= enqueue_idx THEN enqueue_idx - dequeue_idx
               ELSE enqueue_idx - dequeue_idx + N
  BY <1>1, DistanceIs DEF Unread, N
<1>3. producer = cycle_bit => dequeue_idx <= enqueue_idx
  BY <1>1 DEF LapInv
<1>4. producer # cycle_bit => enqueue_idx < dequeue_idx
  BY <1>1 DEF LapInv
<1> QED
  BY <1>1, <1>2, <1>3, <1>4

(* The slot k places ahead of the reader.                                  *)
LEMMA UnreadSlotIs ==
  ASSUME TypeOK, NEW k \in Slots
  PROVE  /\ UnreadSlot(k) = IF dequeue_idx + k < N THEN dequeue_idx + k
                            ELSE dequeue_idx + k - N
         /\ UnreadSlot(k) \in Slots
BY RingState, PlaceIs DEF UnreadSlot, N

(* In an invariant ring the bits mark the unread slots.                    *)
LEMMA BitsMarkUnread == IInv => CycleMarksUnread
<1> SUFFICES ASSUME IInv, NEW k \in Slots
             PROVE  (trbs[UnreadSlot(k)].cycle =
                       IF dequeue_idx + k < SegmentSize THEN cycle_bit ELSE ~cycle_bit)
                    <=> k < Unread
  BY DEF CycleMarksUnread
<1> DEFINE j == UnreadSlot(k)
<1>1. /\ enqueue_idx \in 0..(N - 1) /\ dequeue_idx \in 0..(N - 1) /\ N \in Nat
      /\ Slots = 0..(N - 1) /\ producer \in BOOLEAN /\ cycle_bit \in BOOLEAN
      /\ trbs \in [Slots -> TrbStates] /\ SegmentSize = N /\ LapInv /\ erdp \in 0..(N - 1)
  BY RingState, SizeIs DEF IInv
<1>2. /\ j = IF dequeue_idx + k < N THEN dequeue_idx + k ELSE dequeue_idx + k - N
      /\ j \in Slots
  BY UnreadSlotIs DEF IInv
<1> HIDE DEF j
<1>3. trbs[j].cycle = producer <=> j < enqueue_idx
  BY <1>2 DEF IInv, BitsInv
<1>4. trbs[j].cycle \in BOOLEAN
  BY <1>1, <1>2 DEF TrbStates
<1>5. Unread = IF producer = cycle_bit THEN enqueue_idx - dequeue_idx
               ELSE enqueue_idx - dequeue_idx + N
  BY UnreadIs
<1>6. trbs[j].cycle = ~cycle_bit <=> trbs[j].cycle # cycle_bit
  BY <1>1, <1>4, Opposite
<1>7. producer = cycle_bit => dequeue_idx <= enqueue_idx
  BY <1>1 DEF LapInv
<1>8. producer # cycle_bit => enqueue_idx < dequeue_idx
  BY <1>1 DEF LapInv
<1>9. CASE producer = cycle_bit
  <2>1. CASE dequeue_idx + k < N
    BY <1>1, <1>2, <1>3, <1>5, <1>9, <2>1 DEF j
  <2>2. CASE ~(dequeue_idx + k < N)
    <3>1. j < enqueue_idx /\ ~(k < Unread)
      BY <1>1, <1>2, <1>5, <1>7, <1>9, <2>2
    <3> QED
      BY <1>1, <1>3, <1>6, <1>9, <2>2, <3>1 DEF j
  <2> QED
    BY <2>1, <2>2
<1>10. CASE producer # cycle_bit
  <2>1. trbs[j].cycle = cycle_bit <=> trbs[j].cycle # producer
    BY <1>1, <1>4, <1>10
  <2>2. CASE dequeue_idx + k < N
    <3>1. ~(j < enqueue_idx) /\ k < Unread
      BY <1>1, <1>2, <1>5, <1>8, <1>10, <2>2
    <3> QED
      BY <1>1, <1>3, <2>1, <2>2, <3>1 DEF j
  <2>3. CASE ~(dequeue_idx + k < N)
    <3>1. j < enqueue_idx <=> k < Unread
      BY <1>1, <1>2, <1>5, <1>10, <2>3
    <3> QED
      BY <1>1, <1>3, <1>6, <2>1, <2>3, <3>1 DEF j
  <2> QED
    BY <2>2, <2>3
<1> QED
  BY <1>9, <1>10

(* The cycle bits tell the reader exactly what is unread, for every size   *)
(* of the segment and over any number of laps (ring.rs:160-185).           *)
THEOREM CycleBitsMarkUnread == Spec => []CycleMarksUnread
BY BitsMarkUnread, Invariance, PTL

(* The reader sees nothing fresh only when nothing is unread.              *)
LEMMA StaleIsEmpty ==
  ASSUME IInv, ~Fresh
  PROVE  Unread = 0
<1>1. /\ dequeue_idx \in 0..(N - 1) /\ N \in Nat /\ Slots = 0..(N - 1) /\ SegmentSize = N
  BY RingState, SizeIs DEF IInv
<1>2. 0 \in Slots /\ dequeue_idx + 0 < SegmentSize
  BY <1>1
<1>3. UnreadSlot(0) = dequeue_idx
  BY <1>1, <1>2, UnreadSlotIs DEF IInv
<1>4. (trbs[dequeue_idx].cycle = cycle_bit) <=> 0 < Unread
  BY <1>2, <1>3, BitsMarkUnread DEF CycleMarksUnread
<1> QED
  BY <1>1, <1>4, UnreadIs DEF Fresh

(* A buffer one shorter than the segment is never too small, whatever is   *)
(* posted during the call (ring.rs:187-210).                               *)
THEOREM SegmentSizedBufferFits == Spec => []SegmentFits
<1>1. IInv => SegmentFits
  BY DEF IInv, CallInv
<1> QED
  BY <1>1, Invariance, PTL

-----------------------------------------------------------------------------
(* The ring implements the queue.                                          *)

(* The last u of p numbered events.                                        *)
Newest(p, u) == [k \in 1 .. u |-> p - u + k]

(* They are a sequence of u numbers.                                       *)
LEMMA NewestIs ==
  ASSUME NEW p \in Nat, NEW u \in Nat
  PROVE  /\ Newest(p, u) \in Seq(Int) /\ Len(Newest(p, u)) = u
         /\ \A k \in 1 .. u : Newest(p, u)[k] = p - u + k
<1>1. Newest(p, u) \in [1 .. u -> Int]
  BY DEF Newest
<1>2. Newest(p, u) \in Seq(Int)
  BY <1>1 DEF Newest
<1>3. Len(Newest(p, u)) = u
  BY <1>2 DEF Newest
<1> QED
  BY <1>2, <1>3 DEF Newest

(* One event more.                                                         *)
LEMMA NewestPosted ==
  ASSUME NEW p \in Nat, NEW u \in Nat
  PROVE  Newest(p + 1, u + 1) = Append(Newest(p, u), p + 1)
<1> DEFINE s == Newest(p, u)
           t == Newest(p + 1, u + 1)
<1>1. s \in Seq(Int) /\ Len(s) = u /\ \A k \in 1 .. u : s[k] = p - u + k
  BY NewestIs
<1>2. t \in Seq(Int) /\ Len(t) = u + 1 /\ \A k \in 1 .. (u + 1) : t[k] = (p + 1) - (u + 1) + k
  BY NewestIs
<1> HIDE DEF s, t
<1>3. /\ Append(s, p + 1) \in Seq(Int) /\ Len(Append(s, p + 1)) = u + 1
      /\ \A k \in 1 .. u : Append(s, p + 1)[k] = s[k]
      /\ Append(s, p + 1)[u + 1] = p + 1
  BY <1>1, AppendProperties
<1>4. \A k \in 1 .. (u + 1) : t[k] = Append(s, p + 1)[k]
  BY <1>1, <1>2, <1>3
<1> QED
  BY <1>2, <1>3, <1>4, SeqEqual DEF s, t

(* One event less.                                                         *)
LEMMA NewestTaken ==
  ASSUME NEW p \in Nat, NEW u \in Nat, u > 0
  PROVE  /\ Newest(p, u) # <<>> /\ Head(Newest(p, u)) = p - u + 1
         /\ Tail(Newest(p, u)) = Newest(p, u - 1)
<1> DEFINE s == Newest(p, u)
           t == Newest(p, u - 1)
<1>1. s \in Seq(Int) /\ Len(s) = u /\ \A k \in 1 .. u : s[k] = p - u + k
  BY NewestIs
<1>2. u - 1 \in Nat
  OBVIOUS
<1>3. t \in Seq(Int) /\ Len(t) = u - 1 /\ \A k \in 1 .. (u - 1) : t[k] = p - (u - 1) + k
  BY <1>2, NewestIs
<1> HIDE DEF s, t
<1>4. s # <<>>
  BY <1>1, EmptySeq
<1>5. /\ Tail(s) \in Seq(Int) /\ Len(Tail(s)) = u - 1
      /\ \A k \in 1 .. (u - 1) : Tail(s)[k] = s[k + 1]
  BY <1>1, <1>4, HeadTailProperties
<1>6. \A k \in 1 .. (u - 1) : t[k] = Tail(s)[k]
  BY <1>1, <1>3, <1>5
<1>7. Tail(s) = t
  BY <1>3, <1>5, <1>6, SeqEqual
<1>8. Head(s) = s[1]
  BY <1>1, <1>4
<1> QED
  BY <1>1, <1>4, <1>7, <1>8 DEF s, t

(* The unread events are the newest.                                       *)
PendingFlat == Pending = Newest(posted, Unread)

LEMMA PendingIs == IInv => PendingFlat
<1> SUFFICES ASSUME IInv PROVE PendingFlat
  OBVIOUS
<1>1. /\ enqueue_idx \in 0..(N - 1) /\ dequeue_idx \in 0..(N - 1) /\ N \in Nat
      /\ posted \in Nat /\ Slots = 0..(N - 1) /\ LapInv /\ erdp \in 0..(N - 1)
  BY RingState DEF IInv
<1>2. /\ Unread \in 0..(N - 1)
      /\ Unread = IF producer = cycle_bit THEN enqueue_idx - dequeue_idx
                  ELSE enqueue_idx - dequeue_idx + N
  BY UnreadIs
<1>3. ASSUME NEW k \in 1 .. Unread
      PROVE  trbs[UnreadSlot(k - 1)].event = posted - Unread + k
  <2> DEFINE j == UnreadSlot(k - 1)
  <2>1. k - 1 \in Slots
    BY <1>1, <1>2
  <2>2. /\ j = IF dequeue_idx + (k - 1) < N THEN dequeue_idx + (k - 1)
               ELSE dequeue_idx + (k - 1) - N
        /\ j \in Slots
    BY <2>1, UnreadSlotIs DEF IInv
  <2> HIDE DEF j
  <2>3. trbs[j].event = EventAt(j)
    BY <2>2 DEF IInv, EventsInv
  <2>4. /\ posted = enqueue_idx \/ posted >= enqueue_idx + N
        /\ producer # cycle_bit => posted # enqueue_idx
    BY DEF IInv, EventsInv
  <2>5. EventAt(j) = posted - Unread + k
    <3>1. CASE producer = cycle_bit
      <4>1. j = dequeue_idx + (k - 1) /\ j < enqueue_idx
        BY <1>1, <1>2, <2>2, <3>1
      <4> QED
        BY <1>1, <1>2, <3>1, <4>1 DEF EventAt
    <3>2. CASE producer # cycle_bit
      <4>1. enqueue_idx < dequeue_idx
        BY <1>1, <3>2 DEF LapInv
      <4>2. CASE dequeue_idx + (k - 1) < N
        <5>1. j = dequeue_idx + (k - 1) /\ ~(j < enqueue_idx)
          BY <1>1, <1>2, <2>2, <4>1, <4>2
        <5> QED
          BY <1>1, <1>2, <2>4, <3>2, <5>1 DEF EventAt
      <4>3. CASE ~(dequeue_idx + (k - 1) < N)
        <5>1. j = dequeue_idx + (k - 1) - N /\ j < enqueue_idx
          BY <1>1, <1>2, <2>2, <3>2, <4>3
        <5> QED
          BY <1>1, <1>2, <3>2, <5>1 DEF EventAt
      <4> QED
        BY <4>2, <4>3
    <3> QED
      BY <3>1, <3>2
  <2> QED
    BY <2>3, <2>5 DEF j
<1> QED
  BY <1>3 DEF PendingFlat, Pending, Newest

(* The same for the next state.                                            *)
UnreadFlat ==
  /\ enqueue_idx \in 0..(N - 1) /\ dequeue_idx \in 0..(N - 1) /\ erdp \in 0..(N - 1)
  /\ N \in Nat /\ posted \in Nat /\ Slots = 0..(N - 1) /\ Unread \in 0..(N - 1)
  /\ Unread = IF dequeue_idx <= enqueue_idx THEN enqueue_idx - dequeue_idx
              ELSE enqueue_idx - dequeue_idx + N
  /\ PendingFlat

LEMMA FlatIs == IInv => UnreadFlat
<1> SUFFICES ASSUME IInv PROVE UnreadFlat
  OBVIOUS
<1>1. /\ enqueue_idx \in 0..(N - 1) /\ dequeue_idx \in 0..(N - 1) /\ erdp \in 0..(N - 1)
      /\ N \in Nat /\ posted \in Nat /\ Slots = 0..(N - 1)
  BY RingState DEF IInv
<1>2. Unread = IF dequeue_idx <= enqueue_idx THEN enqueue_idx - dequeue_idx
               ELSE enqueue_idx - dequeue_idx + N
  BY <1>1, DistanceIs DEF Unread, N
<1>3. Unread \in 0..(N - 1)
  BY <1>1, <1>2
<1> QED
  BY <1>1, <1>2, <1>3, PendingIs DEF UnreadFlat

queueVars == <<posted, Pending, delivered \o buffer, call = "loop", Room>>

(* A step of the ring is a step of the queue, or none.                     *)
LEMMA StepRefines ==
  IInv /\ UnreadFlat /\ UnreadFlat' /\ [Next]_vars => [Queue!Next]_queueVars
<1> SUFFICES ASSUME IInv, UnreadFlat, UnreadFlat', [Next]_vars
             PROVE  [Queue!Next]_queueVars
  OBVIOUS
<1>1. /\ delivered \in Seq(1 .. MaxEvents) /\ buffer \in Seq(1 .. MaxEvents)
      /\ erdp \in Slots /\ SegmentSize = N
  BY DriverState, SizeIs
<1>2. /\ enqueue_idx \in 0..(N - 1) /\ dequeue_idx \in 0..(N - 1) /\ N \in Nat
      /\ posted \in Nat /\ Unread \in 0..(N - 1) /\ Pending = Newest(posted, Unread)
      /\ Unread = IF dequeue_idx <= enqueue_idx THEN enqueue_idx - dequeue_idx
                  ELSE enqueue_idx - dequeue_idx + N
      /\ erdp \in 0..(N - 1) /\ Slots = 0..(N - 1)
  BY DEF UnreadFlat, PendingFlat
<1>3. /\ Unread' = IF dequeue_idx' <= enqueue_idx' THEN enqueue_idx' - dequeue_idx'
                   ELSE enqueue_idx' - dequeue_idx' + N
      /\ Pending' = Newest(posted', Unread')
      /\ enqueue_idx' \in 0..(N - 1) /\ dequeue_idx' \in 0..(N - 1) /\ Unread' \in 0..(N - 1)
  BY DEF UnreadFlat, PendingFlat, N
<1>4. CASE Post
  <2>1. /\ dequeue_idx' = dequeue_idx /\ posted' = posted + 1
        /\ delivered' \o buffer' = delivered \o buffer
        /\ call' = call /\ Room' = Room
    BY <1>4 DEF Post, reader, Room
  <2>2. /\ enqueue_idx' = (IF enqueue_idx + 1 = N THEN 0 ELSE enqueue_idx + 1)
        /\ enqueue_idx' # erdp
    BY <1>2, <1>4, AfterIs DEF Post
  <2>3. IF producer = cycle_bit
        THEN dequeue_idx <= enqueue_idx /\ (erdp <= dequeue_idx \/ erdp > enqueue_idx)
        ELSE enqueue_idx < erdp /\ erdp <= dequeue_idx
    BY DEF IInv, LapInv
  <2>4. Unread' = Unread + 1
    <3>1. CASE producer = cycle_bit
      BY <1>2, <1>3, <2>1, <2>2, <2>3, <3>1
    <3>2. CASE producer # cycle_bit
      BY <1>2, <1>3, <2>1, <2>2, <2>3, <3>2
    <3> QED
      BY <3>1, <3>2
  <2>5. Len(Pending) < SegmentSize - 1
    <3>1. Unread \in Nat
      BY <1>2
    <3>2. Len(Newest(posted, Unread)) = Unread
      BY <1>2, <3>1, NewestIs, Zenon
    <3>3. Len(Pending) = Unread
      BY <1>2, <3>2, Zenon
    <3>4. Unread' \in 0 .. (N - 1)
      BY <1>3, Zenon
    <3>5. Unread + 1 \in 0 .. (N - 1)
      BY <2>4, <3>4, Zenon
    <3>6. N \in Nat
      BY <1>2
    <3>7. Unread < N - 1
      BY <3>1, <3>5, <3>6
    <3> QED
      BY <1>1, <3>3, <3>7
  <2>6. Pending' = Append(Pending, posted + 1)
    <3>1. Unread \in Nat
      BY <1>2
    <3>2. Newest(posted + 1, Unread + 1) = Append(Newest(posted, Unread), posted + 1)
      BY <1>2, <3>1, NewestPosted, Zenon
    <3> QED
      BY <1>2, <1>3, <2>1, <2>4, <3>2, Zenon
  <2> QED
    BY <2>1, <2>5, <2>6 DEF Queue!Next, Queue!Post
<1>5. ASSUME Fresh, Advance, UNCHANGED controller
      PROVE  /\ Unread > 0 /\ Pending # <<>> /\ posted' = posted
             /\ Head(Pending) = trbs[dequeue_idx].event /\ Pending' = Tail(Pending)
  <2>1. posted' = posted /\ enqueue_idx' = enqueue_idx
    BY <1>5 DEF controller
  <2>2. dequeue_idx' = IF dequeue_idx + 1 = N THEN 0 ELSE dequeue_idx + 1
    BY <1>1, <1>5 DEF Advance
  <2>3. Unread > 0
    <3>1. CASE producer = cycle_bit
      <4>1. dequeue_idx < enqueue_idx
        BY <1>5, <3>1, FreshIs
      <4> QED
        BY <1>2, <4>1
    <3>2. CASE producer # cycle_bit
      <4>1. enqueue_idx < dequeue_idx
        BY <1>2, <3>2 DEF IInv, LapInv
      <4> QED
        BY <1>2, <4>1
    <3> QED
      BY <3>1, <3>2
  <2>4. Unread' = Unread - 1
    BY <1>2, <1>3, <2>1, <2>2, <2>3
  <2>5. /\ Pending # <<>> /\ Head(Pending) = posted - Unread + 1
        /\ Pending' = Tail(Pending)
    <3>1. Unread \in Nat
      BY <1>2
    <3>2. /\ Newest(posted, Unread) # <<>>
          /\ Head(Newest(posted, Unread)) = posted - Unread + 1
          /\ Tail(Newest(posted, Unread)) = Newest(posted, Unread - 1)
      BY <1>2, <2>3, <3>1, NewestTaken, Zenon
    <3> QED
      BY <1>2, <1>3, <2>1, <2>4, <3>2, Zenon
  <2>6. trbs[dequeue_idx].event = posted - Unread + 1
    <3>1. 1 \in 1 .. Unread
      BY <1>2, <2>3
    <3>2. Pending[1] = trbs[UnreadSlot(0)].event
      BY <3>1 DEF Pending
    <3>3. UnreadSlot(0) = dequeue_idx
      BY <1>2, UnreadSlotIs DEF IInv
    <3>4. Pending[1] = posted - Unread + 1
      <4>1. Unread \in Nat
        BY <1>2
      <4>2. Newest(posted, Unread)[1] = posted - Unread + 1
        BY <1>2, <3>1, <4>1, NewestIs, Zenon
      <4> QED
        BY <1>2, <4>2, Zenon
    <3> QED
      BY <3>2, <3>3, <3>4
  <2> QED
    BY <2>1, <2>3, <2>5, <2>6
<1>6. CASE Store
  <2>1. /\ Fresh /\ Advance /\ UNCHANGED controller /\ delivered' = delivered
        /\ buffer' = Append(buffer, trbs[dequeue_idx].event)
    BY <1>6 DEF Store
  <2>2. trbs[dequeue_idx].event \in 1 .. MaxEvents
    BY <2>1, FreshIs
  <2>3. delivered' \o buffer' = Append(delivered \o buffer, trbs[dequeue_idx].event)
    <3> DEFINE e == trbs[dequeue_idx].event
    <3>1. Append(buffer, e) = buffer \o <<e>>
      BY <1>1, <2>2, AppendIsConcat
    <3>2. delivered \o buffer \in Seq(1 .. MaxEvents)
      BY <1>1, ConcatProperties
    <3>3. Append(delivered \o buffer, e) = (delivered \o buffer) \o <<e>>
      BY <2>2, <3>2, AppendIsConcat
    <3>4. <<e>> \in Seq(1 .. MaxEvents)
      BY <2>2
    <3>5. (delivered \o buffer) \o <<e>> = delivered \o (buffer \o <<e>>)
      BY <1>1, <3>4, ConcatAssociative
    <3> QED
      BY <2>1, <3>1, <3>3, <3>5
  <2>4. call = "loop" /\ call' = "loop" /\ Room > 0 /\ Room' = Room - 1
    <3>1. Len(buffer') = Len(buffer) + 1 /\ Len(buffer) \in Nat
      BY <1>1, <2>1, <2>2, AppendProperties, LenProperties
    <3> QED
      BY <1>6, <3>1, DriverState DEF Store, Room
  <2> QED
    BY <1>5, <2>1, <2>3, <2>4 DEF Queue!Next, Queue!Receive
<1>7. CASE Overrun
  <2>1. /\ Fresh /\ Advance /\ UNCHANGED controller
        /\ delivered' \o buffer' = delivered \o buffer
        /\ call = "loop" /\ call' = "too_small" /\ Len(buffer) >= len
    BY <1>7 DEF Overrun
  <2>2. Room = 0 /\ Room' = 0
    <3>1. Len(buffer) <= len /\ Len(buffer) \in Nat
      BY <2>1, DriverState, LenProperties DEF IInv, CallInv
    <3> QED
      BY <2>1, <3>1, DriverState DEF Room
  <2> QED
    BY <1>5, <2>1, <2>2 DEF Queue!Next, Queue!Drop
<1>8. ASSUME posted' = posted, enqueue_idx' = enqueue_idx, dequeue_idx' = dequeue_idx
      PROVE  Unread' = Unread /\ Pending' = Pending
  <2>1. Unread' = Unread
    BY <1>2, <1>3, <1>8
  <2> QED
    BY <1>2, <1>3, <1>8, <2>1
<1>9. CASE Call
  <2>1. /\ posted' = posted /\ enqueue_idx' = enqueue_idx /\ dequeue_idx' = dequeue_idx
        /\ delivered' = delivered /\ buffer' = <<>> /\ buffer = <<>>
        /\ call = "none" /\ call' = "loop" /\ len' \in BufferLens
    BY <1>9 DEF Call, controller, reader, IInv, CallInv
  <2>2. Room' = len'
    <3>1. Len(buffer') = 0 /\ len' \in Nat
      BY <2>1, BufferLensAssumption, EmptySeq
    <3>2. call' = "loop"
      BY <2>1
    <3>3. Room' = len' - Len(buffer')
      BY <3>2 DEF Room
    <3> DEFINE n == len'
               l == Len(buffer')
    <3>4. n \in Nat /\ l = 0 /\ Room' = n - l
      BY <3>1, <3>3
    <3> HIDE DEF n, l
    <3>5. Room' = n
      BY <3>4
    <3> QED
      BY <3>5 DEF n
  <2> QED
    BY <1>8, <2>1, <2>2 DEF Queue!Next, Queue!Open
<1>10. CASE Drain
  <2>1. /\ posted' = posted /\ enqueue_idx' = enqueue_idx /\ dequeue_idx' = dequeue_idx
        /\ delivered' \o buffer' = delivered \o buffer
        /\ call = "loop" /\ call' = "drained" /\ ~Fresh
    BY <1>10 DEF Drain, controller, reader
  <2>2. Pending = <<>>
    <3>1. Unread = 0
      BY <2>1, StaleIsEmpty
    <3>2. Newest(posted, 0) \in Seq(Int) /\ Len(Newest(posted, 0)) = 0
      BY <1>2, NewestIs
    <3> QED
      BY <1>2, <3>1, <3>2, EmptySeq
  <2>3. Room' = 0
    BY <2>1 DEF Room
  <2> QED
    BY <1>8, <2>1, <2>2, <2>3 DEF Queue!Next, Queue!Close
<1>11. CASE Return
  <2>1. /\ posted' = posted /\ enqueue_idx' = enqueue_idx /\ dequeue_idx' = dequeue_idx
        /\ delivered' = delivered \o buffer /\ buffer' = <<>>
        /\ call # "loop" /\ call' = "none"
    BY <1>11 DEF Return, ReturnReleasing, controller, reader
  <2>2. delivered \o buffer \in Seq(1 .. MaxEvents)
    BY <1>1, ConcatProperties
  <2>3. delivered' \o buffer' = delivered \o buffer
    BY <2>1, <2>2, ConcatEmptySeq
  <2>4. Room' = Room /\ (call' = "loop") = (call = "loop")
    BY <2>1 DEF Room
  <2> QED
    BY <1>8, <2>1, <2>3, <2>4 DEF queueVars
<1>12. CASE UNCHANGED vars
  <2>1. UNCHANGED <<posted, enqueue_idx, dequeue_idx, call, len, buffer, delivered>>
    BY <1>12 DEF vars, controller, reader
  <2> QED
    BY <1>8, <2>1 DEF queueVars, Room
<1> QED
  BY <1>4, <1>6, <1>7, <1>9, <1>10, <1>11, <1>12 DEF Next

(* The event ring implements EventQueue: events are received in the order  *)
(* of posting, each once, whatever the controller posts during a call and  *)
(* over any number of laps; one is lost only in a call whose buffer is     *)
(* full, and a call that loses none empties the ring (ring.rs:160-210).    *)
THEOREM RingImplementsQueue == Spec => QueueSpec
<1>1. Init => Queue!Init
  <2> SUFFICES ASSUME Init PROVE Queue!Init
    OBVIOUS
  <2>1. IInv
    BY InitIInv
  <2>2. /\ Unread = (IF dequeue_idx <= enqueue_idx THEN enqueue_idx - dequeue_idx
                     ELSE enqueue_idx - dequeue_idx + N)
        /\ Pending = Newest(posted, Unread) /\ posted = 0
    BY <2>1, FlatIs DEF UnreadFlat, PendingFlat, Init
  <2>3. Unread = 0
    BY <2>2 DEF Init
  <2>4. Pending = <<>>
    <3>1. Newest(0, 0) \in Seq(Int) /\ Len(Newest(0, 0)) = 0
      BY NewestIs
    <3>2. Newest(0, 0) = <<>>
      BY <3>1, EmptySeq
    <3> QED
      BY <2>2, <2>3, <3>2, Zenon
  <2>5. delivered \o buffer = <<>>
    BY DriverState, <2>1, ConcatEmptySeq DEF Init
  <2>6. call # "loop" /\ Room = 0
    BY DEF Init, Room
  <2> QED
    BY <2>2, <2>4, <2>5, <2>6 DEF Queue!Init
<1>2. IInv => UnreadFlat
  BY FlatIs
<1>3. IInv /\ UnreadFlat /\ UnreadFlat' /\ [Next]_vars => [Queue!Next]_queueVars
  BY StepRefines
<1> QED
  BY <1>1, <1>2, <1>3, Invariance, PTL DEF Spec, QueueSpec, Queue!Spec, Queue!queueVars, queueVars
=============================================================================
