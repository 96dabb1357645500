------------------------- MODULE CommandRingProofs -------------------------
(***************************************************************************)
(* The command ring of pci/usb/xhci/ring.rs, for every size of the ring    *)
(* and every number of commands: the controller executes each command at   *)
(* most once and in the order of add_trb, and finds the next one ready     *)
(* whenever there is one.                                                  *)
(***************************************************************************)
EXTENDS CommandRing, SequenceTheorems, TLAPS

(* What slot i holds once it is copied.  The commands of this lap are the  *)
(* last of those added, and carry its cycle bit; what follows them does    *)
(* not.                                                                    *)
Wanted(i) ==
  IF i = Last THEN Trb(Link, cycle_bit)
  ELSE IF i < staged THEN Trb(added - staged + i + 1, cycle_bit)
  ELSE Trb(Empty, ~cycle_bit)

(* A slot of the ring that is not copied yet still is empty, and so is not *)
(* the controller's.                                                       *)
NotYet(i) == i < staged /\ trbs[i] = Trb(Empty, ~cycle_bit)

RingInv ==
  \A i \in Slots : staging[i] = Wanted(i) /\ (trbs[i] = Wanted(i) \/ NotYet(i))

(* The copy loop stays at or before the TRB behind the last command.       *)
CopyInv == staged <= added /\ (copying <= staged \/ Idle)

(* In the lap, the controller has executed the commands before the slot it *)
(* looks at, all of them copied.  When it has followed the link, it has    *)
(* executed all there are, and the command at slot 0 is one of them.       *)
FetchInv ==
  IF consumer = cycle_bit
  THEN /\ fetch_idx <= staged
       /\ Len(executed) = added - staged + fetch_idx
       /\ \A i \in 0 .. (fetch_idx - 1) : trbs[i] = Wanted(i)
  ELSE /\ fetch_idx = 0 /\ staged = Last
       /\ Len(executed) = added
       /\ trbs[0] = Wanted(0)

IInv == TypeOK /\ RingInv /\ CopyInv /\ FetchInv /\ ExecutedInOrder

(* The commands that are copied are the first ones of the lap, and those   *)
(* the running copy loop has passed are among them.                        *)
Copied(i) == trbs[i] = Wanted(i)

CopiedInv ==
  /\ \A i, j \in Slots : i <= j /\ j < staged /\ Copied(j) => Copied(i)
  /\ ~Idle => \A i \in Slots : i < copying => Copied(i)

-----------------------------------------------------------------------------
(* The steps of the driver and of the controller.                          *)

(* The size of the ring and its slots.                                     *)
LEMMA SizeIs ==
  /\ RingSize \in Nat /\ RingSize >= 2 /\ Last \in Nat /\ Last >= 1
  /\ Last = RingSize - 1 /\ Slots = 0 .. Last
  /\ MaxCommands \in Nat /\ Link = MaxCommands + 1
BY RingSizeAssumption, MaxCommandsAssumption DEF Last, Slots, Link

(* The numbers of the ring.                                                *)
LEMMA State ==
  ASSUME TypeOK
  PROVE  /\ staged \in Nat /\ staged <= Last /\ added \in Nat /\ added <= MaxCommands
         /\ fetch_idx \in Nat /\ fetch_idx <= Last /\ copying \in Nat
         /\ executed \in Seq(0 .. Link) /\ Len(executed) \in Nat
         /\ cycle_bit \in BOOLEAN /\ consumer \in BOOLEAN
BY SizeIs, LenProperties DEF TypeOK

(* What Wanted says of a slot is a TRB.                                    *)
LEMMA WantedIsTrb ==
  ASSUME TypeOK, CopyInv, NEW i \in Slots
  PROVE  Wanted(i) \in [what : 0 .. Link, cycle : BOOLEAN]
BY SizeIs, State DEF Wanted, Trb, Empty, CopyInv

(* Truth values and their negations.                                       *)
LEMMA Negation ==
  ASSUME NEW b \in BOOLEAN, NEW c \in BOOLEAN, c # b
  PROVE  (~ ~b) = b /\ c = (~b)
OBVIOUS

(* A truth value is not its own negation.                                  *)
LEMMA OwnBit == ASSUME NEW b \in BOOLEAN PROVE (~b) # b
OBVIOUS

(* An empty ring satisfies the invariant.                                  *)
LEMMA InitIInv == Init => IInv
<1> SUFFICES ASSUME Init PROVE IInv
  OBVIOUS
<1>1. TypeOK
  BY SizeIs DEF Init, TypeOK, Blank, Trb, Empty
<1>2. RingInv
  <2> SUFFICES ASSUME NEW i \in Slots PROVE staging[i] = Wanted(i) /\ trbs[i] = Wanted(i)
    BY DEF RingInv
  <2>1. cycle_bit = TRUE /\ (~cycle_bit) = FALSE
    BY Zenon DEF Init
  <2>2. /\ staging[i] = IF i = Last THEN Trb(Link, TRUE) ELSE Trb(Empty, FALSE)
        /\ trbs[i] = staging[i]
    BY DEF Init, Blank
  <2>3. ~(i < staged)
    BY SizeIs DEF Init
  <2> QED
    BY <2>1, <2>2, <2>3, Zenon DEF Wanted
<1>3. CopyInv
  BY DEF Init, CopyInv, Idle
<1>4. FetchInv
  BY SizeIs DEF Init, FetchInv
<1>5. ExecutedInOrder
  BY DEF Init, ExecutedInOrder
<1> QED
  BY <1>1, <1>2, <1>3, <1>4, <1>5 DEF IInv

(* A command is staged: it gets the slot behind the others, of which the   *)
(* ring has an empty TRB.                                                  *)
LEMMA AddTrbKeepsIInv == IInv /\ AddTrb => IInv'
<1> SUFFICES ASSUME IInv, AddTrb PROVE IInv'
  OBVIOUS
<1>1. /\ staged # Last /\ added < MaxCommands
      /\ staged' = staged + 1 /\ added' = added + 1
      /\ staging' = [staging EXCEPT ![staged] = Trb(added + 1, cycle_bit)]
      /\ trbs' = trbs /\ cycle_bit' = cycle_bit /\ copying' = copying
      /\ fetch_idx' = fetch_idx /\ consumer' = consumer /\ executed' = executed
      /\ copying = RingSize
  BY DEF AddTrb, controller, Idle
<1>2. Last' = Last /\ Link' = Link /\ Slots' = Slots
  BY DEF Last, Link, Slots
<1>3. ASSUME NEW i \in Slots
      PROVE  Wanted(i)' = IF i = staged THEN Trb(added + 1, cycle_bit) ELSE Wanted(i)
  <2>1. /\ ((i < staged + 1) <=> (i < staged \/ i = staged))
        /\ (i = staged => i # Last)
        /\ (added + 1) - (staged + 1) + i + 1 = added - staged + i + 1
        /\ (i = staged => added - staged + i + 1 = added + 1)
    <3>1. i \in Int /\ staged \in Int /\ added \in Int
      BY SizeIs, State DEF IInv
    <3>2. (i < staged + 1) <=> (i < staged \/ i = staged)
      BY <3>1
    <3>3. i = staged => i # Last
      BY <1>1
    <3>4. (added + 1) - (staged + 1) + i + 1 = added - staged + i + 1
      BY <3>1
    <3>5. i = staged => added - staged + i + 1 = added + 1
      BY <3>1
    <3> QED
      BY <3>2, <3>3, <3>4, <3>5, Zenon
  <2>2. Wanted(i)' = IF i = Last THEN Trb(Link, cycle_bit)
                     ELSE IF i < staged + 1 THEN Trb((added + 1) - (staged + 1) + i + 1, cycle_bit)
                     ELSE Trb(Empty, ~cycle_bit)
    BY <1>1, <1>2, Zenon DEF Wanted, Trb, Empty
  <2> QED
    BY <2>1, <2>2, Zenon DEF Wanted
<1>4. TypeOK'
  <2>1. Trb(added + 1, cycle_bit) \in [what : 0 .. Link, cycle : BOOLEAN]
    BY <1>1, SizeIs, State DEF IInv, Trb
  <2> QED
    BY <1>1, <1>2, <2>1, SizeIs, State DEF IInv, TypeOK
<1>5. RingInv'
  <2> SUFFICES ASSUME NEW i \in Slots
               PROVE  staging'[i] = Wanted(i)' /\ (trbs'[i] = Wanted(i)' \/ NotYet(i)')
    BY <1>2 DEF RingInv
  <2>1. staging'[i] = Wanted(i)'
    BY <1>1, <1>3 DEF IInv, TypeOK, RingInv
  <2>2. CASE i = staged
    <3>1. i # Last /\ ~(i < staged) /\ i < staged + 1
      BY <1>1, <2>2, SizeIs, State DEF IInv
    <3>2. trbs[i] = Trb(Empty, ~cycle_bit)
      BY <3>1, Zenon DEF IInv, RingInv, NotYet, Wanted
    <3>3. NotYet(i)'
      BY <1>1, <3>1, <3>2, Zenon DEF NotYet, Trb, Empty
    <3> QED
      BY <2>1, <3>3
  <2>3. CASE i # staged
    <3>1. i < staged => i < staged + 1
      BY SizeIs, State DEF IInv
    <3>2. NotYet(i) => NotYet(i)'
      BY <1>1, <3>1, Zenon DEF NotYet, Trb, Empty
    <3>3. Wanted(i)' = Wanted(i)
      BY <1>3, <2>3
    <3>4. trbs'[i] = Wanted(i)' \/ NotYet(i)'
      BY <1>1, <3>2, <3>3, Zenon DEF IInv, RingInv
    <3> QED
      BY <2>1, <3>4
  <2> QED
    BY <2>2, <2>3
<1>6. CopyInv'
  BY <1>1, State DEF IInv, CopyInv, Idle
<1>7. FetchInv'
  <2>1. consumer = cycle_bit
    BY <1>1 DEF IInv, FetchInv
  <2>2. /\ fetch_idx <= staged /\ Len(executed) = added - staged + fetch_idx
        /\ \A i \in 0 .. (fetch_idx - 1) : trbs[i] = Wanted(i)
    BY <2>1 DEF IInv, FetchInv
  <2>3. \A i \in 0 .. (fetch_idx - 1) : trbs'[i] = Wanted(i)'
    BY <1>1, <1>3, <2>2, SizeIs, State, SMTT(30) DEF IInv
  <2> QED
    <3>1. /\ fetch_idx <= staged + 1
          /\ Len(executed) = (added + 1) - (staged + 1) + fetch_idx
      BY <2>2, State DEF IInv
    <3> QED
      BY <1>1, <2>1, <2>3, <3>1 DEF FetchInv
<1>8. ExecutedInOrder'
  BY <1>1 DEF IInv, ExecutedInOrder
<1> QED
  BY <1>4, <1>5, <1>6, <1>7, <1>8 DEF IInv

(* A TRB is copied: it is one the controller has seen, or one behind.      *)
LEMMA CopyKeepsIInv == IInv /\ Copy => IInv'
<1> SUFFICES ASSUME IInv, Copy PROVE IInv'
  OBVIOUS
<1>1. /\ copying <= staged
      /\ trbs' = [trbs EXCEPT ![copying] = staging[copying]]
      /\ copying' = IF copying = staged THEN RingSize ELSE copying + 1
      /\ staged' = staged /\ added' = added /\ staging' = staging /\ cycle_bit' = cycle_bit
      /\ fetch_idx' = fetch_idx /\ consumer' = consumer /\ executed' = executed
  BY DEF IInv, CopyInv, Copy, controller
<1>2. Last' = Last /\ Link' = Link /\ Slots' = Slots
  BY DEF Last, Link, Slots
<1>3. copying \in Slots
  BY <1>1, SizeIs, State DEF IInv
<1>4. \A i \in Slots : Wanted(i)' = Wanted(i)
  BY <1>1, <1>2 DEF Wanted, Trb, Empty
<1>5. \A i \in Slots : trbs'[i] = IF i = copying THEN Wanted(i) ELSE trbs[i]
  BY <1>1, <1>3 DEF IInv, TypeOK, RingInv
<1>6. TypeOK'
  BY <1>1, <1>2, <1>3, SizeIs, State DEF IInv, TypeOK
<1>7. RingInv'
  <2> SUFFICES ASSUME NEW i \in Slots
               PROVE  staging'[i] = Wanted(i)' /\ (trbs'[i] = Wanted(i)' \/ NotYet(i)')
    BY <1>2 DEF RingInv
  <2> QED
    BY <1>1, <1>4, <1>5 DEF IInv, RingInv, NotYet, Trb, Empty
<1>8. CopyInv'
  BY <1>1, SizeIs, State DEF IInv, CopyInv, Idle
<1>9. FetchInv'
  <2>1. CASE consumer = cycle_bit
    <3>1. \A i \in 0 .. (fetch_idx - 1) : trbs'[i] = Wanted(i)'
      BY <1>4, <1>5, <2>1, SizeIs, State DEF IInv, FetchInv
    <3> QED
      BY <1>1, <2>1, <3>1 DEF IInv, FetchInv
  <2>2. CASE consumer # cycle_bit
    <3>1. 0 \in Slots
      BY SizeIs
    <3>2. trbs'[0] = Wanted(0)'
      BY <1>4, <1>5, <2>2, <3>1 DEF IInv, FetchInv
    <3> QED
      BY <1>1, <1>2, <2>2, <3>2 DEF IInv, FetchInv
  <2> QED
    BY <2>1, <2>2
<1>10. ExecutedInOrder'
  BY <1>1 DEF IInv, ExecutedInOrder
<1> QED
  BY <1>6, <1>7, <1>8, <1>9, <1>10 DEF IInv

(* The ring is flipped: a lap begins with nothing staged, and the          *)
(* controller at its first slot.                                           *)
LEMMA FlipKeepsIInv == IInv /\ FlipRing => IInv'
<1> SUFFICES ASSUME IInv, FlipRing PROVE IInv'
  OBVIOUS
<1>1. /\ consumer # cycle_bit /\ fetch_idx = 0 /\ copying = RingSize
      /\ cycle_bit' = ~cycle_bit
      /\ trbs' = Blank(cycle_bit, ~cycle_bit) /\ staging' = Blank(cycle_bit, ~cycle_bit)
      /\ staged' = 0 /\ added' = added /\ copying' = copying
      /\ fetch_idx' = fetch_idx /\ consumer' = consumer /\ executed' = executed
  BY DEF FlipRing, FlipTo, LapOver, Idle, controller
<1>2. Last' = Last /\ Link' = Link /\ Slots' = Slots
  BY DEF Last, Link, Slots
<1>3. \A i \in Slots : /\ trbs'[i] = IF i = Last THEN Trb(Link, ~cycle_bit)
                                     ELSE Trb(Empty, cycle_bit)
                       /\ staging'[i] = trbs'[i]
  BY <1>1 DEF Blank
<1>4. cycle_bit \in BOOLEAN /\ (~cycle_bit') = cycle_bit /\ consumer' = cycle_bit'
  <2>1. cycle_bit \in BOOLEAN /\ consumer \in BOOLEAN
    BY State DEF IInv
  <2>2. (~ ~cycle_bit) = cycle_bit /\ consumer = (~cycle_bit)
    BY <1>1, <2>1, Negation
  <2> QED
    BY <1>1, <2>1, <2>2, Zenon
<1>5. \A i \in Slots : Wanted(i)' = IF i = Last THEN Trb(Link, ~cycle_bit)
                                    ELSE Trb(Empty, cycle_bit)
  <2> SUFFICES ASSUME NEW i \in Slots
               PROVE  Wanted(i)' = IF i = Last THEN Trb(Link, ~cycle_bit)
                                   ELSE Trb(Empty, cycle_bit)
    OBVIOUS
  <2>1. ~(i < 0)
    BY SizeIs
  <2>2. Wanted(i)' = IF i = Last THEN Trb(Link, cycle_bit')
                     ELSE IF i < 0 THEN Trb(added' - staged' + i + 1, cycle_bit')
                     ELSE Trb(Empty, ~cycle_bit')
    BY <1>1, <1>2, Zenon DEF Wanted, Trb, Empty
  <2> QED
    BY <1>1, <1>4, <2>1, <2>2, Zenon
<1>6. TypeOK'
  <2>1. Blank(cycle_bit, ~cycle_bit) \in [Slots -> [what : 0 .. Link, cycle : BOOLEAN]]
    BY <1>4, SizeIs DEF Blank, Trb, Empty
  <2> QED
    BY <1>1, <1>2, <1>4, <2>1, SizeIs, State DEF IInv, TypeOK
<1>7. RingInv'
  BY <1>2, <1>3, <1>5 DEF RingInv
<1>8. CopyInv'
  BY <1>1, State DEF IInv, CopyInv, Idle
<1>9. FetchInv'
  <2>1. Len(executed) = added
    BY <1>1 DEF IInv, FetchInv
  <2> QED
    BY <1>1, <1>4, <2>1, State DEF IInv, FetchInv
<1>10. ExecutedInOrder'
  BY <1>1 DEF IInv, ExecutedInOrder
<1> QED
  BY <1>6, <1>7, <1>8, <1>9, <1>10 DEF IInv

(* What the controller may fetch is the next command of the lap, or the    *)
(* link behind a full one.                                                 *)
LEMMA FetchableIs ==
  ASSUME IInv, Fetchable
  PROVE  /\ consumer = cycle_bit /\ trbs[fetch_idx] = Wanted(fetch_idx)
         /\ fetch_idx \in Slots /\ fetch_idx <= staged
         /\ Len(executed) = added - staged + fetch_idx
         /\ \A i \in 0 .. (fetch_idx - 1) : trbs[i] = Wanted(i)
         /\ IF fetch_idx = Last THEN trbs[fetch_idx].what = Link /\ staged = Last
            ELSE /\ trbs[fetch_idx].what = Len(executed) + 1
                 /\ fetch_idx < staged /\ Len(executed) < added
<1> cycle_bit \in BOOLEAN
  BY State DEF IInv
<1>1. fetch_idx \in Slots /\ trbs[fetch_idx].cycle = consumer
  BY SizeIs, State DEF IInv, Fetchable
<1>2. consumer = cycle_bit
  <2> SUFFICES ASSUME consumer # cycle_bit PROVE FALSE
    OBVIOUS
  <2>1. fetch_idx = 0 /\ staged = Last /\ trbs[0] = Wanted(0)
    BY DEF IInv, FetchInv
  <2>2. Wanted(0).cycle = cycle_bit
    BY <2>1, SizeIs DEF Wanted, Trb
  <2> QED
    BY <1>1, <2>1, <2>2
<1>3. /\ fetch_idx <= staged /\ Len(executed) = added - staged + fetch_idx
      /\ \A i \in 0 .. (fetch_idx - 1) : trbs[i] = Wanted(i)
  BY <1>2 DEF IInv, FetchInv
<1>4. trbs[fetch_idx] = Wanted(fetch_idx)
  <2>1. Trb(Empty, ~cycle_bit).cycle = ~cycle_bit
    BY DEF Trb
  <2>2. trbs[fetch_idx] # Trb(Empty, ~cycle_bit)
    BY <1>1, <1>2, <2>1, OwnBit
  <2> QED
    BY <1>1, <2>2 DEF IInv, RingInv, NotYet
<1>5. CASE fetch_idx = Last
  BY <1>1, <1>2, <1>3, <1>4, <1>5, SizeIs, State DEF IInv, Wanted, Trb
<1>6. CASE fetch_idx # Last
  <2>1. fetch_idx < staged
    <3> SUFFICES ASSUME ~(fetch_idx < staged) PROVE FALSE
      BY <1>1, <1>3
    <3>1. Wanted(fetch_idx) = Trb(Empty, ~cycle_bit)
      BY <1>6 DEF Wanted
    <3>2. Trb(Empty, ~cycle_bit).cycle = ~cycle_bit
      BY DEF Trb
    <3> QED
      BY <1>1, <1>2, <1>4, <3>1, <3>2, OwnBit
  <2>2. trbs[fetch_idx].what = added - staged + fetch_idx + 1
    BY <1>4, <1>6, <2>1 DEF Wanted, Trb
  <2>3. Len(executed) < added
    BY <1>3, <2>1, State DEF IInv
  <2> QED
    BY <1>1, <1>2, <1>3, <1>4, <1>6, <2>1, <2>2, <2>3, State DEF IInv
<1> QED
  BY <1>5, <1>6

(* The controller follows the link: the lap was full and is executed.      *)
LEMMA FollowLinkKeepsIInv == IInv /\ FollowLink => IInv'
<1> SUFFICES ASSUME IInv, FollowLink PROVE IInv'
  OBVIOUS
<1>1. /\ Fetchable /\ trbs[fetch_idx].what = Link
      /\ fetch_idx' = 0 /\ consumer' = ~consumer /\ executed' = executed
      /\ trbs' = trbs /\ staging' = staging /\ staged' = staged
      /\ cycle_bit' = cycle_bit /\ copying' = copying /\ added' = added
  BY DEF FollowLink, driver
<1>2. /\ consumer = cycle_bit /\ fetch_idx \in Slots /\ fetch_idx <= staged
      /\ Len(executed) = added - staged + fetch_idx
      /\ \A i \in 0 .. (fetch_idx - 1) : trbs[i] = Wanted(i)
      /\ fetch_idx = Last /\ staged = Last
  BY <1>1, FetchableIs, SizeIs, State DEF IInv
<1>3. Last' = Last /\ Link' = Link /\ Slots' = Slots
  BY DEF Last, Link, Slots
<1>4. \A i \in Slots : Wanted(i)' = Wanted(i)
  BY <1>1, <1>3 DEF Wanted, Trb, Empty
<1>5. consumer' # cycle_bit' /\ consumer' \in BOOLEAN
  BY <1>1, <1>2, State, Zenon DEF IInv
<1>6. TypeOK'
  BY <1>1, <1>3, <1>5, SizeIs, State, SMTT(30) DEF IInv, TypeOK
<1>7. RingInv'
  BY <1>1, <1>3, <1>4 DEF IInv, RingInv, NotYet, Trb, Empty
<1>8. CopyInv'
  BY <1>1 DEF IInv, CopyInv, Idle
<1>9. FetchInv'
  <2>1. Len(executed) = added
    BY <1>2, State DEF IInv
  <2>2. trbs[0] = Wanted(0) /\ 0 \in Slots
    BY <1>2, SizeIs
  <2>3. trbs'[0] = Wanted(0)'
    BY <1>1, <1>4, <2>2
  <2> QED
    BY <1>1, <1>2, <1>3, <1>5, <2>1, <2>3 DEF FetchInv
<1>10. ExecutedInOrder'
  BY <1>1 DEF IInv, ExecutedInOrder
<1> QED
  BY <1>6, <1>7, <1>8, <1>9, <1>10 DEF IInv

(* The controller executes the command after the one it executed last.     *)
LEMMA ExecuteKeepsIInv == IInv /\ Execute => IInv'
<1> SUFFICES ASSUME IInv, Execute PROVE IInv'
  OBVIOUS
<1> DEFINE what == trbs[fetch_idx].what
<1>1. /\ Fetchable /\ what # Link
      /\ executed' = Append(executed, what)
      /\ fetch_idx' = (fetch_idx + 1) % RingSize
      /\ consumer' = consumer /\ trbs' = trbs /\ staging' = staging /\ staged' = staged
      /\ cycle_bit' = cycle_bit /\ copying' = copying /\ added' = added
  BY DEF Execute, driver
<1>2. /\ consumer = cycle_bit /\ fetch_idx \in Slots /\ trbs[fetch_idx] = Wanted(fetch_idx)
      /\ Len(executed) = added - staged + fetch_idx
      /\ \A i \in 0 .. (fetch_idx - 1) : trbs[i] = Wanted(i)
      /\ fetch_idx # Last /\ what = Len(executed) + 1
      /\ fetch_idx < staged /\ Len(executed) < added
  BY <1>1, FetchableIs
<1> HIDE DEF what
<1>3. Last' = Last /\ Link' = Link /\ Slots' = Slots
  BY DEF Last, Link, Slots
<1>4. \A i \in Slots : Wanted(i)' = Wanted(i)
  BY <1>1, <1>3 DEF Wanted, Trb, Empty
<1>5. fetch_idx' = fetch_idx + 1 /\ fetch_idx' \in Slots
  BY <1>1, <1>2, SizeIs
<1>6. what \in 0 .. Link /\ what \in Nat
  BY <1>2, SizeIs, State DEF IInv
<1>7. /\ executed' \in Seq(0 .. Link) /\ Len(executed') = Len(executed) + 1
      /\ \A k \in 1 .. Len(executed) : executed'[k] = executed[k]
      /\ executed'[Len(executed) + 1] = what
  BY <1>1, <1>6, AppendProperties, State DEF IInv
<1>8. TypeOK'
  BY <1>1, <1>3, <1>5, <1>7 DEF IInv, TypeOK
<1>9. RingInv'
  BY <1>1, <1>3, <1>4 DEF IInv, RingInv, NotYet, Trb, Empty
<1>10. CopyInv'
  BY <1>1 DEF IInv, CopyInv, Idle
<1>11. FetchInv'
  <2>1. \A i \in 0 .. fetch_idx : trbs[i] = Wanted(i) /\ i \in Slots
    BY <1>2, SizeIs, State DEF IInv
  <2>2. \A i \in 0 .. (fetch_idx' - 1) : trbs'[i] = Wanted(i)'
    BY <1>1, <1>2, <1>4, <1>5, <2>1, SizeIs
  <2>3. fetch_idx' <= staged' /\ Len(executed') = added' - staged' + fetch_idx'
    BY <1>1, <1>2, <1>5, <1>7, State DEF IInv
  <2> QED
    BY <1>1, <1>2, <2>2, <2>3 DEF FetchInv
<1>12. ExecutedInOrder'
  <2> SUFFICES ASSUME NEW k \in 1 .. Len(executed') PROVE executed'[k] = k
    BY DEF ExecutedInOrder
  <2>1. k \in 1 .. Len(executed) \/ k = Len(executed) + 1
    BY <1>7, State DEF IInv
  <2> QED
    BY <1>2, <1>7, <2>1 DEF IInv, ExecutedInOrder
<1> QED
  BY <1>8, <1>9, <1>10, <1>11, <1>12 DEF IInv

(* Every step keeps the invariant; submit_trbs only starts the copy loop.  *)
LEMMA NextIInv == IInv /\ [Next]_vars => IInv'
<1> SUFFICES ASSUME IInv, [Next]_vars PROVE IInv'
  OBVIOUS
<1>1. ASSUME trbs' = trbs, staging' = staging, staged' = staged, cycle_bit' = cycle_bit,
             added' = added, fetch_idx' = fetch_idx, consumer' = consumer,
             executed' = executed, copying' = 0 \/ copying' = copying
      PROVE  IInv'
  <2>1. Last' = Last /\ Link' = Link /\ Slots' = Slots
    BY DEF Last, Link, Slots
  <2>2. \A i : Wanted(i)' = Wanted(i)
    BY <1>1, <2>1 DEF Wanted, Trb, Empty
  <2>3. TypeOK'
    BY <1>1, <2>1, SizeIs DEF IInv, TypeOK
  <2>4. RingInv'
    BY <1>1, <2>1, <2>2 DEF IInv, RingInv, NotYet, Trb, Empty
  <2>5. CopyInv'
    BY <1>1, State DEF IInv, CopyInv, Idle
  <2>6. FetchInv'
    BY <1>1, <2>1, <2>2 DEF IInv, FetchInv
  <2>7. ExecutedInOrder'
    BY <1>1 DEF IInv, ExecutedInOrder
  <2> QED
    BY <2>3, <2>4, <2>5, <2>6, <2>7 DEF IInv
<1>2. CASE Submit
  BY <1>1, <1>2 DEF Submit, controller
<1>3. CASE UNCHANGED vars
  BY <1>1, <1>3 DEF vars, driver, controller
<1> QED
  BY <1>2, <1>3, AddTrbKeepsIInv, CopyKeepsIInv, FlipKeepsIInv, FollowLinkKeepsIInv,
     ExecuteKeepsIInv DEF Next

-----------------------------------------------------------------------------
(* The copied commands.                                                    *)

(* An empty ring satisfies the invariant.                                  *)
LEMMA InitCopied == Init => CopiedInv
BY SizeIs DEF Init, CopiedInv, Idle

(* A step that leaves the ring, what is wanted of it and the number of     *)
(* commands alone, or begins a copy, keeps the copied commands.            *)
LEMMA SameRingCopied ==
  ASSUME IInv, CopiedInv, UNCHANGED <<trbs, staged, cycle_bit, added>>,
         copying' = copying \/ copying' = 0
  PROVE  CopiedInv'
<1>1. Last' = Last /\ Link' = Link /\ Slots' = Slots /\ Slots \subseteq Nat
  BY SizeIs DEF Last, Link, Slots
<1>2. \A i : Copied(i)' = Copied(i)
  BY <1>1 DEF Copied, Wanted, Trb, Empty
<1>3. ~Idle' => \A i \in Slots : i < copying' => Copied(i)
  <2>1. CASE copying' = copying
    BY <2>1 DEF CopiedInv, Idle
  <2>2. CASE copying' = 0
    BY <1>1, <2>2
  <2> QED
    BY <2>1, <2>2
<1> QED
  BY <1>1, <1>2, <1>3 DEF CopiedInv

(* A new command is not copied yet, and those before it stay as they are.  *)
LEMMA AddTrbCopied == IInv /\ CopiedInv /\ AddTrb => CopiedInv'
<1> SUFFICES ASSUME IInv, CopiedInv, AddTrb PROVE CopiedInv'
  OBVIOUS
<1>1. /\ staged # Last /\ staged' = staged + 1 /\ added' = added + 1 /\ trbs' = trbs
      /\ cycle_bit' = cycle_bit /\ Idle'
  BY DEF AddTrb, controller, Idle
<1>2. Last' = Last /\ Link' = Link /\ Slots' = Slots
  BY DEF Last, Link, Slots
<1>3. /\ staged \in Nat /\ added \in Nat /\ staged \in Slots /\ Slots \subseteq Nat
      /\ staged < Last
  BY <1>1, SizeIs, State DEF IInv
<1>4. \A i \in Slots :
        Wanted(i)' = IF i = Last THEN Trb(Link, cycle_bit)
                     ELSE IF i < staged + 1
                          THEN Trb((added + 1) - (staged + 1) + i + 1, cycle_bit)
                     ELSE Trb(Empty, ~cycle_bit)
  BY <1>1, <1>2, Zenon DEF Wanted, Trb, Empty
<1>5. \A i \in Slots : i < staged => (Copied(i)' <=> Copied(i))
  <2> SUFFICES ASSUME NEW i \in Slots, i < staged PROVE Copied(i)' <=> Copied(i)
    OBVIOUS
  <2>1. i < staged + 1 /\ (added + 1) - (staged + 1) + i + 1 = added - staged + i + 1
    BY <1>3
  <2>2. Wanted(i)' = Wanted(i)
    BY <1>4, <2>1, Zenon DEF Wanted
  <2> QED
    BY <1>1, <2>2, Zenon DEF Copied
<1>6. \A i \in Slots : i = staged => ~Copied(i)'
  <2> SUFFICES ASSUME NEW i \in Slots, i = staged, Copied(i)' PROVE FALSE
    OBVIOUS
  <2>1. ~(i < staged) /\ i < staged + 1 /\ (added + 1) - (staged + 1) + i + 1 = added + 1
    BY <1>3
  <2>2. trbs[i] = Trb(Empty, ~cycle_bit)
    BY <1>1, <2>1, Zenon DEF IInv, RingInv, NotYet, Wanted
  <2>3. Wanted(i)' = Trb(added + 1, cycle_bit)
    BY <1>1, <1>4, <2>1, Zenon
  <2>4. trbs[i].what = added + 1
    BY <1>1, <2>3 DEF Copied, Trb
  <2> QED
    BY <1>3, <2>2, <2>4 DEF Trb, Empty
<1>7. \A i, j \in Slots : i <= j /\ j < staged' /\ Copied(j)' => Copied(i)'
  <2> SUFFICES ASSUME NEW i \in Slots, NEW j \in Slots, i <= j, j < staged', Copied(j)'
               PROVE  Copied(i)'
    OBVIOUS
  <2>1. j < staged /\ i < staged
    BY <1>1, <1>3, <1>6
  <2> QED
    BY <1>5, <2>1 DEF CopiedInv
<1> QED
  BY <1>1, <1>2, <1>7 DEF CopiedInv

(* The copy loop passes a slot, and copies in the order of the slots.      *)
LEMMA CopyCopied == IInv /\ CopiedInv /\ Copy => CopiedInv'
<1> SUFFICES ASSUME IInv, CopiedInv, Copy PROVE CopiedInv'
  OBVIOUS
<1>1. /\ ~Idle /\ copying <= staged
      /\ trbs' = [trbs EXCEPT ![copying] = staging[copying]]
      /\ copying' = IF copying = staged THEN RingSize ELSE copying + 1
      /\ staged' = staged /\ added' = added /\ cycle_bit' = cycle_bit
  BY DEF IInv, CopyInv, Copy
<1>2. Last' = Last /\ Link' = Link /\ Slots' = Slots
  BY DEF Last, Link, Slots
<1>3. copying \in Slots /\ Slots \subseteq Nat /\ staged \in Nat
  BY <1>1, SizeIs, State DEF IInv
<1>4. \A i : Wanted(i)' = Wanted(i)
  BY <1>1, <1>2 DEF Wanted, Trb, Empty
<1>5. \A i \in Slots : trbs'[i] = IF i = copying THEN Wanted(i) ELSE trbs[i]
  BY <1>1, <1>3 DEF IInv, TypeOK, RingInv
<1>6. \A i \in Slots : Copied(i)' <=> (i = copying \/ Copied(i))
  BY <1>4, <1>5 DEF Copied
<1>7. \A i \in Slots : i < copying => Copied(i)
  BY <1>1 DEF CopiedInv
<1>8. \A i, j \in Slots : i <= j /\ j < staged' /\ Copied(j)' => Copied(i)'
  BY <1>1, <1>3, <1>6, <1>7 DEF CopiedInv
<1>9. ~Idle' => \A i \in Slots : i < copying' => Copied(i)'
  BY <1>1, <1>3, <1>6, <1>7 DEF Idle
<1> QED
  BY <1>2, <1>8, <1>9 DEF CopiedInv

(* Every step keeps the copied commands.                                   *)
LEMMA NextCopied == IInv /\ CopiedInv /\ [Next]_vars => CopiedInv'
<1> SUFFICES ASSUME IInv, CopiedInv, [Next]_vars PROVE CopiedInv'
  OBVIOUS
<1>1. CASE FlipRing
  <2>1. staged' = 0 /\ Idle' /\ Slots' = Slots /\ Slots \subseteq Nat
    BY <1>1, SizeIs DEF FlipRing, FlipTo, Idle, Slots
  <2> QED
    BY <2>1 DEF CopiedInv
<1>2. CASE Submit \/ FollowLink \/ Execute \/ UNCHANGED vars
  BY <1>2, SameRingCopied DEF Submit, FollowLink, Execute, vars, driver
<1> QED
  BY <1>1, <1>2, AddTrbCopied, CopyCopied DEF Next

(* What the controller finds at its place, if a command is left to it.     *)
LEMMA NextReady == IInv /\ CopiedInv => SubmittedIsNext
<1> SUFFICES ASSUME IInv, CopiedInv, NEW i \in Slots,
                    trbs[i].what \in (Len(executed) + 1) .. MaxCommands
             PROVE  Fetchable /\ trbs[fetch_idx].what = Len(executed) + 1
  BY DEF SubmittedIsNext
<1>1. /\ Slots \subseteq Nat /\ i \in Nat /\ staged \in Nat /\ added \in Nat /\ staged <= added
      /\ fetch_idx \in Nat /\ Len(executed) \in Nat /\ Link = MaxCommands + 1
      /\ MaxCommands \in Nat /\ staged <= Last /\ Last \in Nat /\ fetch_idx \in Slots
  BY SizeIs, State DEF IInv, CopyInv
<1>2. trbs[i] = Wanted(i)
  BY <1>1 DEF IInv, RingInv, NotYet, Trb, Empty
<1>3. /\ i # Last /\ i < staged
      /\ added - staged + i + 1 >= Len(executed) + 1
  <2>1. CASE i = Last
    BY <1>1, <1>2, <2>1 DEF Wanted, Trb
  <2>2. CASE i # Last /\ ~(i < staged)
    BY <1>1, <1>2, <2>2 DEF Wanted, Trb, Empty
  <2>3. CASE i # Last /\ i < staged
    BY <1>1, <1>2, <2>3 DEF Wanted, Trb
  <2> QED
    BY <2>1, <2>2, <2>3
<1>4. consumer = cycle_bit
  BY <1>1, <1>3 DEF IInv, FetchInv
<1>5. Len(executed) = added - staged + fetch_idx /\ fetch_idx <= i
  BY <1>1, <1>3, <1>4 DEF IInv, FetchInv
<1>6. trbs[fetch_idx] = Wanted(fetch_idx)
  BY <1>1, <1>2, <1>3, <1>5 DEF CopiedInv, Copied
<1>7. Wanted(fetch_idx) = Trb(Len(executed) + 1, cycle_bit)
  BY <1>1, <1>3, <1>5 DEF Wanted
<1> QED
  BY <1>4, <1>6, <1>7 DEF Fetchable, Trb

(* What the controller finds at its place in a full lap.                   *)
LEMMA FullLapReady == IInv => FullLapCanEnd
<1> SUFFICES ASSUME IInv, staged = Last, trbs = staging, ~LapOver PROVE Fetchable
  BY DEF FullLapCanEnd
<1>1. consumer = cycle_bit
  BY DEF IInv, FetchInv, LapOver
<1>2. fetch_idx \in Slots /\ (fetch_idx = Last \/ fetch_idx < staged)
  BY SizeIs, State DEF IInv
<1>3. trbs[fetch_idx] = Wanted(fetch_idx)
  BY <1>2 DEF IInv, RingInv
<1>4. Wanted(fetch_idx).cycle = cycle_bit
  BY <1>2 DEF Wanted, Trb
<1> QED
  BY <1>1, <1>3, <1>4 DEF Fetchable

-----------------------------------------------------------------------------
(* The invariants of the run.                                              *)

(* The invariant holds in every reachable state (ring.rs:38-128).          *)
THEOREM Invariance == Spec => []IInv
<1>1. Init => IInv
  BY InitIInv
<1>2. IInv /\ [Next]_vars => IInv'
  BY NextIInv
<1> QED
  BY <1>1, <1>2, PTL DEF Spec

(* Indices stay in the ring, and only TRBs of the ring are executed.       *)
THEOREM TypeCorrectness == Spec => []TypeOK
<1>1. IInv => TypeOK
  BY DEF IInv
<1> QED
  BY <1>1, Invariance, PTL

(* Commands are executed in order, none of them twice and no empty TRB,    *)
(* for every size of the ring and over any number of flips, although       *)
(* submit_trbs copies what has been executed again.                        *)
THEOREM CommandsInOrder == Spec => []ExecutedInOrder
<1>1. IInv => ExecutedInOrder
  BY DEF IInv
<1> QED
  BY <1>1, Invariance, PTL

(* The controller's next command is ready for it as long as any command is *)
(* left in the ring, for every size of the ring and over any number of     *)
(* flips, whether or not submit_trbs is in the middle of its copy          *)
(* (ring.rs:68-108).                                                       *)
THEOREM NextCommandReady == Spec => []SubmittedIsNext
<1>1. Init => CopiedInv
  BY InitCopied
<1>2. IInv /\ CopiedInv /\ [Next]_vars => CopiedInv'
  BY NextCopied
<1>3. IInv /\ CopiedInv => SubmittedIsNext
  BY NextReady
<1> QED
  BY <1>1, <1>2, <1>3, Invariance, PTL DEF Spec

(* A full lap that is copied can be followed to its end, link included     *)
(* (ring.rs:39-50, 87-108).                                                *)
THEOREM FullLapsCanEnd == Spec => []FullLapCanEnd
BY FullLapReady, Invariance, PTL
=============================================================================
