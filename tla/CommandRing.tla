---------------------------- MODULE CommandRing ----------------------------
(***************************************************************************)
(* XhciCommandRing of pci/usb/xhci/ring.rs: commands are staged, copied to *)
(* the ring one TRB at a time while the host controller fetches from it,   *)
(* and the whole ring is flipped when a lap is over.  Commands are         *)
(* numbered in the order of add_trb; trb_tags, which nothing reads, are    *)
(* left out.  The kernel rings no doorbell yet, so nothing makes a         *)
(* controller look at the ring: it may do so at any moment, or never, and  *)
(* no fairness is assumed of it.                                           *)
(***************************************************************************)
EXTENDS Naturals, Sequences

CONSTANTS
  RingSize,     (* MAX_TRB_COUNT; the last TRB is the link.                 *)
  MaxCommands   (* Bound on the commands staged.                            *)

ASSUME RingSizeAssumption == RingSize \in Nat \ {0, 1}
ASSUME MaxCommandsAssumption == MaxCommands \in Nat

VARIABLES
  trbs,         (* The ring in memory.                                      *)
  staging,      (* staging_trbs.                                            *)
  staged,       (* staging_enqueue_trb_index.                               *)
  cycle_bit,    (* The cycle bit of this lap's commands.                    *)
  copying,      (* submit_trbs: the next index to copy; RingSize when idle. *)
  added,        (* How many commands add_trb has accepted.                  *)
  fetch_idx,    (* Where the controller reads next.                         *)
  consumer,     (* Its consumer cycle state.                                *)
  executed      (* The TRBs the controller has executed.                    *)

driver     == <<staging, staged, cycle_bit, copying, added>>
controller == <<fetch_idx, consumer, executed>>
vars       == <<trbs, driver, controller>>

Slots == 0 .. (RingSize - 1)
Last  == RingSize - 1

(* What a TRB is: a command, or one of these. *)
Empty == 0
Link  == MaxCommands + 1

Trb(what, cycle) == [what |-> what, cycle |-> cycle]

(* Empty TRBs with one cycle bit, the link with another. *)
Blank(empty, link) ==
  [i \in Slots |-> IF i = Last THEN Trb(Link, link) ELSE Trb(Empty, empty)]

TypeOK ==
  /\ trbs \in [Slots -> [what : 0 .. Link, cycle : BOOLEAN]]
  /\ staging \in [Slots -> [what : 0 .. Link, cycle : BOOLEAN]]
  /\ staged \in Slots /\ copying \in 0 .. RingSize
  /\ cycle_bit \in BOOLEAN /\ consumer \in BOOLEAN
  /\ added \in 0 .. MaxCommands
  /\ fetch_idx \in Slots
  /\ executed \in Seq(0 .. Link)

-----------------------------------------------------------------------------
(* init_ring; setup_op_regs gives the controller the base and the cycle.   *)
Init ==
  /\ trbs = Blank(FALSE, TRUE) /\ staging = Blank(FALSE, TRUE)
  /\ staged = 0 /\ cycle_bit = TRUE
  /\ copying = RingSize
  /\ added = 0
  /\ fetch_idx = 0 /\ consumer = TRUE /\ executed = <<>>

Idle == copying = RingSize

(* Mutation of AddTrb: a full staging area is not refused.                 *)
AddTrbUnchecked ==
  /\ Idle
  /\ added < MaxCommands
  /\ staging' = [staging EXCEPT ![staged] = Trb(added + 1, cycle_bit)]
  /\ staged' = staged + 1
  /\ added' = added + 1
  /\ UNCHANGED <<trbs, cycle_bit, copying, controller>>

(* Mutation of AddTrb: commands of every lap get the cycle bit of the first. *)
AddTrbFirstLap ==
  /\ Idle
  /\ added < MaxCommands
  /\ staged # Last
  /\ staging' = [staging EXCEPT ![staged] = Trb(added + 1, TRUE)]
  /\ staged' = staged + 1
  /\ added' = added + 1
  /\ UNCHANGED <<trbs, cycle_bit, copying, controller>>

(* add_trb, unless the staging area is full. *)
AddTrb ==
  /\ Idle
  /\ added < MaxCommands
  /\ staged # Last
  /\ staging' = [staging EXCEPT ![staged] = Trb(added + 1, cycle_bit)]
  /\ staged' = staged + 1
  /\ added' = added + 1
  /\ UNCHANGED <<trbs, cycle_bit, copying, controller>>

(* submit_trbs copies from index 0 again, up to and including the TRB      *)
(* behind the last command. *)
Submit ==
  /\ Idle
  /\ copying' = 0
  /\ UNCHANGED <<trbs, staging, staged, cycle_bit, added, controller>>

Copy ==
  /\ ~Idle
  /\ trbs' = [trbs EXCEPT ![copying] = staging[copying]]
  /\ copying' = IF copying = staged THEN RingSize ELSE copying + 1
  /\ UNCHANGED <<staging, staged, cycle_bit, added, controller>>

(***************************************************************************)
(* flip_ring tests nothing.  It is called when the controller has followed *)
(* the link and waits at the first TRB, with its cycle state toggled: it   *)
(* then reads nothing it could execute until the next submit, so that the  *)
(* writes of flip_ring can be taken as one step.                           *)
(***************************************************************************)
LapOver == fetch_idx = 0 /\ consumer # cycle_bit

FlipTo(empty, link) ==
  /\ Idle
  /\ LapOver
  /\ cycle_bit' = ~cycle_bit
  /\ trbs' = Blank(empty, link)
  /\ staging' = Blank(empty, link)
  /\ staged' = 0
  /\ UNCHANGED <<copying, added, controller>>

(* Mutation of FlipRing: the empty TRBs get the new cycle bit.             *)
FlipFreshEmpties == FlipTo(~cycle_bit, ~cycle_bit)

(* Mutation of FlipRing: the link keeps the old cycle bit.                 *)
FlipStaleLink == FlipTo(cycle_bit, cycle_bit)

FlipRing == FlipTo(cycle_bit, ~cycle_bit)

(***************************************************************************)
(* The controller.                                                         *)
(***************************************************************************)
Fetchable == trbs[fetch_idx].cycle = consumer

FollowLink ==
  /\ Fetchable /\ trbs[fetch_idx].what = Link
  /\ fetch_idx' = 0
  /\ consumer' = ~consumer
  /\ UNCHANGED <<trbs, driver, executed>>

Execute ==
  /\ Fetchable /\ trbs[fetch_idx].what # Link
  /\ executed' = Append(executed, trbs[fetch_idx].what)
  /\ fetch_idx' = (fetch_idx + 1) % RingSize
  /\ UNCHANGED <<trbs, driver, consumer>>

Next == AddTrb \/ Submit \/ Copy \/ FlipRing \/ FollowLink \/ Execute

Spec == Init /\ [][Next]_vars
-----------------------------------------------------------------------------
(* Every command is executed at most once and in the order of add_trb: no  *)
(* command of an earlier lap, no empty TRB and no half-copied ring reaches *)
(* the controller, although submit_trbs copies old TRBs again.             *)
ExecutedInOrder == \A k \in 1 .. Len(executed) : executed[k] = k

(* The controller never waits in vain: while a command in the ring is not  *)
(* executed, whatever lap it belongs to and however far the copy is, the   *)
(* TRB the controller looks at is the next command and carries its cycle   *)
(* bit.  A doorbell is all it takes (ring.rs:68-108).                      *)
SubmittedIsNext ==
  (\E i \in Slots : trbs[i].what \in (Len(executed) + 1) .. MaxCommands)
    => Fetchable /\ trbs[fetch_idx].what = Len(executed) + 1

(* A lap that is full and copied can come to its end: up to the link, and  *)
(* the link included, each TRB is the controller's when it comes to it, so *)
(* that the ring can be flipped (ring.rs:39-50, 87-108).                   *)
FullLapCanEnd == (staged = Last /\ trbs = staging) => LapOver \/ Fetchable
=============================================================================
