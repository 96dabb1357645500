--------------------------- MODULE XhciController ---------------------------
(* The xHCI driver's bring-up (controller.rs, the init functions of        *)
(* ring.rs, the register blocks of registers.rs, PciValue of pci.rs) next  *)
(* to the controller, which changes its registers between any two of the   *)
(* driver's accesses.  PciValue::modify is what makes this hard: it reads  *)
(* a whole block dword by dword, changes a field, and writes every dword   *)
(* back, those it did not mean to touch included.                          *)
EXTENDS PciScan, MmioMap, FiniteSets

CONSTANTS
  PointerSlots,  \* length of XhciDcbaa.scratchpad_pointers, 256
  WindowSize     \* 16.kb(), the part of a BAR that kernel_main maps

VARIABLES
  regs,   \* controller |-> its registers (external)
  fresh,  \* the controllers that have been reset since power on
  ctl,    \* XHCI_CONTROLLER, XHCI_COMMAND_RING and XHCI_EVENT_RING, each a
          \* sequence of at most one element, and the entries of XhciDcbaa
  pc,     \* where the driver is: the modify or the step between modifies
  acc,    \* the modify in progress: the dword it is at, the value, the direction
  dma,    \* the blocks of device memory that are allocated
  turn    \* how often the bring-up has been entered

hcVars == <<regs, fresh, ctl, pc, acc, dma, turn>>

NoBlock == <<>>

-----------------------------------------------------------------------------
(* The registers, dword by dword in the order of their addresses; a 64-bit *)
(* register counts as one, page_size, mf_index and IMOD are left out: the  *)
(* first two are read-only and the driver never changes the third.         *)

OpBlock == <<"usb_cmd", "usb_status", "notification_enable", "crcr", "dcbaap", "config">>
RuntimeBlock == <<"iman", "erst_size", "erstba", "erdp">>

(* Status bits that a written one clears: XhciUsbStatus::zero_w1c.         *)
StatusW1C == {"system_error", "event_interrupt", "port_changed", "save_restore_error"}

(* The sixteen notifications of 0xffff, each by its bit.                   *)
AllNotifications == 0..15

(* The controller's registers after a reset, and as firmware that used the *)
(* controller leaves them.                                                 *)
ResetRegs ==
  [usb_cmd |-> {}, usb_status |-> {"halted", "not_ready"}, notification_enable |-> {},
   crcr |-> NoBlock, dcbaap |-> NoBlock, config |-> 0, iman |-> {}, erst_size |-> 0,
   erstba |-> NoBlock, erdp |-> [ptr |-> NoBlock, busy |-> FALSE]]

(* What the registers hold; a block of memory is named by what it is for.  *)
BlockUses ==
  {"firmware", "event segment", "segment table", "command ring", "dcbaa", "scratchpads"}
Blocks == {NoBlock} \cup (BlockUses \X Nat)
Registers ==
  [usb_cmd : SUBSET {"run", "int_enable", "reset"},
   usb_status : SUBSET (StatusW1C \cup {"halted", "not_ready"}),
   notification_enable : SUBSET AllNotifications, crcr : Blocks, dcbaap : Blocks, config : Nat,
   iman : SUBSET {"pending", "enable"}, erst_size : Nat, erstba : Blocks,
   erdp : [ptr : Blocks, busy : BOOLEAN]]

Firmware == <<"firmware", 0>>

FirmwareRegs ==
  [usb_cmd |-> {"run", "int_enable"}, usb_status |-> {"event_interrupt"},
   notification_enable |-> {1}, crcr |-> Firmware, dcbaap |-> Firmware, config |-> 1,
   iman |-> {"pending", "enable"}, erst_size |-> 1, erstba |-> Firmware,
   erdp |-> [ptr |-> Firmware, busy |-> TRUE]]

(* What a read of a dword returns.  The pointer and the cycle state of     *)
(* CRCR read as 0 unless the controller shows them.                        *)
ReadOf(c, d) == IF d = "crcr" /\ ~machine[c].xhci.crcrReadable THEN NoBlock ELSE regs[c][d]

(* The registers of a controller after v has been written to dword d.      *)
WriteOf(r, d, v) ==
  CASE d = "usb_cmd" ->
         [r EXCEPT !.usb_cmd = v \cup (@ \cap {"reset"}),
                   !.usb_status = IF "reset" \in v THEN @ \cup {"not_ready"} ELSE @]
    [] d = "usb_status" -> [r EXCEPT !.usb_status = @ \ (v \cap StatusW1C)]
    [] d = "iman" -> [r EXCEPT !.iman = (v \cap {"enable"}) \cup ((@ \ v) \cap {"pending"})]
    [] d = "erdp" -> [r EXCEPT !.erdp = [ptr |-> v.ptr, busy |-> @.busy /\ ~v.busy]]
    [] OTHER -> [r EXCEPT ![d] = v]

-----------------------------------------------------------------------------
(* The controller's own steps (external).                                  *)

HcHalt(c) ==
  /\ "run" \notin regs[c].usb_cmd /\ "halted" \notin regs[c].usb_status
  /\ regs' = [regs EXCEPT ![c].usb_status = @ \cup {"halted"}]
  /\ UNCHANGED fresh

HcRun(c) ==
  /\ "run" \in regs[c].usb_cmd /\ "reset" \notin regs[c].usb_cmd
  /\ "halted" \in regs[c].usb_status
  /\ regs' = [regs EXCEPT ![c].usb_status = @ \ {"halted"}]
  /\ UNCHANGED fresh

HcReset(c) ==
  /\ "reset" \in regs[c].usb_cmd
  /\ regs' = [regs EXCEPT ![c] = ResetRegs]
  /\ fresh' = fresh \cup {c}

HcReady(c) ==
  /\ "not_ready" \in regs[c].usb_status /\ "reset" \notin regs[c].usb_cmd
  /\ regs' = [regs EXCEPT ![c].usb_status = @ \ {"not_ready"}]
  /\ UNCHANGED fresh

(* A device is plugged in or out.                                          *)
HcPort(c) ==
  /\ "port_changed" \notin regs[c].usb_status
  /\ regs' = [regs EXCEPT ![c].usb_status = @ \cup {"port_changed"}]
  /\ UNCHANGED fresh

(* A running controller posts an event and raises its interrupt.           *)
HcEvent(c) ==
  /\ "halted" \notin regs[c].usb_status
  /\ regs[c].erst_size > 0
  /\ "pending" \notin regs[c].iman
  /\ regs' = [regs EXCEPT ![c].usb_status = @ \cup {"event_interrupt"},
                          ![c].iman = @ \cup {"pending"},
                          ![c].erdp.busy = TRUE]
  /\ UNCHANGED fresh

Hardware(c) ==
  /\ \/ HcHalt(c) \/ HcRun(c) \/ HcReset(c) \/ HcReady(c) \/ HcPort(c) \/ HcEvent(c)
  /\ UNCHANGED <<ctl, pc, acc, dma, turn>>

-----------------------------------------------------------------------------
(* Where the driver's accesses go.                                         *)

ControllersOf(m) == {l \in DOMAIN m : m[l].class = <<12, 3, 48>>}
Controllers == ControllersOf(machine)

(* The frame and the offset in it of a BAR's base, up to 1 TB.             *)
FrameOf(base) ==
  LET lo == base[1] IN lo[2] \div 16 + 16 * lo[3] + 4096 * lo[4] + 1048576 * base[2][1]
OffsetOf(base) == base[1][1] + 256 * (base[1][2] % 16)

BarFrame(dev) == FrameOf(RegionBase(dev, 0))
WindowPages == PagesOf(0, WindowSize)

ASSUME WindowAssumption == WindowSize \in Nat \ {0} /\ PointerSlots \in Nat

(* The xHCI specification puts the registers of a controller behind BAR 0, *)
(* whose size aligns it; no two BARs overlap.  With several controllers    *)
(* the runtime registers are taken to lie in the part that is mapped: the  *)
(* page behind it may belong to the window of the next one.                *)
ASSUME ControllersAssumption ==
  \A m \in Machines : \A c \in ControllersOf(m) :
    /\ m[c].bars[0].kind \in {"mem32", "mem64"}
    /\ OffsetOf(RegionBase(m[c], 0)) = 0
    /\ m[c].xhci \in [runtimePage : Nat, slots : Nat, scratchpads : Nat,
                      crcrReadable : BOOLEAN]
    /\ \A e \in ControllersOf(m) \ {c} :
         BarFrame(m[c]) # BarFrame(m[e]) /\ m[c].xhci.runtimePage < WindowPages

(* The controllers that answer at the k-th page of the BAR's window: the   *)
(* page must be mapped to that page of the device, and the device must     *)
(* decode memory.                                                          *)
Reach(k) ==
  LET page == ctl.controller[1].page + k IN
  {c \in Controllers :
     /\ page \in DOMAIN pageTable
     /\ pageTable[page] = BarFrame(machine[c]) + k
     /\ "memory" \in command[c].enabled}

Faults(k) == ctl.controller[1].page + k \notin DOMAIN pageTable

(* The page of the BAR a register block lies in: the operational registers *)
(* follow the capabilities, the runtime registers are where they say.      *)
PageOf(block) ==
  IF block = RuntimeBlock THEN machine[ctl.controller[1].loc].xhci.runtimePage ELSE 0

-----------------------------------------------------------------------------
(* The driver's bring-up in program order: reset, XhciCommandRing::        *)
(* init_ring, setup_op_regs, setup_runtime_regs with its ack_interrupt,    *)
(* XhciEventRing::init_ring, start, and the port loop of kernel_main.      *)

(* Mutation of Program: kernel_main calls setup_op_regs after start.       *)
ProgramSetupLast ==
  <<"stop", "halting", "reset", "resetting", "command ring", "enable",
    "ack status", "ack pending", "event memory", "event ring", "event cell",
    "start", "starting", "slots", "contexts", "ring", "ports", "next">>

Program ==
  <<"stop", "halting", "reset", "resetting", "command ring",
    "slots", "contexts", "ring", "enable", "ack status", "ack pending",
    "event memory", "event ring", "event cell", "start", "starting",
    "ports", "next">>

RuntimeModifies == {"enable", "ack pending", "event ring"}
Modifies == {"stop", "reset", "slots", "ring", "ack status", "start"} \cup RuntimeModifies

After(x) == Program[1 + CHOOSE i \in 1..(Len(Program) - 1) : Program[i] = x]

BlockOf(m) == IF m \in RuntimeModifies THEN RuntimeBlock ELSE OpBlock

(* A modify starts at the first dword; ResetRegs stands for the dwords of  *)
(* the value that have not been read.                                      *)
Begin == [at |-> 1, value |-> ResetRegs, write |-> FALSE]
Idle == [at |-> 0, value |-> ResetRegs, write |-> FALSE]

Segment(n) == <<"event segment", n>>
Table(n) == <<"segment table", n>>
CommandRing(n) == <<"command ring", n>>
Dcbaa == <<"dcbaa", 1>>

(* The closure that each modify applies to the value it has read.          *)
Closure(m, v) ==
  CASE m = "stop"  -> [v EXCEPT !.usb_cmd = @ \ {"run"}]
    [] m = "reset" -> [v EXCEPT !.usb_cmd = @ \cup {"reset"}]
    [] m = "slots" -> [v EXCEPT !.config = machine[ctl.controller[1].loc].xhci.slots,
                                !.notification_enable = AllNotifications,
                                !.dcbaap = Dcbaa]
    [] m = "ring"  -> [v EXCEPT !.crcr = ctl.commandRing[1]]
    [] m = "enable" -> [v EXCEPT !.iman = @ \cup {"enable"}]
    [] m = "ack status" -> [v EXCEPT !.usb_status = @ \cup {"event_interrupt"}]
    [] m = "ack pending" -> [v EXCEPT !.iman = @ \cup {"pending"}]
    [] m = "event ring" -> [v EXCEPT !.erst_size = 1,
                                     !.erdp = [ptr |-> Segment(turn), busy |-> TRUE],
                                     !.erstba = Table(turn)]
    [] m = "start" -> [v EXCEPT !.usb_cmd = @ \cup {"run", "int_enable"}]

(* To the next step of the program; a modify starts with its first read.   *)
Goto(x) ==
  /\ pc' = x
  /\ acc' = IF x \in Modifies THEN Begin ELSE Idle

Panic == Goto("panic") /\ UNCHANGED <<regs, fresh, ctl, dma, turn>>

(* An access to a page of the window that is not mapped ends in            *)
(* page_fault_handler, which panics.                                       *)
AccessFaults ==
  /\ pc \in Modifies
  /\ Faults(PageOf(BlockOf(pc)))
  /\ Panic

(* PciValue::read inside modify, one dword; after the last one the closure *)
(* runs and the writing begins.                                            *)
ReadDword ==
  /\ pc \in Modifies /\ ~acc.write
  /\ \E c \in Reach(PageOf(BlockOf(pc))) :
       LET d == BlockOf(pc)[acc.at]
           v == [acc.value EXCEPT ![d] = ReadOf(c, d)]
       IN acc' = IF acc.at < Len(BlockOf(pc))
                 THEN [acc EXCEPT !.at = @ + 1, !.value = v]
                 ELSE [at |-> 1, value |-> Closure(pc, v), write |-> TRUE]
  /\ UNCHANGED <<regs, fresh, ctl, pc, dma, turn>>

(* PciValue::write inside modify, one dword.  Whether a controller that is *)
(* resetting takes a write is undefined: it may or may not.                *)
WriteDword ==
  /\ pc \in Modifies /\ acc.write
  /\ \E c \in Reach(PageOf(BlockOf(pc))) :
       LET d == BlockOf(pc)[acc.at] IN
       \/ regs' = [regs EXCEPT ![c] = WriteOf(@, d, acc.value[d])]
       \/ "reset" \in regs[c].usb_cmd /\ UNCHANGED regs
  /\ IF acc.at < Len(BlockOf(pc))
     THEN acc' = [acc EXCEPT !.at = @ + 1] /\ UNCHANGED pc
     ELSE Goto(After(pc))
  /\ UNCHANGED <<fresh, ctl, dma, turn>>

(* Mutation of Answered: reset does not wait for the halt.                 *)
AnsweredAtOnce(r) ==
  \/ pc = "halting"
  \/ pc = "resetting" /\ "reset" \notin r.usb_cmd /\ "not_ready" \notin r.usb_status
  \/ pc = "starting" /\ "halted" \notin r.usb_status

(* Mutation of Answered: start waits for the halted bit instead of its     *)
(* absence.                                                                *)
AnsweredHalted(r) ==
  \/ pc \in {"halting", "starting"} /\ "halted" \in r.usb_status
  \/ pc = "resetting" /\ "reset" \notin r.usb_cmd /\ "not_ready" \notin r.usb_status

(* The loops of reset and start go round until the registers show this,    *)
(* and have no timeout.  wait_ms is part of the step.                      *)
Answered(r) ==
  \/ pc = "halting" /\ "halted" \in r.usb_status
  \/ pc = "resetting" /\ "reset" \notin r.usb_cmd /\ "not_ready" \notin r.usb_status
  \/ pc = "starting" /\ "halted" \notin r.usb_status

Spin ==
  /\ pc \in {"halting", "resetting", "starting"}
  /\ \E c \in Reach(0) : Answered(regs[c])
  /\ Goto(After(pc))
  /\ UNCHANGED <<regs, fresh, ctl, dma, turn>>

(* XhciCommandRing::init_ring: call_once keeps the first ring and drops    *)
(* what is built when the cell is full.                                    *)
InitCommandRing ==
  /\ pc = "command ring"
  /\ IF ctl.commandRing = None
     THEN /\ ctl' = [ctl EXCEPT !.commandRing = <<CommandRing(turn)>>]
          /\ dma' = dma \cup {CommandRing(turn)}
     ELSE UNCHANGED <<ctl, dma>>
  /\ Goto(After(pc))
  /\ UNCHANGED <<regs, fresh, turn>>

(* Mutation of FillDcbaa: as many scratchpads as pointers are refused.     *)
FillDcbaaShortArray ==
  /\ pc = "contexts"
  /\ LET x == machine[ctl.controller[1].loc].xhci IN
     IF x.scratchpads >= PointerSlots THEN Panic
     ELSE /\ ctl' = [ctl EXCEPT
                       !.contexts = @ \cup 1..x.slots,
                       !.scratchpads = @ \cup 0..(x.scratchpads - 1),
                       !.entry0 = IF x.scratchpads > 0 THEN <<"scratchpads", 1>> ELSE @]
          /\ Goto(After(pc))
          /\ UNCHANGED <<regs, fresh, dma, turn>>

(* Mutation of FillDcbaa: the contexts are made for the slots from 0 on.   *)
FillDcbaaFromZero ==
  /\ pc = "contexts"
  /\ LET x == machine[ctl.controller[1].loc].xhci IN
     IF x.scratchpads > PointerSlots THEN Panic
     ELSE /\ ctl' = [ctl EXCEPT
                       !.contexts = @ \cup 0..(x.slots - 1),
                       !.scratchpads = @ \cup 0..(x.scratchpads - 1),
                       !.entry0 = IF x.scratchpads > 0 THEN <<"scratchpads", 1>> ELSE @]
          /\ Goto(After(pc))
          /\ UNCHANGED <<regs, fresh, dma, turn>>

(* The middle of setup_op_regs: a context for each slot from 1 on, and the *)
(* scratchpads, whose pointers are an array of PointerSlots.               *)
FillDcbaa ==
  /\ pc = "contexts"
  /\ LET x == machine[ctl.controller[1].loc].xhci IN
     IF x.scratchpads > PointerSlots THEN Panic
     ELSE /\ ctl' = [ctl EXCEPT
                       !.contexts = @ \cup 1..x.slots,
                       !.scratchpads = @ \cup 0..(x.scratchpads - 1),
                       !.entry0 = IF x.scratchpads > 0 THEN <<"scratchpads", 1>> ELSE @]
          /\ Goto(After(pc))
          /\ UNCHANGED <<regs, fresh, dma, turn>>

(* XhciEventRing::init_ring before and behind its modify: the segment and  *)
(* its table are allocated, and kept if the cell was empty; call_once      *)
(* drops them otherwise.                                                   *)
AllocEventRing ==
  /\ pc = "event memory"
  /\ dma' = dma \cup {Segment(turn), Table(turn)}
  /\ Goto(After(pc))
  /\ UNCHANGED <<regs, fresh, ctl, turn>>

StoreEventRing ==
  /\ pc = "event cell"
  /\ IF ctl.eventRing = None
     THEN ctl' = [ctl EXCEPT !.eventRing = <<Segment(turn)>>] /\ UNCHANGED dma
     ELSE dma' = dma \ {Segment(turn), Table(turn)} /\ UNCHANGED ctl
  /\ Goto(After(pc))
  /\ UNCHANGED <<regs, fresh, turn>>

(* The loop over get_port_reg(1..=max_ports) only reads.                   *)
ReadPorts ==
  /\ pc = "ports"
  /\ \E c \in Reach(0) : Goto(After(pc))
  /\ UNCHANGED <<regs, fresh, ctl, dma, turn>>

Driver ==
  \/ AccessFaults \/ ReadDword \/ WriteDword \/ Spin \/ InitCommandRing
  \/ FillDcbaa \/ AllocEventRing \/ StoreEventRing \/ ReadPorts

(* XhciController::new in call_once: the first controller found stays the  *)
(* driver's controller; then the bring-up begins.                          *)
EnterBringUp(loc, page) ==
  /\ turn' = turn + 1
  /\ IF ctl.controller = None
     THEN /\ ctl' = [ctl EXCEPT !.controller = <<[loc |-> loc, page |-> page]>>]
          /\ dma' = dma \cup {Dcbaa, <<"scratchpads", 1>>}
     ELSE UNCHANGED <<ctl, dma>>
  /\ Goto("stop")
  /\ UNCHANGED <<regs, fresh>>

XhciInit ==
  /\ regs \in [Controllers -> {ResetRegs, FirmwareRegs}]
  /\ fresh = {}
  /\ ctl = [controller |-> None, commandRing |-> None, eventRing |-> None,
            contexts |-> {}, scratchpads |-> {}, entry0 |-> NoBlock]
  /\ pc = "scan"
  /\ acc = Idle
  /\ dma = {}
  /\ turn = 0
=============================================================================
