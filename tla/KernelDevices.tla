--------------------------- MODULE KernelDevices ---------------------------
(* The device part of kernel_main (src/kernel/src/main.rs:176-227): scan   *)
(* the PCI buses, walk over the functions found, and for each xHCI         *)
(* controller enable it, map its BAR and bring it up, next to the          *)
(* controller's own steps.                                                 *)
EXTENDS XhciController

vars == <<pciVars, mmioVars, hcVars>>

Init == PciInit /\ MmioInit /\ XhciInit

Scan ==
  /\ pc = "scan"
  /\ IF ScanDone THEN Goto("next") /\ UNCHANGED pciVars
     ELSE ScanDevice /\ UNCHANGED <<pc, acc>>
  /\ UNCHANGED <<mmioVars, regs, fresh, ctl, dma, turn>>

(* The head of the for loop, one turn of the iterator: a function that is  *)
(* no xHCI controller, or has no first BAR, is passed over; the others are *)
(* enabled and mapped.                                                     *)
NextFunction ==
  /\ pc = "next"
  /\ LET loc == Upcoming.loc IN
     IF IterDone
     THEN Goto("frames") /\ UNCHANGED <<iter, command, mmioVars, regs, fresh, ctl, dma, turn>>
     ELSE /\ AdvanceIter
          /\ IF loc = None \/ buses[loc].class # <<12, 3, 48>>
             THEN UNCHANGED <<command, mmioVars, hcVars>>
             ELSE /\ enable_mmio_and_bus_master(loc)
                  /\ LET base == buses[loc].bars[0] IN
                     IF base = None THEN UNCHANGED <<mmioVars, hcVars>>
                     ELSE /\ map_mmio_region(FrameOf(base), OffsetOf(base), WindowSize)
                          /\ EnterBringUp(loc, nextVirt)
  /\ UNCHANGED <<machine, buses, scanPos>>

BringUp == Driver /\ UNCHANGED <<pciVars, mmioVars>>

(* The controller the driver works on takes steps of its own.  Another one *)
(* is never touched, so its steps change nothing that is observed.         *)
Device ==
  /\ ctl.controller # None
  /\ Hardware(ctl.controller[1].loc)
  /\ UNCHANGED <<pciVars, mmioVars>>

Next == Scan \/ NextFunction \/ BringUp \/ Device

(* The driver runs, and a controller that is told to halt, to run or to    *)
(* reset does so in the end: no loop of the code has a timeout.            *)
Fairness ==
  /\ WF_vars(Scan) /\ WF_vars(NextFunction) /\ WF_vars(BringUp)
  /\ \A c \in {<<b, d, f>> : b \in 0..(NumBuses - 1), d \in 0..(NumDevices - 1),
                             f \in 0..(NumFunctions - 1)} :
       WF_vars(/\ c \in Controllers
               /\ ctl.controller # None /\ ctl.controller[1].loc = c
               /\ \/ HcHalt(c) \/ HcRun(c) \/ HcReset(c) \/ HcReady(c)
               /\ UNCHANGED <<ctl, pc, acc, dma, turn, pciVars, mmioVars>>)

Spec == Init /\ [][Next]_vars /\ Fairness

-----------------------------------------------------------------------------
(* Properties.                                                             *)

Driven == ctl.controller[1].loc

TypeOK ==
  /\ DOMAIN regs = Controllers /\ fresh \subseteq Controllers
  /\ pc \in {"scan", "frames", "panic"} \cup {Program[i] : i \in 1..Len(Program)}
  /\ DOMAIN buses \subseteq DOMAIN machine
  /\ turn \in 0..Cardinality(Controllers)
  /\ \A c \in Controllers : regs[c].usb_status \subseteq StatusW1C \cup {"halted", "not_ready"}

(* What PciScan says of the scan and of the iterators, where kernel_main   *)
(* relies on it: when its loop asks for the next function                  *)
(* (main.rs:177-179, pci.rs:156-192, 299-322, 344-432).                    *)
ScanExact == pc = "next" => FunctionsExact /\ IteratorsExact

(* Whenever the bring-up accesses a register, the page of its window leads *)
(* to its own controller, to the right page of it, and the controller      *)
(* decodes memory (main.rs:181-184, paging.rs:37-77, pci.rs:324-333).      *)
AccessReachesController ==
  pc \in Modifies =>
    LET k == PageOf(BlockOf(pc)) IN Faults(k) \/ Reach(k) = {Driven}

(* Only a machine beyond the driver's limits makes it panic: a controller  *)
(* that asks for more scratchpads than there are pointers, or has its      *)
(* runtime registers behind the part of the BAR that is mapped             *)
(* (controller.rs:132-144, main.rs:184, cpu_panic.rs:43-62).               *)
PanicOnlyBeyondLimits ==
  pc = "panic" =>
    LET x == machine[Driven].xhci IN
    x.scratchpads > PointerSlots \/ x.runtimePage >= WindowPages

(* A controller that runs after the kernel has reset it is set up: its     *)
(* registers point at the memory the driver made for them, that memory is  *)
(* allocated, every enabled slot has a context, every scratchpad it asks   *)
(* for is there, its interrupts are on, and the command ring is installed  *)
(* if CRCR can be read back.  Stated for a machine in which one controller *)
(* has been found (controller.rs:68-158, ring.rs:31-169).                  *)
RunsConfigured ==
  (turn = 1 /\ Driven \in fresh /\ "run" \in regs[Driven].usb_cmd) =>
    LET r == regs[Driven]
        x == machine[Driven].xhci IN
    /\ r.dcbaap = Dcbaa /\ r.config = x.slots /\ r.notification_enable = AllNotifications
    /\ ctl.contexts = 1..x.slots
    /\ ctl.scratchpads = 0..(x.scratchpads - 1)
    /\ (ctl.entry0 # NoBlock) = (x.scratchpads > 0)
    /\ r.erst_size = 1 /\ r.erstba = Table(1) /\ r.erdp.ptr = Segment(1)
    /\ {r.dcbaap, r.erstba, r.erdp.ptr, CommandRing(1)} \subseteq dma
    /\ "int_enable" \in r.usb_cmd /\ "enable" \in r.iman
    /\ x.crcrReadable => r.crcr = ctl.commandRing[1]

(* The command ring pointer that setup_op_regs programs is in the register *)
(* of a controller that runs (controller.rs:146-151).                      *)
CommandRingKept ==
  (turn = 1 /\ Driven \in fresh /\ "run" \in regs[Driven].usb_cmd) =>
    regs[Driven].crcr = ctl.commandRing[1]

(* An event interrupt is taken back by ack_interrupt only, or by a reset   *)
(* of the controller: although every modify writes the bit back as it was  *)
(* read, and one is acknowledged by being written (controller.rs:159-169,  *)
(* pci.rs:516-521).  Stated from the reset until a second controller is    *)
(* found, whose bring-up stops the first one again.                        *)
AckOnly ==
  [][\A c \in fresh :
       /\ turn = 1
       /\ "event_interrupt" \in regs[c].usb_status
       /\ "event_interrupt" \notin regs'[c].usb_status
       => pc = "ack status" \/ "reset" \in regs[c].usb_cmd]_vars

(* The registers that a controller may only be given while it is halted    *)
(* change only then, and it is reset only when halted: the waits of reset  *)
(* and the order of the calls in kernel_main (controller.rs:68-81,         *)
(* main.rs:199-211).                                                       *)
ConfiguredWhileHalted ==
  [][\A c \in DOMAIN regs :
       /\ (\E d \in {"dcbaap", "config", "erst_size", "erstba"} : regs'[c][d] # regs[c][d])
            => "halted" \in regs[c].usb_status
       /\ "reset" \in regs'[c].usb_cmd => "halted" \in regs[c].usb_status]_vars

(* The bring-up ends: the kernel reaches its frame loop or has panicked,   *)
(* for every function table and however the controller's answers fall      *)
(* between the driver's accesses (controller.rs:70, 75, 87).               *)
BringUpEnds == <>(pc \in {"frames", "panic"})

-----------------------------------------------------------------------------
(* The inductive invariant.                                                *)

OpModifies == Modifies \ RuntimeModifies

(* The steps behind each step of the bring-up, up to the frame loop.       *)
Started == {"starting", "ports", "next", "frames"}
BehindEventCell == {"start"} \cup Started
BehindEventRing == {"event cell"} \cup BehindEventCell
BehindEventMemory == {"event ring"} \cup BehindEventRing
BehindEnable == {"ack status", "ack pending", "event memory"} \cup BehindEventMemory
BehindRing == {"enable"} \cup BehindEnable
BehindContexts == {"ring"} \cup BehindRing
BehindSlots == {"contexts"} \cup BehindContexts
BehindCommandRing == {"slots"} \cup BehindSlots
Setup == ({"command ring"} \cup BehindCommandRing) \ BehindEventCell

(* A modify is writing, and the first dword has been written; dword j of   *)
(* the value has been read and not yet been written back.                  *)
Begun(m) == pc = m /\ acc.write /\ acc.at > 1
Have(j) == IF acc.write THEN acc.at <= j ELSE j < acc.at

(* Types, beyond TypeOK.                                                   *)
Shape ==
  /\ regs \in [Controllers -> Registers] /\ fresh \subseteq Controllers
  /\ pc \in {"scan", "frames", "panic"} \cup {Program[i] : i \in 1..Len(Program)}
  /\ pc \in Modifies =>
       acc \in [at : 1..Len(BlockOf(pc)), value : Registers, write : BOOLEAN]
  /\ ctl \in [controller : Seq([loc : Locations, page : Nat]),
              commandRing : Seq(Blocks), eventRing : Seq(Blocks),
              contexts : SUBSET Nat, scratchpads : SUBSET Nat, entry0 : Blocks]
  /\ pc \in BehindCommandRing \ Started => ctl.commandRing # None
  /\ command \in [DOMAIN machine -> [enabled : SUBSET {"io", "memory", "master"},
                                    errors : SUBSET {"abort"}]]
  /\ turn \in Nat

(* The scan, the walk over the table and the windows.                      *)
Found ==
  /\ TableExact /\ IterExact /\ MmioInv
  /\ IF pc = "scan" THEN iter = NewIter ELSE ScanDone
  /\ turn = Cardinality(Controllers \cap Yielded)
  /\ pc \in {"scan", "next", "frames"} \/ turn > 0

(* Nothing is driven before the first controller is found, and later the   *)
(* first one, behind the first window.                                     *)
DrivenOK ==
  IF turn = 0
  THEN /\ ctl = [controller |-> None, commandRing |-> None, eventRing |-> None,
                 contexts |-> {}, scratchpads |-> {}, entry0 |-> NoBlock]
       /\ nextVirt = 0
  ELSE /\ ctl.controller = <<[loc |-> Driven, page |-> 0]>>
       /\ Driven \in Controllers \cap Yielded
       /\ "memory" \in command[Driven].enabled
       /\ [page |-> 0, pages |-> WindowPages, frame |-> BarFrame(machine[Driven])] \in windows
       /\ turn = 1 => nextVirt = WindowPages
       /\ turn > 1 => \E c \in Controllers : c # Driven

(* The other controllers are as firmware left them.                        *)
OthersUntouched ==
  \A c \in Controllers :
    turn = 0 \/ c # Driven => c \notin fresh /\ regs[c] \in {ResetRegs, FirmwareRegs}

(* From the wait for the halt to the write that starts the controller it   *)
(* does not run; it resets only when told to; from the reset on it has     *)
(* raised no interrupt.                                                    *)
Halted ==
  LET r == regs[Driven] IN
  turn > 0 =>
    /\ pc \in {"halting", "panic"} \/ Begun("stop") => "run" \notin r.usb_cmd
    /\ pc \in {"reset", "resetting", "start"} \cup Setup /\ ~Begun("start") =>
         "run" \notin r.usb_cmd /\ "halted" \in r.usb_status
    /\ "reset" \in r.usb_cmd => pc = "resetting" \/ Begun("reset")
    /\ pc = "resetting" \/ Begun("reset") =>
         "reset" \in r.usb_cmd
           \/ (Driven \in fresh /\ "event_interrupt" \notin r.usb_status)
    /\ pc \in {"start"} \cup Setup =>
         Driven \in fresh /\ ("event_interrupt" \notin r.usb_status \/ Begun("start"))
    /\ turn = 1 /\ (pc \in {"stop", "halting"} \/ (pc = "reset" /\ ~Begun("reset"))) =>
         fresh = {}

(* The value in hand, where a modify of the operational registers writes   *)
(* it back: apart from what the closure changes it is what the registers   *)
(* hold, but for a controller that is being reset.                         *)
OpValue ==
  LET r == regs[Driven]
      v == acc.value IN
  pc \in OpModifies =>
    /\ Have(1) => ("reset" \in v.usb_cmd <=> pc = "reset" /\ acc.write)
    /\ Have(1) /\ (IF pc = "stop" THEN acc.write ELSE pc = "start" => ~acc.write) =>
         "run" \notin v.usb_cmd
    /\ Have(1) /\ pc = "start" /\ acc.write => {"run", "int_enable"} \subseteq v.usb_cmd
    /\ Have(2) /\ pc = "start" => "event_interrupt" \notin v.usb_status
    /\ acc.write /\ pc = "slots" =>
         /\ v.dcbaap = Dcbaa /\ v.config = machine[Driven].xhci.slots
         /\ v.notification_enable = AllNotifications
    /\ acc.write /\ pc = "ring" => v.crcr = ctl.commandRing[1]
    /\ ~(acc.write /\ pc = "reset") =>
         /\ Have(3) /\ ~(acc.write /\ pc = "slots") =>
              v.notification_enable = r.notification_enable
         /\ Have(4) /\ ~(acc.write /\ pc = "ring") /\ machine[Driven].xhci.crcrReadable =>
              v.crcr = r.crcr
         /\ Have(5) /\ ~(acc.write /\ pc = "slots") => v.dcbaap = r.dcbaap
         /\ Have(6) /\ ~(acc.write /\ pc = "slots") => v.config = r.config

(* The same for the runtime registers, as far as the first bring-up needs  *)
(* it.                                                                     *)
RuntimeValue ==
  LET v == acc.value IN
  turn = 1 /\ pc \in RuntimeModifies =>
    /\ Have(1) /\ (pc = "enable" => acc.write) => "enable" \in v.iman
    /\ acc.write /\ pc = "event ring" =>
         v.erst_size = 1 /\ v.erstba = Table(1) /\ v.erdp.ptr = Segment(1)

(* What the first bring-up has allocated so far.                           *)
Made ==
  LET x == machine[Driven].xhci IN
  turn = 1 =>
    /\ Dcbaa \in dma
    /\ IF pc \in BehindCommandRing
       THEN ctl.commandRing = <<CommandRing(1)>> /\ CommandRing(1) \in dma
       ELSE pc = "panic" \/ ctl.commandRing = None
    /\ IF pc \in BehindContexts
       THEN /\ ctl.contexts = 1..x.slots /\ ctl.scratchpads = 0..(x.scratchpads - 1)
            /\ (ctl.entry0 # NoBlock) = (x.scratchpads > 0)
       ELSE pc = "panic" \/ (ctl.contexts = {} /\ ctl.scratchpads = {} /\ ctl.entry0 = NoBlock)
    /\ pc \in BehindEventMemory => Segment(1) \in dma /\ Table(1) \in dma
    /\ pc \in BehindEventCell \cup {"panic"} \/ ctl.eventRing = None

(* What it has put into the registers.                                     *)
SetUp ==
  LET r == regs[Driven]
      x == machine[Driven].xhci IN
  turn = 1 =>
    /\ pc \in BehindSlots \/ (Begun("slots") /\ acc.at > 3) =>
         r.notification_enable = AllNotifications
    /\ pc \in BehindSlots \/ (Begun("slots") /\ acc.at > 5) => r.dcbaap = Dcbaa
    /\ pc \in BehindSlots => r.config = x.slots
    /\ (pc \in BehindRing \/ (Begun("ring") /\ acc.at > 4)) /\ x.crcrReadable =>
         r.crcr = ctl.commandRing[1]
    /\ pc \in BehindEnable \/ Begun("enable") => "enable" \in r.iman
    /\ Begun("event ring") /\ acc.at > 2 => r.erst_size = 1
    /\ Begun("event ring") /\ acc.at > 3 => r.erstba = Table(1)
    /\ pc \in BehindEventRing =>
         r.erst_size = 1 /\ r.erstba = Table(1) /\ r.erdp.ptr = Segment(1)
    /\ pc \in Started \/ Begun("start") => "int_enable" \in r.usb_cmd

DevicesInv ==
  /\ Shape /\ Found /\ DrivenOK /\ OthersUntouched
  /\ Halted /\ OpValue /\ RuntimeValue /\ Made /\ SetUp
=============================================================================
