# blubos in TLA+

A TLA+ model of the kernel of this repository: the heap, from the boot loader's
memory map to the blocks its clients get; the two xHCI rings that the kernel
shares with the USB host controller; the device part of `kernel_main`, from the
PCI scan to a running controller; and the kernel's thread with its interrupt
handlers, from `_start` to the frame loop. The modules are translated from
`src/kernel/src`. TLC checks them on small instances, and TLAPS proves the
safety of the heap, its red-black tree and its switch of allocators, of the
device part, of both rings, of the interrupt handlers and of the screen for every
value of the constants.

## 1. The system

blubos is a small x86-64 kernel that Limine boots. One thread of control runs
`kernel_stack_init` and then `kernel_main` (`main.rs`). The other actors are the
interrupt handlers (timer, keyboard, a catch-all) and the devices that share
memory with the kernel, of which the xHCI host controller is the only one.
Global state is in `static mut`s and `spin::Once` cells; no lock is ever taken.

| Component | State | Operations | What makes it correct |
|---|---|---|---|
| Tree allocator, `allocator/tree_alloc.rs` | a left-leaning red-black tree of free regions keyed by base, each node with the largest size below it; a freelist of nodes | `alloc`, `free`, `insert`, `delete`, `init` | blocks in use never overlap each other or the tree; keys unique and ordered; tree balanced (the `unwrap`s of `delete` rely on it); `max_size` exact; no node lost |
| Kernel allocator, `allocator/allocator.rs` | `KERNEL_ALLOC_MODE` | `find_heap_areas`, dispatch of `alloc` and `dealloc` | the switch from the bump heap to the tree neither loses nor doubles memory |
| Bump allocator, `allocator/bump_alloc.rs` | base, size, `NEXT` | `init_bump_alloc`, `alloc` | stays inside its 4 MB |
| XhciAllocator, `allocator/xhci.rs` | the controller's address mode | `allocate`, `deallocate` | device memory lies below the limit and does not cross its boundary |
| Paging, `allocator/paging.rs` | page tables, the next MMIO address | `allocate_frame`, `map_mmio_region` | frames come from the heap once; windows do not overlap |
| Command ring, `xhci/ring.rs` | the ring in memory, a staging copy, an index, a cycle bit | `add_trb`, `submit_trbs`, `flip_ring` | the controller executes each command once, in order |
| Event ring, `xhci/ring.rs` | the segment in memory, an index, a cycle bit, ERDP | `dequeue_trb`, `dequeue_events` | events arrive in order, once, and none is overwritten unread |
| TRBs, `xhci/trb.rs` | - | constructors, cycle bit | layout |
| Controller, `xhci/controller.rs`, `registers.rs` | MMIO registers, the device context array | `reset`, `start`, `setup_op_regs`, `setup_runtime_regs`, `ack_interrupt` | order of set-up; write-one-to-clear bits survive a `modify`; waits end |
| PCI, `pci/pci.rs` | the table of buses, devices and functions | `scan`, the iterators, `read_bars`, `PciValue::modify` | each function found and visited once; 64-bit BARs take two slots |
| Boot and main loop, `main.rs`, `cpu_panic.rs` | the once-cells, IDT, PIC | boot order, handlers, frame loop | cells are initialised before a handler reads them |
| Timer, keyboard, `time.rs`, `ps2.rs` | `TICKS`, `KEYPRSS_COUNT` | handlers, `wait_ms` | waits end; no key is lost |
| Framebuffer and font, `framebuffer.rs`, `font_renderer.rs` | back buffer, front buffer, text buffer | `clear`, `draw_string`, `flip` | writes stay in the buffer; the screen shows each frame's text |
| Serial port, `byte_ext.rs` | ports | printing | - |
| `proc_macros`, `xtask`, `save.rs`, `all_rust.rs` | - | build time, or not compiled | - |

How they interact. `init_bump_alloc` and `TreeAlloc::init` both read the memory
map; the tree takes its nodes from the bump heap for ever; `Box`es of the kernel
go through `KernelAlloc`, which asks whichever allocator the mode names *at that
moment*; rings and contexts go through `XhciAllocator` and page tables through
`allocate_frame`, both straight to the tree. The rings are memory that driver
and controller write concurrently. ERDP and the cycle bits are their only
synchronisation. Registers of the controller are reached through windows that
`map_mmio_region` carves for the BARs that the scan found, and are changed with
`PciValue::modify`, which reads a whole block and writes it back. Interrupt
handlers share `TICKS` and `KEYPRSS_COUNT` with the thread they interrupt.

What is hard here: arithmetic on regions at their boundaries, over long
sequences of calls; a balanced tree whose keys change in place (a cut moves a
node's base); the change of allocator under live blocks; a device that runs
between any two instructions of the driver; cycle bits over several laps;
registers written back as they were read, among them bits that a written one
clears; interrupts before the cells that their handlers unwrap. The full list,
each at its line, is `hazards` in `PROJECT.json`.

## 2. The modules

| Module | Models |
|---|---|
| `Regions` | regions, requests, and the assumptions on the memory map |
| `BlockHeap` | what a heap promises its callers (abstract) |
| `RegionPool` | `RBTreeAlloc` with the tree as a set of regions; implements `BlockHeap` |
| `LLRB` | the tree: insert, delete, rotations, searches, `max_size` |
| `TreeAlloc` | `RBTreeAlloc` with the tree and its freelist; implements `RegionPool` |
| `TreeHeap` | `TreeAlloc` with the assumption that the heap areas are apart |
| `KernelHeap` | boot, both allocators, the switch, the stack, frames, `XhciAllocator` |
| `EventQueue` | what an event ring promises (abstract) |
| `EventRing` | `XhciEventRing` and the controller; implements `EventQueue` |
| `CommandRing` | `XhciCommandRing` and the controller |
| `PciScan` | configuration accesses, BARs, `scan`, the table, both iterators |
| `MmioMap` | `map_mmio_region` |
| `XhciController` | the bring-up, register access by register access, and the controller; extends the two above |
| `KernelDevices` | the device part of `kernel_main`: scan, loop over functions, windows, bring-up |
| `Framebuffer` | the back buffer, the font and text drawing, as operators |
| `Boot` | the thread from `_start` to the frame loop, the handlers, PIC, timer, keyboard |
| `RegionPoolProofs`, `LLRBProofs`, `TreeAllocProofs`, `KernelHeapProofs`, `KernelDevicesProofs`, `EventRingProofs`, `CommandRingProofs`, `BootProofs` | the theorems about the module of that name; `KernelDevicesProofs` also proves about `PciScan`, `MmioMap` and `XhciController` |
| `MC*` | constants for TLC |

The heap has three levels. `TreeAlloc` refines `RegionPool` (`PoolSpec`, mapping
the tree to the set of its regions), and `RegionPool` refines `BlockHeap`
(`HeapSpec`). `KernelHeap` composes the operations of `RegionPool` with the bump
allocator. It needs no tree because `PoolSpec` says the tree is the pool.
`EventRing` refines `EventQueue` (`QueueSpec`). `KernelDevices` composes
`PciScan`, `MmioMap` and `XhciController`: one function table, one page table and
one driver. `Boot` takes that part of `kernel_main` as one step, `devices`, in
which `wait_ms` is called any number of times, and which ends in the frame loop
(`DevicesDone`) or in a panic (`DevicesPanic`). That it ends is `BringUpEnds` of
`KernelDevices`, and on which machines it panics is `PanicOnlyBeyondLimits`.

Correspondence of state and actions:

- `RegionPool.free` is the set of nodes, those of size 0 included: `alloc_rec`
  leaves a node of size 0 behind when a request uses a region up, while `insert`
  ignores such a region. `Alloc` is one call of `alloc_rec` that succeeds. The
  code searches from left to right, which is the lowest region that fits. `Free`
  is the whole of `free`, up to and including the final `insert`, with the code's
  size arithmetic (see finding 1).
- In `LLRB` a tree is `Nil` or a node with its subtrees. An operation that
  unwraps an `Option` without a test returns a set of results, empty when the
  unwrap panics; `TreeAlloc.panicked` records it. `TreeAlloc.boxes` counts the
  nodes taken from the bump heap. A function that calls itself is a recursive
  function on `Tree`, the trees of bounded height; `delete[t]` and `alloc[t]` stand
  for the call on the subtree `t`. `predecessor` and `successor` are loops that
  remember the best node so far; they are stated by what the descent returns.
- `KernelHeap.map` is the boot loader's answer. `InitBump`, `AllocStack` and
  `InitTree` are the boot steps in their order; `halted` is a panic. `TakesNode`
  is `alloc_node` when `free` makes the tree grow. `device` remembers what each
  block of `XhciAllocator` was asked for.
- `EventRing.call` is the program counter of `dequeue_events`, so that the
  controller's `Post` may happen between any two iterations of its loop and before
  the ERDP write. `buffer` is what the running call has stored, `delivered` what
  callers have got.
- `CommandRing.copying` is the loop index of `submit_trbs`: one TRB per step, with
  the controller's `Execute` and `FollowLink` in between. These two are what a
  controller may do when it looks at the ring; nothing makes it look, for no code
  rings a doorbell.
- `EventQueue.calling` and `room` are a call of `dequeue_events` and how much its
  buffer still takes. `Drop` is possible only with no room left.
- `PciScan.machine` is what is plugged in, `buses` the scanner's table. A dword is
  its four bytes, so that `cfg_read_u8` and `cfg_read_u16` select what the code
  shifts out. What a BAR slot holds, and what it reads as once its bits have been
  set, follows from its kind. `ScanDevice` is one turn of the loops of `scan`.
  `IterTurn` and `IterMutTurn` are one turn of the loop in the two `next`
  functions, from any position; a call of `next` is turns until one yields.
- `MmioMap` counts pages from `MMIO_BASE`. The offset of an unaligned physical
  address is dropped in what `map_mmio_region` returns, as in the code.
- `XhciController.pc` names the `modify` in progress or the step between two of
  them, in the order of `Program`; `acc` holds the dword of the block it is at
  (`acc.at`), the value, and whether it is being read or written back. The controller's own steps (`Hardware`) fall
  between any two dwords. Where an access goes depends on the page table and on
  the function's command register (`Reach`); an access to a page that is not
  mapped is `AccessFaults`, the panic of `page_fault_handler`. Writes to a
  controller that is resetting are taken or not, nondeterministically.
- `Boot.pc` is the thread's step, `stack` the handlers that run, each with the
  step it is at. `Interrupt` is taken between any two steps of the thread;
  devices act between any two steps of a handler. `pic` is both interrupt
  controllers: masks, requests, lines in service. `ticks` and `edges` are counted
  relative to the moment at which `wait_ms` loads `TICKS`.

Abstractions in `Boot` that admit more than the hardware does: among several
deliverable requests any may come first, and a request is an edge that stays
until it is taken. A register of 64 bits is one dword in `XhciController`; the
read-only registers and IMOD are left out.

Definitions called "Mutation of ..." are no part of the model. Each is a
plausible bug, kept beside the definition it would replace, that makes one
property of a run fail; `mutants` in `PROJECT.json` pairs them.

## 3. What is checked

Run `tlc -config <run>.cfg <module>.tla`; `PROJECT.json` gives the module of
each run.

| Run | Expectation | Distinct states | Shows |
|---|---|---|---|
| `region_pool` | holds | 259,776 | `TypeOK`, `FreeApart`, `FreeClearOfLive`, `HeapSpec` |
| `tree_alloc` | holds | 11,501 | `KeysOrdered`, `Balanced`, `MaxSizeExact`, `AllocComplete`, `NodesConserved`, `NoPanic`, `PoolSpec` |
| `kernel_heap` | holds | 97,308 | `OneOwner`, `OnlyHeapMemory`, `NodesAccountedFor` |
| `event_ring` | holds | 3,148 | `TypeOK`, `CycleMarksUnread`, `SegmentFits`, `QueueSpec` |
| `command_ring` | holds | 448 | `TypeOK`, `ExecutedInOrder`, `SubmittedIsNext`, `FullLapCanEnd` |
| `devices` | holds | 12,872 | `TypeOK`, `ScanExact`, `WindowsApart`, `AccessReachesController`, `PanicOnlyBeyondLimits`, `RunsConfigured`, `AckOnly`, `ConfiguredWhileHalted`, `BringUpEnds` |
| `boot` | holds | 23,344 | `TypeOK`, `ServiceExact`, `KeysConserved`, `PanicOnlyInDevices`, `ScreenExact`, `WaitLongEnough`, `WaitReturns`, `KeysTaken`, `FramesGoOn` |
| `tree_leak` | violated | | `FreedIsFree` (finding 1) |
| `tree_adjacent` | violated | | `NoPanic` (finding 2) |
| `event_ring_small` | violated | | `AmountsAddUp` (finding 3) |
| `xhci_window` | violated | | `DeviceInWindow` (finding 4) |
| `command_ring_lost` | violated | | `CommandRingKept` (finding 5) |

What the properties of the rings, the device part and the boot say:

- `ScanExact`: when the loop of `kernel_main` asks for the next function, the
  table holds exactly the functions of the machine, with the base of every region
  in its BAR slot, and both iterators visit each of them once and in order.
- `SubmittedIsNext`: while a command in the ring is not executed, the TRB the
  controller looks at is the next command and carries its cycle bit, in every lap
  and at every point of the copy. `FullLapCanEnd`: in a full lap that is copied
  every TRB up to and including the link is the controller's when it comes to it.
  Both say what a controller would find, not that it looks.
- `QueueSpec`: events are received in order, once; a call ends when nothing is
  waiting, or it loses one event, for which its full buffer had no room.
- `AccessReachesController`: each register access of the bring-up goes to the
  right page of the right controller, or faults. `PanicOnlyBeyondLimits`: the
  fault, and the panic of the scratchpad array, happen only on a machine that has
  more scratchpads than pointers or runtime registers behind the window.
- `RunsConfigured`: a controller that runs points at memory that is allocated and
  was made for it, with a context for every slot and with its scratchpads.
  `ConfiguredWhileHalted`: these registers change, and a reset is asked for, only
  while it is halted. `AckOnly`: an event interrupt is never acknowledged by a
  `modify` that meant another field.
- `ServiceExact`: a line is in service exactly while its handler runs, up to the
  end-of-interrupt commands. `KeysConserved`: no scan code is lost or counted
  twice. `PanicOnlyInDevices`: with the cells of the key counter and the
  framebuffer initialised, no handler and no frame panics, only the thread in its
  device part. `WaitLongEnough`:
  `wait_ms(n)` lasts n - 1 milliseconds at least. `ScreenExact`: the screen shows
  the text of the frame, clipped, and no write leaves the back buffer.

Three things these runs taught are stated in the properties as they are. A key
between `sti` and the `call_once` of the key counter panics, and so does the first
frame without a framebuffer; `PanicOnlyInDevices` speaks of the time after these
cells are initialised and so allows both, and `FramesGoOn` accepts any panic. A scan code that
waits in the keyboard while `pic_remap` runs is never taken, for its edge is
cleared (`deaf` in `KeysTaken`). With a second xHCI function the loop of
`kernel_main` brings the *first* controller up again, because `call_once` keeps
it, and frees the second event ring after its address has been written to the
controller; `RunsConfigured` and `AckOnly` are stated for one bring-up
(`turn = 1`), while the others hold for both.

**Bounds.** `region_pool`: nine bytes in two areas with a hole, the second one
unaligned, and five requests (plain, aligned, one that exceeds a remainder, one
with an address limit, one with a window). This is enough for regions that are
used up, cut with and without padding, and merged on either side, both or none.
`tree_alloc`: five areas, so the tree has two black levels and every branch of
`delete` and `fix_up` happens; the requests empty regions and move keys.
`MaxHeight = 5` bounds the black nodes on a path; no more than two occur in this
run, so the guard of `Free` that names the bound forbids nothing.
`kernel_heap`: one map with an entry of each kind the code distinguishes, in
which the bump heap of 11 bytes holds the stack, the gap that aligns the first
node, three nodes of 2 and one more node or a block or two, so that it runs out
at each of the places where it may, with blocks on either side of the nodes; and
one map without an area for the bump heap. `event_ring`: four slots and eleven events, three laps of both
sides, with buffers of exactly the ring's capacity and one less. `command_ring`:
five slots and thirteen commands, more than three laps with two flips and more
behind them.

`devices`: two buses of two devices of three functions, and fifteen machines,
each controller both as after power-on and as firmware leaves it. A card answers
at functions 0 and 2, with and without its multi-function bit (so there are
phantoms); a bridge, or an orphan at function 1 without a function 0; BARs of
every kind and an empty one, with a 64-bit one behind the others, so that slot
arithmetic matters; no, one or two xHCI controllers; 0 to 3 scratchpads with two
pointer slots, so that the array overflows in one machine; runtime registers on
pages 1 to 3 of the 16 KiB window and behind it. This reaches every outcome of the
bring-up: two passes, one, none, the panic of the array and the page fault.

`boot`: besides timer and keyboard the line 12 of the slave, so that both
controllers, the cascade and their priorities occur; waits of 1 and 2 ticks with
`Horizon = 4`, two more than the longest wait, beyond which more edges change
nothing a property sees; two keys, so that one may arrive while the other's
interrupt is handled; no framebuffer, one with 24 bits per pixel, which panics,
and one of 5 by 5 pixels with rows of 6, so that width and pitch differ; glyphs of
2 by 2 pixels and a text that runs over the right and the lower edge.

None of the runs has a state constraint: the state space is bounded by the inputs,
and by `MaxHeight`, `MaxEvents`, `MaxCommands`, `MaxKeys` and `Horizon` in the
actions.

**Deadlock** is checked except in `region_pool`, where all memory may leak away
(finding 1) so that nothing is left to allocate or free, and in `kernel_heap`,
`xhci_window`, `devices`, `command_ring_lost` and `boot`, where a panic halts the
kernel or the modelled part of the program ends.

**Fairness.** None for the rings. In particular nothing makes the controller of
`CommandRing` fetch: one that has met a TRB it does not own waits for its
doorbell, and no code under `src/` rings it (`xhci-thoughts.md:6446` lists it as
missing). So commands that are submitted need not ever be executed, and the run
checks what can be promised without: they are ready and in order. `KernelDevices`: weak fairness of the driver, which is straight-line code and
loops, and of the controller's answers to halt, run and reset; none for ports and
events. `Boot`: weak fairness of the handlers, of the timer's edge and of the
keyboard's next scan code; strong fairness of the thread and of each interrupt,
since both are disabled again and again while handlers run, and interrupts come
more slowly than they are handled; and of `DevicesDone`, because the devices step
ends unless it panics (`BringUpEnds`, `DevicesPanic`). Nobody has to press a key.

**Environment.** Callers free only blocks in use, with the size they were
allocated with, and sizes are not 0 (the contract of `GlobalAlloc`). `flip_ring`
tests nothing. `CommandRing` takes it to be called when the controller has
followed the link and waits at the first TRB (`LapOver`), the only time when
flipping cannot discard a command. The controller leaves the slot before ERDP
empty and toggles its cycle bits at the end of a lap, as the xHCI specification
has it. A TRB is read and written as a whole. CRCR reads as 0 on some machines of
the run `devices` and as it was written on others. The boot loader hands over
with interrupts off and all lines masked.

## 4. What is proved

About 16,000 obligations in eight modules. The safety properties of all passing runs are
theorems, and so are all three refinements.

| Module | For every | Theorems |
|---|---|---|
| `RegionPoolProofs` | `Areas`, `Requests`, `Hhdm` | `TypeCorrectness`, `RegionsStayApart`, `NoFreeByteInUse`, `PoolImplementsHeap` (all of the run `region_pool`) |
| `LLRBProofs` | tree | lemmas, the main ones `InsertNodeIs`, `DeleteIs`, `PredecessorIs`, `SuccessorIs` |
| `TreeAllocProofs` | `AreaList`, `Requests`, `Hhdm`, `MaxHeight` | `TreeInvariant`, `KeysHold`, `BalanceHolds`, `MaxSizeHolds`, `AllocFindsLowest`, `NodesHold`, `NeverPanics`, `TreeIsPool` (all of the run `tree_alloc`), `TreeKeepsPromise` |
| `KernelHeapProofs` | memory map, sizes of the bump heap, the stack and the nodes, layouts | `EveryByteHasOneOwner`, `HeapStaysInItsMemory`, `NoNodeIsLost` (all of the run `kernel_heap`) |
| `KernelDevicesProofs` | machine of up to 256 buses of 32 devices of 8 functions, with any number of xHCI controllers, slots and scratchpads; `PageSize`, `WindowSize`, `PointerSlots` | `MmioWindowsApart`, `MmioWindowsMapped` (of `MmioMap` alone); `TypeCorrect`, `ScanIsExact`, `DeviceWindowsApart`, `DeviceWindowsMapped`, `AccessesReachTheController`, `PanicsOnlyBeyondLimits`, `RunsOnlyConfigured`, `OnlyConfiguredWhileHalted`, `OnlyAcknowledgedByAck` (the safety of the run `devices`, and `WindowsMapped`, which the run sees through the accesses) |
| `EventRingProofs` | `SegmentSize` of 2 or more, `BufferLens`, `MaxEvents` | `TypeCorrectness`, `CycleBitsMarkUnread`, `SegmentSizedBufferFits`, `RingImplementsQueue` (all of the run `event_ring`) |
| `CommandRingProofs` | `RingSize` of 2 or more, `MaxCommands` | `TypeCorrectness`, `CommandsInOrder`, `NextCommandReady`, `FullLapsCanEnd` (all of the run `command_ring`) |
| `BootProofs` | `OtherIrqs` in 3..15, `MaxKeys`, `Horizon`, `Waits` up to `Horizon - 2`; fonts, framebuffers and texts | `TypeCorrectness`, `LinesReleased`, `NoKeyLost`, `PanicsOnlyInDevices`, `WaitsLongEnough`, `ScreenShowsText` |

Each module proves that `Init` implies its inductive invariant, then that every
action keeps it, one lemma per action, and then that it implies the properties
(`Invariance`, `MmioInvariant`).

**The heap.** Assumptions (`Regions`): areas are regions of the address space that
neither overlap nor touch, requests have a positive size and a positive alignment
and boundary, and the direct map lies below the areas. The code makes alignments
and boundaries powers of two; the proofs do not need it, because `AlignUp` and
`SameWindow` state the effect of the bit masks by division. Overflow of `usize`
is left out: the direct map and the areas lie far below 2^64.

`IInv` adds `LiveDisjoint` and `InAreas` to the checked invariants.
`FreeClearOfLive` alone is not inductive: when a block is freed, that its
neighbours in use stay clear of the merged region needs that blocks in use are
disjoint, and that a merge does not reach over a hole between areas needs that
regions and blocks lie in one area each (`SameArea`). `FreeApart` carries the
merge: it makes predecessor and successor the only regions that can touch the
block. `Alloc` is settled by `CutAndRest` (the block and the rest partition the
region except for the alignment gap). For `Free`, `FreeOutcomes` reduces the
code's sequence of tests and assignments to four outcomes: merged below, dropped,
merged above, or inserted. In each the new region lies inside the union of the
old ones and the block, the shape that `ReplacePreserves` needs. Finding 1 shows
here as well: `MergePredecessor` yields *at most* that union, so the lost bytes
threaten no invariant. `StepRefines` maps `Alloc` to `HandOut` by `CutMeets` and
`Free` to `TakeBack`.

**The tree.** Assumptions (`TreeHeap`): those of the pool, with the areas in a
list. Neither the number of areas nor the height of the tree is bounded by a
number: `MaxHeight` is any natural number not below the number of areas
(`HeightAssumption`), and only a `free` that would grow the tree beyond it is left
out (the guard that names it). It is there because a recursive function needs a
set as its domain: `Tree` has all trees of `2 * MaxHeight + 4` levels, enough for
the trees of that height and what `insert` makes of them on its way.

What a recursive function of `LLRB` computes is proved in three steps. First,
that its equation holds: `RecursionExists` shows that a recursion whose calls go
to smaller trees has a solution (the approximations up to each size agree), and
from it each operation is unfolded once (`InsertUnfolded`, `DeleteUnfolded`,
`AllocateUnfolded`). For `delete` "smaller" means fewer nodes, since
`move_red_left` and `move_red_right` turn the tree before the call. Second, what
one call does, given what the calls below it do. Third, the induction, as a
statement on the set of trees for which the claim holds (`TreeInduction`), or on
the least count of nodes for which it fails.

One call is settled by two independent arguments. `Keeps` says what a rotation or
colour flip leaves alone: the regions, their order, their number, and exact sizes
below; `SplitFours` and `FixUp` then make the size of the node exact. The shapes
are those of the 2-3-4 tree: `TwoNode`, `ThreeNode`, `RightThree` (leaning the
wrong way) and `FourNode`, each with its colour and the black height of its
children. `Grows` and `Shrinks` say what an insertion or deletion may make of a
shape, and are what the induction carries. Two facts are not obvious from the
code. The `unwrap`s of `move_red_left` and `move_red_right` are safe because a
black child that is not `None` has a sibling of the same black height, which then
is not `None` either (`LeanLeftShape`, `LeanRightShape`). And `delete` may come to a node whose red link
leans to the right (`Bent`): `move_red_right` leaves one behind after it borrowed
from the left, which is harmless because the key is then at that node or to its
right (`Fit`), and `fix_up` turns it back.

`TreeInv` is the inductive invariant: the tree is `Whole` (balanced, in order,
exact), its nodes and the freelist together are the boxes, nothing has panicked,
and the pool's `Apart` holds of its regions. The last conjunct carries the
others: the rest of a cut region keeps its place in the order because the next
region begins behind its end (`Spaced`), and the region that `free` inserts has a
key that is new because a region with that key would have been merged and deleted
(`MergedIsNew`). With touching areas exactly this fails (finding 2). `AllocStep`
and `FreeStep` show that a step is one of the pool, for which the lemmas of
`RegionPoolProofs` are cited; so `TreeIsPool` is a by-product, and
`TreeKeepsPromise` follows from it and `PoolImplementsHeap`.

**The kernel heap.** Assumptions (`KernelHeap`): entries the heap is built from do
not touch (`MapsAssumption`, the assumption of the pool; finding 2 is what happens
without it); the stack fits into the bump heap, an area for the bump heap is
larger than it, and the size of a node is a multiple of its alignment, as that of
every Rust type is (`SizesAssumption`); no request is for 0 bytes
(`LayoutsAssumption`, the contract of `GlobalAlloc`).

The operations on the tree are those of the pool, and so are the lemmas about
them: `RegionPoolProofs` is instantiated with this heap's variables. For that the
inductive step of the pool is split in two: `Apart` (regions and blocks keep clear
of each other) does not depend on the areas, and that a block or region lies
inside one area is preserved for any set of areas. `HeapInv` says that nothing in
the tree meets the stack, the nodes or the rest of the bump heap (`FixedApart`),
and where the bump heap lies (`BumpOK`). After the switch a block of the bump heap
may be freed into the tree, right next to nodes and to what the bump heap has
left. A merge must not carry the region over those. `PoolClear` shows that it
never covers a byte outside the old regions and the block. But the rest of the
bump heap may be empty, and an empty region lies anywhere without being covered:
once the bump heap is used up, that no region grows over its end follows only
from a node that lies directly before it and is never freed. So `Phase` demands
that in the tree's mode the last bytes handed out are those of a node.
`NodesAccountedFor` is inductive next to that, and bounds what `free` may take.
`OnlyHeapMemory` is about blocks: the null block that a refused request of
`XhciAllocator` yields is at address 0 and no part of it.

**The MMIO windows.** `MmioInv` is inductive by itself, and part of the invariant
of the device part. The mapped pages are exactly those below the next free one,
and every window lies among them; so the pages of a new window are new, and the
mapping of the old ones stands.

**The PCI scan.** Assumptions (`PciScan`): indices fit their fields of the
configuration address (`BusesAssumption`), and every function has a header that
the specification admits (`DevicesAssumption`, `BarsOK`): the low bits of a BAR
are its flags, a 64-bit BAR has a slot behind it, and a 32-bit memory BAR that is
implemented has an address. `DwordRead` says that the address `cfg_addr`
assembles selects the function and the offset again. From it `BarsRead` follows
the loop over the slots: behind a 64-bit BAR the index skips its high half, so the
slots visited are those that are not one. `ScanStep` adds one device and keeps the
table equal to the part of the machine scanned so far. The walk is `IterExact`:
the iterator has yielded what lies before its three indices, in order. `Settled`
is why the two iterators agree although they reset their indices in different
places: at a device that is not there the function index is 0 already.

**The device part.** Assumptions (`XhciController`): the windows are not empty
(`WindowAssumption`); a controller's BAR 0 is a memory BAR at the start of a
frame, no two of them start at the same one, and with several controllers the
runtime registers lie in the part that `kernel_main` maps
(`ControllersAssumption`). The last one is needed: a page behind the first window
belongs to the second one, and an access there would reach the wrong controller
instead of faulting.

`DevicesInv` has one conjunct per question. `Found` is the table, the walk and
the windows. `DrivenOK` says that, whatever has been found, the controller that is
driven is the first one, behind the first window. `OthersUntouched` keeps the
others as firmware left them. `Halted` says from where to where the driven
controller does not run or has raised no interrupt, `Made` what has been allocated
at each step, and `SetUp` which registers hold it. What makes it inductive are
`OpValue` and `RuntimeValue`: a `modify` reads every dword of its block and then
writes every one back, while the controller moves in between, so the invariant has
to say of each dword in hand (`Have`) that it still agrees with the register,
unless it is the one the closure changes. `OpDwordRead` and `OpDwordWritten` go
over the dwords of a block, `ClosureTyped` over the closures, and `DeviceStep` over
the controller's steps. A controller that is resetting may take or lose any write,
so the value of the `modify` that resets it is left open, and until the reset is
done nothing is said of the registers. `AckOnly` and
`ConfiguredWhileHalted` are then a matter of steps: the controller's own leave
these registers alone or are the reset (`DeviceMoves`), and a write of the driver
finds the controller halted or puts back what is there (`WriteMoves`). A panic is
the array's, or a page fault; pages below `WindowPages` of the driven controller
are mapped from its first window on, so a fault is behind it (`ReachDriven`), and
`PanicSteps` goes over the steps that end in one. `RunsConfigured` and
`AckOnly` hold for the first bring-up only, hence `turn = 1` in the conjuncts that
carry them.

**The event ring.** `LapInv` says where the controller, ERDP and the reader stand
to one another, in the same lap or one apart; `BitsInv` which slots carry the
writer's cycle bit and which the opposite one; `EventsInv` which event each slot
holds, a function of the slot and of the number posted; `CallInv` how much a
running call has stored, namely the distance from ERDP to the reader. That a
buffer one shorter than the segment suffices follows from it: the controller
stays clear of ERDP, which does not move during the call. The modulus is removed
first (`WrapsOnce`): all numbers it is taken of are below twice the segment size.
The refinement says of the unread events that they are the newest ones
(`Newest`); it maps `Post` to `Post`, `Call` to `Open`, `Store` to `Receive`,
`Overrun` to `Drop`, `Drain` to `Close`, and `Return` to a stutter. That a call
ends only with an empty queue is `StaleIsEmpty`: a slot without the reader's cycle
bit means that no event is unread.

**The command ring.** `RingInv` says what each slot of the staging copy holds in
this lap (`Wanted`), and that a slot of the ring either holds the same or, if its
command has been staged but not copied, an empty TRB that is not the controller's.
`FetchInv` says how many commands the controller has executed: those before its
slot, or, behind the link, all of them, and that these slots are copied. So a copy
loop that starts again at slot 0 rewrites what is there, and a TRB the controller
may fetch (`FetchableIs`) is the next command or the link behind a full lap.
`SubmittedIsNext` is the converse and needs one more invariant, `CopiedInv`: the
commands of a lap that are copied are its first ones. So with a command in the ring
that is not executed, the next one, whose slot comes no later, is there too.

**Boot and interrupts.** `IInv` adds to the checked invariants that handlers run
with interrupts off, that only the timer's handler counts ticks and only a full
buffer leads to its read (`HandlerInv`); that no cell is initialised before the
framebuffer's step and the divisor is the one of `pit_init` from `sti` on
(`StartInv`); and for the waits that ticks counted, requested and about to be
counted are at most one more than the edges (`WaitInv`), or the edges are at
their bound. `ServiceExact` and `KeysConserved` are used without their sets
(`ServiceFlat`, `KeysFlat`): as at most one handler runs, the union and the
cardinality are case distinctions.

**The screen.** Assumptions: a cell of the font is not empty and a glyph stays in
its cell (`FontAssumption`); every character drawn has a glyph, and the pitch of a
framebuffer of 32 bits per pixel is at least four times its width
(`ScreenAssumption`), as the boot loader's are; the code does not test it. `ScreenShowsText` compares the
code's loops with the pixel-wise reference: `print` moves its cursor from one
character to the next, the reference counts the breaks before a character. That
the two agree at every character (`CursorIsPlace`) is an induction over the text,
written as an argument on the least character at which they differ
(`LeastNumber`). `ScreenInv` follows the two tasks through `clear`, the texts and
`flip`: until `flip` the screen shows the frame before, afterwards the text of
the frame that was drawn (`FrameShows`).

What stays model-checked. Liveness (`BringUpEnds`, `WaitReturns`, `KeysTaken`, `FramesGoOn`) is out of the prover's
reach. The five properties of the violated runs are false, and stay with TLC.

## 5. Findings

1. `free` loses memory (`tree_alloc.rs:231`). `new_base` is overwritten before
   `new_size` is computed from it, so merging with the predecessor keeps
   `max(size, p.size)` bytes instead of their sum. A block whose successor is an
   empty region at its own base is dropped at line 238. Safety is unaffected.
2. Areas that touch break the tree (`tree_alloc.rs:302`, `:290`, `:367`). A cut
   can give two nodes the same base, `delete` then removes the wrong one, and a
   later `unwrap` panics. All other results assume that areas do not touch.
3. `dequeue_events` loses an event when the buffer is too small (`ring.rs:200`).
   A buffer of `SEGMENT_SIZE - 1` never is (`SegmentFits`).
4. `XhciAllocator` does not pass its limits on (`xhci.rs:35`,
   `tree_alloc.rs:607`).
5. The command ring pointer does not survive the bring-up (`controller.rs:160`,
   `:83`). Every later `modify` of the operational registers writes back what CRCR
   reads as, which is 0 on a controller that follows the specification.

## 6. Not modelled

- The doorbell, and with it when the controller looks at the command ring: the
  code has none.
- A heap that runs out while the scan's vectors or the frame's text grow, which
  panics in `handle_alloc_error`: `Boot` and `KernelDevices` take these requests
  as granted. `PanicOnlyInDevices` and `PanicOnlyBeyondLimits` are stated under
  that assumption.
- `serial.rs`, `byte_ext.rs`: `serial_write_byte` spins on the line status and
  sends a byte, nothing reads what is logged, and the factors of `byte_ext` appear
  as the values they give.
- `proc_macros`: a code generator that the kernel crate does not use. `xtask`,
  `makeimg.sh`: they build an image. `save.rs`, `all_rust.rs`, `backup.c`: copies
  that nothing compiles.
- The layout of TRBs: a TRB is a command, empty, or the link, with its cycle bit.
  Torn TRBs (a copy of 16 bytes that becomes visible in parts) are not modelled.
- In `main.rs`: the exception handlers other than the page fault, which stop the
  machine; `enable_sse`, `init_tss` and `switch_stack`, which set CPU registers
  once. `init_mapper` wraps the active page tables; the tables themselves belong
  to the `x86_64` crate, and are the function `pageTable` here.
- `rgb_color` is a value, `get` and `get_element_ptr` of the framebuffer have no
  callers, and `Debug`, `Display` and `dump_func` only print.
- The bounds of 128 and 256 entries on the memory map (`tree_alloc.rs:568`,
  `bump_alloc.rs`), past which an array index panics during boot; and what the
  boot loader still keeps in `BOOTLOADER_RECLAIMABLE` memory.

## 7. What is left

In this order: that `Boot`'s step `devices` is what `KernelDevices` does to the
state both share; that the pool of `KernelHeap` may be replaced by the tree, its
nodes taken from the bump heap, now that `TreeIsPool` is proved; the bounds on the
memory map; TRBs written in two halves; and the event ring together with the
interrupt that announces its events, once the kernel has a handler for it.
