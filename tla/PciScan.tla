------------------------------ MODULE PciScan ------------------------------
(* The PCI scanner of src/kernel/src/pci/pci.rs: configuration accesses    *)
(* through the address and data ports, decoding of headers and BARs, the   *)
(* scan over buses, devices and functions, the table it fills, the two     *)
(* iterators over the table, and enable_mmio_and_bus_master.  A dword is   *)
(* its four bytes, lowest first, so that no width is lost.                 *)
EXTENDS Integers, Sequences

CONSTANTS
  NumBuses,      \* 256 in the code
  NumDevices,    \* 32
  NumFunctions,  \* 8
  Machines       \* the machines to boot: functions from locations to devices

VARIABLES
  machine,   \* location |-> what is plugged in there (external)
  command,   \* location |-> the command and status register of the function
  buses,     \* PciScanner.buses: location |-> PciFunc, for the Some entries
  scanPos,   \* the loop variables of scan: <<bus, dev>>
  iter       \* PciFuncIter: the position and what it has yielded so far

pciVars == <<machine, command, buses, scanPos, iter>>

None == <<>>
Zero == <<0, 0, 0, 0>>
Byte == 0 .. 255
Dword == [1 .. 4 -> Byte]

Locations ==
  (0 .. NumBuses - 1) \X (0 .. NumDevices - 1) \X (0 .. NumFunctions - 1)

-----------------------------------------------------------------------------
(* The devices (external): what a function shows in configuration space.   *)
(* A device is a record of its multi-function and bridge bits, its class   *)
(* code (class, subclass, prog_if), the bus behind it if it is a bridge,   *)
(* and its BAR slots: nothing, the base of an I/O or a 32-bit region, or   *)
(* the low dword of a 64-bit one, whose high dword is in the next slot.    *)

BarCount(dev) == IF dev.bridge THEN 2 ELSE 6

BarDword(slot) ==
  CASE slot.kind = "none"  -> Zero
    [] slot.kind = "io"    -> [slot.base EXCEPT ![1] = @ + 1]
    [] slot.kind = "mem64" -> [slot.base EXCEPT ![1] = @ + 4]
    [] OTHER               -> slot.base

(* The base of the region that begins in a slot: two dwords, low and high. *)
RegionBase(dev, i) ==
  <<dev.bars[i].base,
    IF dev.bars[i].kind = "mem64" THEN dev.bars[i + 1].base ELSE Zero>>

(* Regions are aligned as their type bits need it; a BAR of zeros is no    *)
(* region, and a 64-bit one has two slots.                                 *)
BarsOK(dev) ==
  LET slots == 0 .. (BarCount(dev) - 1) IN
  /\ DOMAIN dev.bars = slots
  /\ \A i \in slots :
       LET s == dev.bars[i] IN
       /\ s.kind \in {"none", "io", "mem32", "mem64", "high"}
       /\ s.base \in Dword
       /\ s.kind = "io" => s.base[1] % 4 = 0
       /\ s.kind \in {"mem32", "mem64"} => s.base[1] % 16 = 0
       /\ s.kind = "mem32" => s.base # Zero
       /\ s.kind = "mem64" => i + 1 \in slots
       /\ (s.kind = "high") <=> (i > 0 /\ dev.bars[i - 1].kind = "mem64")

ASSUME BusesAssumption ==
  NumBuses \in 1 .. 256 /\ NumDevices \in 1 .. 32 /\ NumFunctions \in 1 .. 8

ASSUME DevicesAssumption ==
  \A m \in Machines :
    /\ DOMAIN m \subseteq Locations
    /\ \A l \in DOMAIN m :
         /\ m[l].multi \in BOOLEAN /\ m[l].bridge \in BOOLEAN
         /\ m[l].class \in Byte \X Byte \X Byte /\ m[l].secondary \in Byte
         /\ BarsOK(m[l])

(* The dword at an offset of a function's configuration space.             *)
ConfigDword(dev, off) ==
  CASE off = 0  -> <<134, 128, 49, 30>>
    [] off = 8  -> <<1, dev.class[3], dev.class[2], dev.class[1]>>
    [] off = 12 -> <<0, 0, (IF dev.multi THEN 128 ELSE 0)
                             + (IF dev.bridge THEN 1 ELSE 0), 0>>
    [] off = 24 /\ dev.bridge -> <<0, dev.secondary, 0, 0>>
    [] off \in {16 + 4 * i : i \in DOMAIN dev.bars} -> BarDword(dev.bars[(off - 16) \div 4])
    [] off = 60 -> <<11, 1, 0, 0>>
    [] OTHER -> Zero

(* What the chipset returns for an address: it splits the bits again, and  *)
(* answers with all ones where nothing is plugged in.                      *)
LocationOf(addr) ==
  <<(addr \div 65536) % 256, (addr \div 2048) % 32, (addr \div 256) % 8>>

ConfigPort(addr) ==
  IF LocationOf(addr) \in DOMAIN machine
  THEN ConfigDword(machine[LocationOf(addr)], addr % 256)
  ELSE <<255, 255, 255, 255>>

-----------------------------------------------------------------------------
(* Configuration accesses.  The enable bit 31 of the address is left out.  *)

make_address(loc, off) ==
  loc[1] * 65536 + loc[2] * 2048 + loc[3] * 256 + (off - (off % 4))

cfg_read_u32(loc, off) == ConfigPort(make_address(loc, off))

cfg_read_u16(loc, off) ==
  LET v == cfg_read_u32(loc, off)
  IN IF off % 4 < 2 THEN <<v[1], v[2]>> ELSE <<v[3], v[4]>>

cfg_read_u8(loc, off) == cfg_read_u32(loc, off)[(off % 4) + 1]

is_multi_function(header) == header >= 128
is_bridge(header) == header % 128 = 1

bar_count(header) == IF header % 128 = 0 THEN 6 ELSE 2
bar_lo(loc, i) == cfg_read_u32(loc, 16 + 4 * i)

(* Bit 0 marks I/O space, and type 2 a 64-bit BAR.                         *)
is_io(lo) == lo[1] % 2 = 1
is_wide(lo) == ~is_io(lo) /\ (lo[1] \div 2) % 4 = 2

(* The base in a BAR without its flags; the high dword of a 64-bit one is  *)
(* the next BAR, if there is one.                                          *)
bar_base(loc, count, i) ==
  LET lo == bar_lo(loc, i)
  IN <<[lo EXCEPT ![1] = @ - (@ % (IF is_io(lo) THEN 4 ELSE 16))],
       IF is_wide(lo) /\ i + 1 < count THEN bar_lo(loc, i + 1) ELSE Zero>>

(* The BARs the loop visits: the first, and each one but the high half of  *)
(* a 64-bit one, which it skips.                                           *)
VisitedBars(loc, count) ==
  CHOOSE V \in SUBSET (0 .. (count - 1)) :
    \A i \in 0 .. (count - 1) :
      i \in V <=> (i = 0 \/ i - 1 \notin V \/ ~is_wide(bar_lo(loc, i - 1)))

(* Mutation of read_bars: i += 1 behind a 64-bit BAR.                      *)
read_barsNoSkip(loc, header) ==
  LET count == bar_count(header)
  IN [i \in 0..5 |-> IF i < count /\ bar_lo(loc, i) # Zero THEN bar_base(loc, count, i)
                     ELSE None]

(* read_bars: a dword of zeros is no BAR.                                  *)
read_bars(loc, header) ==
  LET count == bar_count(header)
  IN [i \in 0..5 |-> IF i \in VisitedBars(loc, count) /\ bar_lo(loc, i) # Zero
                     THEN bar_base(loc, count, i) ELSE None]

(* Mutation of read_pci_function: the vendor is not looked at.             *)
read_pci_functionAlways(loc) ==
  LET header == cfg_read_u8(loc, 14)
  IN <<[class     |-> <<cfg_read_u8(loc, 11), cfg_read_u8(loc, 10), cfg_read_u8(loc, 9)>>,
        header    |-> header,
        bars      |-> read_bars(loc, header),
        secondary |-> IF is_bridge(header) THEN <<cfg_read_u8(loc, 25)>> ELSE None]>>

(* read_pci_function: None where the vendor reads as 0xFFFF.               *)
read_pci_function(loc) ==
  IF cfg_read_u16(loc, 0) = <<255, 255>> THEN None
  ELSE LET header == cfg_read_u8(loc, 14)
       IN <<[class     |-> <<cfg_read_u8(loc, 11), cfg_read_u8(loc, 10),
                             cfg_read_u8(loc, 9)>>,
             header    |-> header,
             bars      |-> read_bars(loc, header),
             secondary |-> IF is_bridge(header) THEN <<cfg_read_u8(loc, 25)>>
                           ELSE None]>>

-----------------------------------------------------------------------------
(* The scan.                                                               *)

(* What iter and iter_mut return.                                          *)
NewIter == [b |-> 0, d |-> 0, f |-> 0, yielded |-> <<>>]

PciInit ==
  /\ machine \in Machines
  /\ command = [l \in DOMAIN machine |-> [enabled |-> {}, errors |-> {"abort"}]]
  /\ buses = [l \in {} |-> None]
  /\ scanPos = <<0, 0>>
  /\ iter = NewIter

(* The functions scan looks at once function 0 of a device has answered.   *)
FunctionsToRead(f0) ==
  IF is_multi_function(f0.header) THEN 0..(NumFunctions - 1) ELSE {0}

ScanDone == scanPos[1] = NumBuses

(* One turn of the loops of scan; add_function puts what it found into the *)
(* table, and creates the bus and the device on the way.                   *)
ScanDevice ==
  /\ ~ScanDone
  /\ LET b  == scanPos[1]
         d  == scanPos[2]
         f0 == read_pci_function(<<b, d, 0>>)
         found == IF f0 = None THEN {}
                  ELSE {l \in {<<b, d, f>> : f \in FunctionsToRead(f0[1])} :
                          read_pci_function(l) # None}
     IN /\ buses' = [l \in DOMAIN buses \cup found |->
                       IF l \in found THEN read_pci_function(l)[1] ELSE buses[l]]
        /\ scanPos' = IF d + 1 < NumDevices THEN <<b, d + 1>> ELSE <<b + 1, 0>>
  /\ UNCHANGED <<machine, command, iter>>

-----------------------------------------------------------------------------
(* The iterators: one turn of the loops of next, from a position to the    *)
(* next one, with the location of the function it returns, if any.         *)

Positions == [b : 0..NumBuses, d : 0..NumDevices, f : 0..NumFunctions]

At(b, d, f) == [b |-> b, d |-> d, f |-> f]
BusPresent(b) == \E l \in DOMAIN buses : l[1] = b
DevicePresent(b, d) == \E l \in DOMAIN buses : l[1] = b /\ l[2] = d

Moved(b, d, f) == [loc |-> None, pos |-> At(b, d, f)]
LookedAt(p) ==
  [loc |-> IF <<p.b, p.d, p.f>> \in DOMAIN buses THEN <<p.b, p.d, p.f>> ELSE None,
   pos |-> At(p.b, p.d, p.f + 1)]

(* PciFuncIter::next.  f is reset behind the functions of a device, d and  *)
(* f behind the devices of a bus.                                          *)
IterTurn(p) ==
  IF ~BusPresent(p.b) \/ p.d >= NumDevices THEN Moved(p.b + 1, 0, 0)
  ELSE IF ~DevicePresent(p.b, p.d) THEN Moved(p.b, p.d + 1, p.f)
  ELSE IF p.f >= NumFunctions THEN Moved(p.b, p.d + 1, 0)
  ELSE LookedAt(p)

(* PciFuncIterMut::next: the same walk with the resets in other places.    *)
IterMutTurn(p) ==
  IF ~BusPresent(p.b) THEN Moved(p.b + 1, 0, 0)
  ELSE IF p.d >= NumDevices THEN Moved(p.b + 1, 0, 0)
  ELSE IF ~DevicePresent(p.b, p.d) THEN Moved(p.b, p.d + 1, 0)
  ELSE IF p.f >= NumFunctions THEN Moved(p.b, p.d + 1, 0)
  ELSE LookedAt(p)

(* Where next returns None; what its next turn does; the turn itself.      *)
IterDone == iter.b >= NumBuses
Upcoming == IterTurn(At(iter.b, iter.d, iter.f))

AdvanceIter ==
  iter' = [b |-> Upcoming.pos.b, d |-> Upcoming.pos.d, f |-> Upcoming.pos.f,
           yielded |-> IF Upcoming.loc = None THEN iter.yielded
                       ELSE Append(iter.yielded, Upcoming.loc)]

(* Mutation of enable_mmio_and_bus_master: bit 0 instead of bit 1.         *)
enable_io_and_bus_master(loc) ==
  command' = [command EXCEPT ![loc] =
                [enabled |-> @.enabled \cup {"io", "master"}, errors |-> {}]]

(* enable_mmio_and_bus_master: the dword goes back as it was read, the     *)
(* status half included, whose bits are cleared by writing ones.           *)
enable_mmio_and_bus_master(loc) ==
  command' = [command EXCEPT ![loc] =
                [enabled |-> @.enabled \cup {"memory", "master"}, errors |-> {}]]

-----------------------------------------------------------------------------
(* Properties of the scan.                                                 *)

(* The locations a correct scan reports: functions 0, and the others of a  *)
(* device whose function 0 says that it has several.                       *)
Reachable ==
  {l \in DOMAIN machine :
     /\ <<l[1], l[2], 0>> \in DOMAIN machine
     /\ l[3] = 0 \/ machine[<<l[1], l[2], 0>>].multi}

(* A function is recorded with its class and bridge data, the base of      *)
(* every region in its slot and nothing in the other slots.                *)
FunctionExact(l) ==
  LET dev == machine[l] IN
  /\ buses[l].class = dev.class
  /\ buses[l].secondary = (IF dev.bridge THEN <<dev.secondary>> ELSE None)
  /\ \A i \in 0..5 :
       buses[l].bars[i] =
         IF i < BarCount(dev) /\ dev.bars[i].kind \notin {"none", "high"}
         THEN RegionBase(dev, i) ELSE None

(* The scan reports the functions of the machine, no phantom of a device   *)
(* with one function, each as it is: the high half of a 64-bit BAR is      *)
(* never taken for a BAR (pci.rs:156-192, 299-322).                        *)
FunctionsExact ==
  ScanDone => DOMAIN buses = Reachable /\ \A l \in Reachable : FunctionExact(l)

(* The same while the scan goes on.                                        *)
Scanned(l) == l[1] < scanPos[1] \/ (l[1] = scanPos[1] /\ l[2] < scanPos[2])
TableExact ==
  /\ machine \in Machines
  /\ scanPos \in (0 .. NumBuses - 1) \X (0 .. NumDevices - 1) \/ scanPos = <<NumBuses, 0>>
  /\ DOMAIN buses = {l \in Reachable : Scanned(l)}
  /\ \A l \in DOMAIN buses : FunctionExact(l)

Before(l, m) ==
  \/ l[1] < m[1]
  \/ l[1] = m[1] /\ l[2] < m[2]
  \/ l[1] = m[1] /\ l[2] = m[2] /\ l[3] < m[3]

Yielded == {iter.yielded[i] : i \in 1..Len(iter.yielded)}
Ascending ==
  \A i, j \in 1..Len(iter.yielded) :
    i < j => Before(iter.yielded[i], iter.yielded[j])

(* A position in which the two iterators agree.                            *)
Settled(p) == DevicePresent(p.b, p.d) \/ p.f = 0

(* What the iterator has yielded is the part of the table behind it.       *)
IterExact ==
  /\ iter \in [b : 0..NumBuses, d : 0..NumDevices, f : 0..NumFunctions,
               yielded : Seq(Locations)]
  /\ Settled(iter)
  /\ Ascending
  /\ Yielded = {l \in DOMAIN buses : Before(l, <<iter.b, iter.d, iter.f>>)}

(* The iterator yields every function of the table, once, in order, though *)
(* its three indices live on between calls (pci.rs:344-370); from any such *)
(* position iter_mut goes where iter goes, which is such a position again  *)
(* (pci.rs:385-432).                                                       *)
IteratorsExact ==
  /\ Ascending
  /\ IterDone => Yielded = DOMAIN buses
  /\ \A p \in Positions :
       p.b < NumBuses /\ Settled(p) =>
         /\ IterMutTurn(p) = IterTurn(p)
         /\ Settled(IterTurn(p).pos)
=============================================================================
