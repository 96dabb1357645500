------------------------ MODULE KernelDevicesProofs ------------------------
(* Proofs about KernelDevices, for every machine, every number of buses,   *)
(* devices and functions and every size of the windows: that DevicesInv is *)
(* an invariant, and the safety properties of the run, which follow from   *)
(* it.                                                                     *)
EXTENDS KernelDevices, SequenceTheorems, FiniteSetTheorems, TLAPS

-----------------------------------------------------------------------------
(***************************************************************************)
(* PciScan: the scan finds exactly the functions of the machine, and the   *)
(* iterators visit each once, for every machine.                           *)
(***************************************************************************)

(* A location is a bus, a device and a function, each below its bound      *)
(* (pci.rs:240-271).                                                       *)
LEMMA LocationParts ==
  ASSUME NEW l \in Locations
  PROVE  /\ l = <<l[1], l[2], l[3]>>
         /\ l[1] \in 0..(NumBuses - 1)
         /\ l[2] \in 0..(NumDevices - 1)
         /\ l[3] \in 0..(NumFunctions - 1)
BY DEF Locations

LEMMA LocationMade ==
  ASSUME NEW b \in 0..(NumBuses - 1), NEW d \in 0..(NumDevices - 1),
         NEW f \in 0..(NumFunctions - 1)
  PROVE  <<b, d, f>> \in Locations
BY DEF Locations

(* cfg_read_u32 reads the aligned dword of the function it is asked for:   *)
(* the chipset takes the address apart as make_address puts it together    *)
(* (pci.rs:31-48).                                                         *)
LEMMA DwordRead ==
  ASSUME NEW loc \in Locations, NEW off \in 0..255
  PROVE  cfg_read_u32(loc, off) =
           IF loc \in DOMAIN machine THEN ConfigDword(machine[loc], off - (off % 4))
           ELSE <<255, 255, 255, 255>>
<1>1. PICK b \in 0..255, d \in 0..31, f \in 0..7 : loc = <<b, d, f>>
  <2>1. /\ loc = <<loc[1], loc[2], loc[3]>>
        /\ loc[1] \in 0..(NumBuses - 1) /\ loc[2] \in 0..(NumDevices - 1)
        /\ loc[3] \in 0..(NumFunctions - 1)
    BY LocationParts
  <2>2. loc[1] \in 0..255 /\ loc[2] \in 0..31 /\ loc[3] \in 0..7
    BY <2>1, BusesAssumption
  <2> QED
    BY <2>1, <2>2
<1> DEFINE o == off - (off % 4)
<1>2. o \in 0..255
  OBVIOUS
<1>3. make_address(loc, off) = b * 65536 + d * 2048 + f * 256 + o
  BY <1>1 DEF make_address
<1> HIDE DEF o
<1> DEFINE addr == b * 65536 + d * 2048 + f * 256 + o
<1>4. addr \div 65536 = b /\ b % 256 = b
  BY <1>1, <1>2
<1>5. addr \div 2048 = b * 32 + d /\ (b * 32 + d) % 32 = d
  BY <1>1, <1>2
<1>6. addr \div 256 = (b * 32 + d) * 8 + f /\ ((b * 32 + d) * 8 + f) % 8 = f
  BY <1>1, <1>2
<1>7. addr % 256 = o
  BY <1>1, <1>2
<1> HIDE DEF addr
<1>8. LocationOf(addr) = loc
  BY <1>1, <1>4, <1>5, <1>6 DEF LocationOf
<1>9. cfg_read_u32(loc, off) = ConfigPort(addr)
  BY <1>3 DEF cfg_read_u32, addr
<1> QED
  BY <1>7, <1>8, <1>9 DEF ConfigPort, o

-----------------------------------------------------------------------------
(* What the assumption on the devices says of one of them.                 *)
LEMMA DeviceOK ==
  ASSUME machine \in Machines, NEW l \in DOMAIN machine
  PROVE  /\ l \in Locations
         /\ machine[l].multi \in BOOLEAN /\ machine[l].bridge \in BOOLEAN
         /\ machine[l].class \in Byte \X Byte \X Byte /\ machine[l].secondary \in Byte
         /\ BarsOK(machine[l])
BY DevicesAssumption

(* The dwords of the header (pci.rs:194-239).                              *)
LEMMA HeaderDwords ==
  ASSUME NEW dev, dev.bridge \in BOOLEAN, BarsOK(dev)
  PROVE  /\ ConfigDword(dev, 0) = <<134, 128, 49, 30>>
         /\ ConfigDword(dev, 8) = <<1, dev.class[3], dev.class[2], dev.class[1]>>
         /\ ConfigDword(dev, 12) = <<0, 0, (IF dev.multi THEN 128 ELSE 0)
                                             + (IF dev.bridge THEN 1 ELSE 0), 0>>
         /\ dev.bridge => ConfigDword(dev, 24) = <<0, dev.secondary, 0, 0>>
<1> DEFINE B == {16 + 4 * i : i \in DOMAIN dev.bars}
<1>1. 0 \notin B /\ 8 \notin B /\ 12 \notin B /\ (dev.bridge => 24 \notin B)
  <2>1. DOMAIN dev.bars = 0..(IF dev.bridge THEN 1 ELSE 5)
    BY DEF BarsOK, BarCount
  <2> QED
    BY <2>1
<1> HIDE DEF B
<1>2. \A off : ConfigDword(dev, off) =
        CASE off = 0  -> <<134, 128, 49, 30>>
          [] off = 8  -> <<1, dev.class[3], dev.class[2], dev.class[1]>>
          [] off = 12 -> <<0, 0, (IF dev.multi THEN 128 ELSE 0)
                                   + (IF dev.bridge THEN 1 ELSE 0), 0>>
          [] off = 24 /\ dev.bridge -> <<0, dev.secondary, 0, 0>>
          [] off \in B -> BarDword(dev.bars[(off - 16) \div 4])
          [] off = 60 -> <<11, 1, 0, 0>>
          [] OTHER -> Zero
  BY DEF ConfigDword, B
<1> QED
  BY <1>1, <1>2

(* A read of BAR i returns the dword of slot i (pci.rs:162-163).           *)
LEMMA BarDwords ==
  ASSUME machine \in Machines, NEW l \in DOMAIN machine,
         NEW i \in 0..(BarCount(machine[l]) - 1)
  PROVE  bar_lo(l, i) = BarDword(machine[l].bars[i])
<1> DEFINE dev == machine[l]
<1>1. /\ l \in Locations /\ dev.bridge \in BOOLEAN
      /\ DOMAIN dev.bars = 0..(BarCount(dev) - 1)
  BY DeviceOK DEF BarsOK
<1>2. BarCount(dev) = IF dev.bridge THEN 2 ELSE 6
  BY DEF BarCount
<1> HIDE DEF dev
<1>3. i \in 0..5 /\ 16 + 4 * i \in 0..255 /\ (16 + 4 * i) % 4 = 0
  <2>1. BarCount(dev) = 2 \/ BarCount(dev) = 6
    BY <1>2
  <2>2. i \in 0..(BarCount(dev) - 1)
    BY DEF dev
  <2>3. i \in 0..5
    BY <2>1, <2>2
  <2> QED
    BY <2>3
<1>4. cfg_read_u32(l, 16 + 4 * i) = ConfigDword(dev, 16 + 4 * i)
  <2> DEFINE off == 16 + 4 * i
  <2>1. off \in 0..255 /\ off - (off % 4) = off
    BY <1>3
  <2> HIDE DEF off
  <2>2. cfg_read_u32(l, off) = ConfigDword(machine[l], off - (off % 4))
    BY <1>1, <2>1, DwordRead
  <2> QED
    BY <2>1, <2>2 DEF dev, off
<1>5. ConfigDword(dev, 16 + 4 * i) = BarDword(dev.bars[i])
  <2>1. /\ 16 + 4 * i \notin {0, 8, 12, 60}
        /\ ~(16 + 4 * i = 24 /\ dev.bridge)
        /\ ((16 + 4 * i) - 16) \div 4 = i
    BY <1>1, <1>2, <1>3 DEF dev
  <2>2. i \in DOMAIN dev.bars
    BY <1>1 DEF dev
  <2>3. 16 + 4 * i \in {16 + 4 * j : j \in DOMAIN dev.bars}
    BY <2>2
  <2> QED
    BY <2>1, <2>3 DEF ConfigDword
<1> QED
  BY <1>4, <1>5 DEF bar_lo, dev

-----------------------------------------------------------------------------
(* BARs.  SlotOK is what BarsOK says of a slot in which a region begins;   *)
(* Unflagged is the base in a dword of a BAR, without the flags.           *)
SlotOK(s) ==
  /\ s.kind \in {"none", "io", "mem32", "mem64"}
  /\ s.base \in Dword
  /\ s.kind = "io" => s.base[1] % 4 = 0
  /\ s.kind \in {"mem32", "mem64"} => s.base[1] % 16 = 0
  /\ s.kind = "mem32" => s.base # Zero

Unflagged(lo) == [lo EXCEPT ![1] = @ - (@ % (IF is_io(lo) THEN 4 ELSE 16))]

LEMMA FlagBits ==
  ASSUME NEW x \in Byte
  PROVE  /\ x % 4 = 0 =>
              /\ (x + 1) % 2 = 1 /\ (x + 1) - ((x + 1) % 4) = x /\ x + 1 # 0
         /\ x % 16 = 0 =>
              /\ x % 2 # 1 /\ (x \div 2) % 4 # 2 /\ x - (x % 16) = x
              /\ (x + 4) % 2 # 1 /\ ((x + 4) \div 2) % 4 = 2
              /\ (x + 4) - ((x + 4) % 16) = x /\ x + 4 # 0
BY DEF Byte

(* The flags of a BAR tell what read_bars takes from them, and masking     *)
(* them gives the base (pci.rs:164-187).                                   *)
LEMMA SlotBits ==
  ASSUME NEW s, SlotOK(s)
  PROVE  /\ BarDword(s) = Zero <=> s.kind = "none"
         /\ is_wide(BarDword(s)) <=> s.kind = "mem64"
         /\ s.kind # "none" => Unflagged(BarDword(s)) = s.base
<1> DEFINE b == s.base
<1>1. b \in [1..4 -> Byte] /\ b[1] \in Byte
  BY DEF SlotOK, Dword
<1>2. Zero[1] = 0 /\ DOMAIN Zero = 1..4
  BY DEF Zero
<1>3. CASE s.kind = "none"
  <2>1. BarDword(s) = Zero
    BY <1>3 DEF BarDword
  <2> QED
    BY <2>1, <1>2, <1>3 DEF is_wide
<1>4. CASE s.kind = "io"
  <2> DEFINE lo == [b EXCEPT ![1] = @ + 1]
  <2>1. BarDword(s) = lo
    BY <1>4 DEF BarDword
  <2>2. /\ lo[1] = b[1] + 1 /\ lo[1] % 2 = 1 /\ lo[1] - (lo[1] % 4) = b[1] /\ lo[1] # 0
    BY <1>1, <1>4, FlagBits DEF SlotOK
  <2>3. is_io(lo)
    BY <2>2 DEF is_io
  <2>4. [lo EXCEPT ![1] = b[1]] = b
    BY <1>1
  <2>5. Unflagged(lo) = [lo EXCEPT ![1] = lo[1] - (lo[1] % 4)]
    BY <2>3 DEF Unflagged
  <2> HIDE DEF lo, b
  <2>6. lo # Zero
    BY <2>2, <1>2
  <2>7. s.kind # "none" /\ s.kind # "mem64"
    BY <1>4
  <2> QED
    BY <2>1, <2>2, <2>3, <2>4, <2>5, <2>6, <2>7 DEF is_wide, b
<1>5. CASE s.kind = "mem32"
  <2>1. BarDword(s) = b
    BY <1>5 DEF BarDword
  <2>2. b[1] % 2 # 1 /\ (b[1] \div 2) % 4 # 2 /\ b[1] - (b[1] % 16) = b[1] /\ b # Zero
    BY <1>1, <1>5, FlagBits DEF SlotOK
  <2>3. ~is_io(b) /\ ~is_wide(b)
    BY <2>2 DEF is_io, is_wide
  <2>4. [b EXCEPT ![1] = b[1]] = b
    BY <1>1
  <2>5. Unflagged(b) = [b EXCEPT ![1] = b[1] - (b[1] % 16)]
    BY <2>3 DEF Unflagged
  <2> HIDE DEF b
  <2>6. s.kind # "none" /\ s.kind # "mem64"
    BY <1>5
  <2> QED
    BY <2>1, <2>2, <2>3, <2>4, <2>5, <2>6 DEF b
<1>6. CASE s.kind = "mem64"
  <2> DEFINE lo == [b EXCEPT ![1] = @ + 4]
  <2>1. BarDword(s) = lo
    BY <1>6 DEF BarDword
  <2>2. /\ lo[1] = b[1] + 4 /\ lo[1] % 2 # 1 /\ (lo[1] \div 2) % 4 = 2
        /\ lo[1] - (lo[1] % 16) = b[1] /\ lo[1] # 0
    BY <1>1, <1>6, FlagBits DEF SlotOK
  <2>3. ~is_io(lo) /\ is_wide(lo)
    BY <2>2 DEF is_io, is_wide
  <2>4. [lo EXCEPT ![1] = b[1]] = b
    BY <1>1
  <2>5. Unflagged(lo) = [lo EXCEPT ![1] = lo[1] - (lo[1] % 16)]
    BY <2>3 DEF Unflagged
  <2> HIDE DEF lo, b
  <2>6. lo # Zero
    BY <2>2, <1>2
  <2>7. s.kind # "none"
    BY <1>6
  <2> QED
    BY <1>6, <2>1, <2>2, <2>3, <2>4, <2>5, <2>6, <2>7 DEF b
<1> QED
  BY <1>3, <1>4, <1>5, <1>6 DEF SlotOK

LEMMA SlotsOK ==
  ASSUME NEW dev, BarsOK(dev), NEW i \in 0..(BarCount(dev) - 1), dev.bars[i].kind # "high"
  PROVE  SlotOK(dev.bars[i])
BY DEF BarsOK, SlotOK

(* What a slot in which a region begins reads as.                          *)
LEMMA SlotRead ==
  ASSUME machine \in Machines, NEW l \in DOMAIN machine,
         NEW i \in 0..(BarCount(machine[l]) - 1), machine[l].bars[i].kind # "high"
  PROVE  /\ bar_lo(l, i) = Zero <=> machine[l].bars[i].kind = "none"
         /\ is_wide(bar_lo(l, i)) <=> machine[l].bars[i].kind = "mem64"
         /\ machine[l].bars[i].kind # "none" =>
              Unflagged(bar_lo(l, i)) = machine[l].bars[i].base
<1> DEFINE s == machine[l].bars[i]
<1>1. BarsOK(machine[l]) /\ bar_lo(l, i) = BarDword(s)
  BY DeviceOK, BarDwords
<1>2. SlotOK(s)
  BY <1>1, SlotsOK
<1> HIDE DEF s
<1> QED
  BY <1>1, <1>2, SlotBits DEF s

(* The loop of read_bars visits the slots that are not the high half of a  *)
(* 64-bit BAR (pci.rs:160-190).                                            *)
LEMMA BarsVisited ==
  ASSUME machine \in Machines, NEW l \in DOMAIN machine
  PROVE  VisitedBars(l, BarCount(machine[l]))
           = {i \in 0..(BarCount(machine[l]) - 1) : machine[l].bars[i].kind # "high"}
<1> DEFINE n == BarCount(machine[l])
           slots == 0..(n - 1)
           wide(i) == is_wide(bar_lo(l, i))
           kind(i) == machine[l].bars[i].kind
           W == {i \in slots : kind(i) # "high"}
           Visits(V) == \A i \in slots : i \in V <=> (i = 0 \/ i - 1 \notin V \/ ~wide(i - 1))
<1>1. n \in {2, 6}
  BY DEF BarCount
<1>2. \A i \in slots : kind(i) = "high" <=> (i > 0 /\ kind(i - 1) = "mem64")
  BY DeviceOK DEF BarsOK
<1>3. \A i \in slots : kind(i) # "high" => (wide(i) <=> kind(i) = "mem64")
  BY SlotRead
<1> HIDE DEF n, wide, kind
<1>4. Visits(W)
  <2> SUFFICES ASSUME NEW i \in slots
               PROVE  i \in W <=> (i = 0 \/ i - 1 \notin W \/ ~wide(i - 1))
    OBVIOUS
  <2>1. CASE i = 0
    BY <2>1, <1>2
  <2>2. CASE i > 0
    <3>1. i - 1 \in slots
      BY <2>2, <1>1
    <3> QED
      BY <3>1, <2>2, <1>1, <1>2, <1>3
  <2> QED
    BY <2>1, <2>2, <1>1
<1>5. ASSUME NEW V \in SUBSET slots, Visits(V)
      PROVE  V = W
  <2>1. ASSUME NEW i \in slots, i > 0, i - 1 \in V <=> i - 1 \in W
        PROVE  i \in V <=> i \in W
    BY <1>4, <1>5, <2>1
  <2>2. 0 \in slots /\ 1 \in slots
    BY <1>1
  <2>3. 0 \in V <=> 0 \in W
    BY <1>4, <1>5, <2>2
  <2>4. 1 \in V <=> 1 \in W
    BY <2>1, <2>2, <2>3
  <2>5. 2 \in slots => (2 \in V <=> 2 \in W)
    BY <2>1, <2>4
  <2>6. 3 \in slots => (3 \in V <=> 3 \in W)
    BY <1>1, <2>1, <2>5
  <2>7. 4 \in slots => (4 \in V <=> 4 \in W)
    BY <1>1, <2>1, <2>6
  <2>8. 5 \in slots => (5 \in V <=> 5 \in W)
    BY <1>1, <2>1, <2>7
  <2>9. \A i \in slots : i \in {0, 1, 2, 3, 4, 5}
    BY <1>1
  <2>10. \A i \in slots : i \in V <=> i \in W
    BY <2>3, <2>4, <2>5, <2>6, <2>7, <2>8, <2>9
  <2> QED
    BY <2>10
<1>6. VisitedBars(l, n) = CHOOSE V \in SUBSET slots : Visits(V)
  BY DEF VisitedBars, wide
<1>7. W \in SUBSET slots
  OBVIOUS
<1> HIDE DEF W, Visits, slots
<1>8. VisitedBars(l, n) = W
  BY <1>4, <1>5, <1>6, <1>7
<1> QED
  BY <1>8 DEF n, W, slots, kind

(* read_bars finds the base of every region in its slot and nothing else   *)
(* (pci.rs:156-192).                                                       *)
LEMMA BarsRead ==
  ASSUME machine \in Machines, NEW l \in DOMAIN machine,
         NEW header, bar_count(header) = BarCount(machine[l]), NEW i \in 0..5
  PROVE  read_bars(l, header)[i] =
           IF i < BarCount(machine[l]) /\ machine[l].bars[i].kind \notin {"none", "high"}
           THEN RegionBase(machine[l], i) ELSE None
<1> DEFINE dev == machine[l]
           n == BarCount(dev)
<1>1. n \in {2, 6}
  BY DEF BarCount
<1>2. read_bars(l, header)[i] = IF i \in VisitedBars(l, n) /\ bar_lo(l, i) # Zero
                                THEN bar_base(l, n, i) ELSE None
  BY DEF read_bars
<1>3. i \in VisitedBars(l, n) <=> i < n /\ dev.bars[i].kind # "high"
  BY BarsVisited, <1>1
<1>4. CASE ~(i < n /\ dev.bars[i].kind # "high")
  BY <1>2, <1>3, <1>4
<1>5. CASE i < n /\ dev.bars[i].kind # "high"
  <2>1. i \in 0..(n - 1)
    BY <1>1, <1>5
  <2>2. bar_lo(l, i) = Zero <=> dev.bars[i].kind = "none"
    BY <1>5, <2>1, SlotRead
  <2>3. CASE dev.bars[i].kind = "none"
    BY <1>2, <2>2, <2>3
  <2>4. CASE dev.bars[i].kind # "none"
    <3>1. Unflagged(bar_lo(l, i)) = dev.bars[i].base
      BY <1>5, <2>1, <2>4, SlotRead
    <3>2. is_wide(bar_lo(l, i)) <=> dev.bars[i].kind = "mem64"
      BY <1>5, <2>1, SlotRead
    <3>3. dev.bars[i].kind = "mem64" => i + 1 < n /\ bar_lo(l, i + 1) = dev.bars[i + 1].base
      <4> SUFFICES ASSUME dev.bars[i].kind = "mem64"
                   PROVE  i + 1 < n /\ bar_lo(l, i + 1) = dev.bars[i + 1].base
        OBVIOUS
      <4>1. BarsOK(dev)
        BY DeviceOK
      <4>2. i + 1 \in 0..(n - 1)
        BY <2>1, <4>1 DEF BarsOK
      <4>3. i + 1 > 0 /\ (i + 1) - 1 = i
        OBVIOUS
      <4>4. dev.bars[i + 1].kind = "high"
        BY <4>1, <4>2, <4>3 DEF BarsOK
      <4>5. bar_lo(l, i + 1) = BarDword(dev.bars[i + 1])
        BY <4>2, BarDwords
      <4>6. i + 1 < n
        BY <4>2, <1>1
      <4> QED
        BY <4>4, <4>5, <4>6 DEF BarDword
    <3>4. bar_base(l, n, i) = <<Unflagged(bar_lo(l, i)),
            IF is_wide(bar_lo(l, i)) /\ i + 1 < n THEN bar_lo(l, i + 1) ELSE Zero>>
      BY DEF bar_base, Unflagged
    <3>5. bar_base(l, n, i) = RegionBase(dev, i)
      BY <3>1, <3>2, <3>3, <3>4 DEF RegionBase
    <3> QED
      BY <1>2, <1>3, <1>5, <2>2, <2>4, <3>5
  <2> QED
    BY <2>3, <2>4
<1> QED
  BY <1>4, <1>5

-----------------------------------------------------------------------------
(* read_pci_function returns None exactly where nothing is plugged in, and *)
(* else what the function is (pci.rs:194-239).                             *)
LEMMA FunctionRead ==
  ASSUME machine \in Machines, NEW l \in Locations
  PROVE  /\ read_pci_function(l) = None <=> l \notin DOMAIN machine
         /\ l \in DOMAIN machine =>
              LET f   == read_pci_function(l)[1]
                  dev == machine[l] IN
              /\ f.class = dev.class
              /\ is_multi_function(f.header) <=> dev.multi
              /\ f.secondary = (IF dev.bridge THEN <<dev.secondary>> ELSE None)
              /\ \A i \in 0..5 :
                   f.bars[i] = IF i < BarCount(dev) /\ dev.bars[i].kind \notin {"none", "high"}
                               THEN RegionBase(dev, i) ELSE None
<1>1. \A off \in {0, 9, 10, 11, 14, 25} :
        cfg_read_u32(l, off) = IF l \in DOMAIN machine
                               THEN ConfigDword(machine[l], off - (off % 4))
                               ELSE <<255, 255, 255, 255>>
  BY DwordRead
<1>2. cfg_read_u16(l, 0) = <<cfg_read_u32(l, 0)[1], cfg_read_u32(l, 0)[2]>>
  BY DEF cfg_read_u16
<1>3. CASE l \notin DOMAIN machine
  <2>1. cfg_read_u16(l, 0) = <<255, 255>>
    BY <1>1, <1>2, <1>3
  <2> QED
    BY <2>1, <1>3 DEF read_pci_function
<1>4. CASE l \in DOMAIN machine
  <2> DEFINE dev == machine[l]
             header == (IF dev.multi THEN 128 ELSE 0) + (IF dev.bridge THEN 1 ELSE 0)
  <2>1. /\ dev.multi \in BOOLEAN /\ dev.bridge \in BOOLEAN /\ BarsOK(dev)
        /\ dev.class = <<dev.class[1], dev.class[2], dev.class[3]>>
    <3>1. dev.class \in Byte \X Byte \X Byte
      BY <1>4, DeviceOK
    <3> QED
      BY <3>1, <1>4, DeviceOK
  <2> HIDE DEF dev
  <2>2. /\ ConfigDword(dev, 0) = <<134, 128, 49, 30>>
        /\ ConfigDword(dev, 8) = <<1, dev.class[3], dev.class[2], dev.class[1]>>
        /\ ConfigDword(dev, 12) = <<0, 0, header, 0>>
        /\ dev.bridge => ConfigDword(dev, 24) = <<0, dev.secondary, 0, 0>>
    BY <2>1, HeaderDwords
  <2>3. /\ cfg_read_u32(l, 0) = ConfigDword(dev, 0)
        /\ cfg_read_u32(l, 9) = ConfigDword(dev, 8)
        /\ cfg_read_u32(l, 10) = ConfigDword(dev, 8)
        /\ cfg_read_u32(l, 11) = ConfigDword(dev, 8)
        /\ cfg_read_u32(l, 14) = ConfigDword(dev, 12)
        /\ cfg_read_u32(l, 25) = ConfigDword(dev, 24)
    <3>1. /\ 0 - (0 % 4) = 0 /\ 9 - (9 % 4) = 8 /\ 10 - (10 % 4) = 8
          /\ 11 - (11 % 4) = 8 /\ 14 - (14 % 4) = 12 /\ 25 - (25 % 4) = 24
      OBVIOUS
    <3> QED
      BY <1>1, <1>4, <3>1 DEF dev
  <2>4. cfg_read_u16(l, 0) # <<255, 255>>
    BY <1>2, <2>2, <2>3
  <2>5. /\ cfg_read_u8(l, 11) = dev.class[1] /\ cfg_read_u8(l, 10) = dev.class[2]
        /\ cfg_read_u8(l, 9) = dev.class[3] /\ cfg_read_u8(l, 14) = header
        /\ dev.bridge => cfg_read_u8(l, 25) = dev.secondary
    <3>1. /\ (11 % 4) + 1 = 4 /\ (10 % 4) + 1 = 3 /\ (9 % 4) + 1 = 2
          /\ (14 % 4) + 1 = 3 /\ (25 % 4) + 1 = 2
      OBVIOUS
    <3> QED
      BY <2>2, <2>3, <3>1 DEF cfg_read_u8
  <2>6. /\ is_multi_function(header) <=> dev.multi
        /\ is_bridge(header) <=> dev.bridge
        /\ bar_count(header) = BarCount(dev)
    BY <2>1 DEF is_multi_function, is_bridge, bar_count, BarCount
  <2> HIDE DEF header
  <2>7. read_pci_function(l) =
          <<[class |-> dev.class, header |-> header, bars |-> read_bars(l, header),
             secondary |-> IF dev.bridge THEN <<dev.secondary>> ELSE None]>>
    <3>1. <<cfg_read_u8(l, 11), cfg_read_u8(l, 10), cfg_read_u8(l, 9)>> = dev.class
      BY <2>1, <2>5
    <3>2. (IF is_bridge(header) THEN <<cfg_read_u8(l, 25)>> ELSE None)
            = (IF dev.bridge THEN <<dev.secondary>> ELSE None)
      BY <2>5, <2>6
    <3>3. read_pci_function(l) =
            <<[class |-> <<cfg_read_u8(l, 11), cfg_read_u8(l, 10), cfg_read_u8(l, 9)>>,
               header |-> cfg_read_u8(l, 14),
               bars |-> read_bars(l, cfg_read_u8(l, 14)),
               secondary |-> IF is_bridge(cfg_read_u8(l, 14)) THEN <<cfg_read_u8(l, 25)>>
                             ELSE None]>>
      BY <2>4 DEF read_pci_function
    <3> QED
      BY <2>5, <3>1, <3>2, <3>3
  <2>8. \A i \in 0..5 :
          read_bars(l, header)[i] =
            IF i < BarCount(dev) /\ dev.bars[i].kind \notin {"none", "high"}
            THEN RegionBase(dev, i) ELSE None
    BY <1>4, <2>6, BarsRead DEF dev
  <2>9. read_pci_function(l) # None
    BY <2>7 DEF None
  <2> DEFINE f == [class |-> dev.class, header |-> header, bars |-> read_bars(l, header),
                   secondary |-> IF dev.bridge THEN <<dev.secondary>> ELSE None]
  <2>10. read_pci_function(l)[1] = f
    BY <2>7
  <2>11. /\ f.class = dev.class /\ f.header = header /\ f.bars = read_bars(l, header)
         /\ f.secondary = IF dev.bridge THEN <<dev.secondary>> ELSE None
    OBVIOUS
  <2> HIDE DEF f
  <2> QED
    BY <1>4, <2>6, <2>8, <2>9, <2>10, <2>11 DEF dev
<1> QED
  BY <1>3, <1>4

-----------------------------------------------------------------------------
(* A turn of the loops of scan adds the functions of one device and keeps  *)
(* the table exact (pci.rs:299-322).                                       *)
LEMMA ScanStep ==
  ASSUME TableExact, ScanDevice
  PROVE  TableExact'
<1> DEFINE b == scanPos[1]
           d == scanPos[2]
           f0 == read_pci_function(<<b, d, 0>>)
           here == {<<b, d, f>> : f \in FunctionsToRead(f0[1])}
           found == IF f0 = None THEN {} ELSE {l \in here : read_pci_function(l) # None}
<1>1. /\ machine \in Machines /\ machine' = machine
      /\ b \in 0..(NumBuses - 1) /\ d \in 0..(NumDevices - 1) /\ scanPos = <<b, d>>
  <2>1. scanPos # <<NumBuses, 0>>
    BY DEF ScanDevice, ScanDone
  <2> QED
    BY <2>1 DEF TableExact, ScanDevice
<1>2. /\ NumBuses \in Nat /\ NumDevices \in Nat /\ NumFunctions \in Nat /\ NumDevices >= 1
      /\ 0 \in 0..(NumFunctions - 1)
  BY BusesAssumption
<1>3. /\ buses' = [l \in DOMAIN buses \cup found |->
                     IF l \in found THEN read_pci_function(l)[1] ELSE buses[l]]
      /\ scanPos' = IF d + 1 < NumDevices THEN <<b, d + 1>> ELSE <<b + 1, 0>>
  BY DEF ScanDevice
<1>4. found = {l \in Reachable : l[1] = b /\ l[2] = d}
  <2>1. DOMAIN machine \subseteq Locations
    BY <1>1, DevicesAssumption
  <2>2. <<b, d, 0>> \in Locations
    BY <1>1, <1>2, LocationMade
  <2>3. f0 = None <=> <<b, d, 0>> \notin DOMAIN machine
    BY <1>1, <2>2, FunctionRead
  <2>4. CASE f0 = None
    <3>1. \A l \in Reachable : ~(l[1] = b /\ l[2] = d)
      BY <2>3, <2>4 DEF Reachable
    <3> QED
      BY <3>1, <2>4
  <2>5. CASE f0 # None
    <3>1. is_multi_function(f0[1].header) <=> machine[<<b, d, 0>>].multi
      BY <1>1, <2>2, <2>3, <2>5, FunctionRead
    <3>2. here \subseteq Locations
      <4>1. FunctionsToRead(f0[1]) \subseteq 0..(NumFunctions - 1)
        BY <1>2 DEF FunctionsToRead
      <4> QED
        BY <4>1, <1>1, LocationMade
    <3>3. \A l \in here : read_pci_function(l) # None <=> l \in DOMAIN machine
      BY <1>1, <3>2, FunctionRead
    <3>4. found = {l \in here : l \in DOMAIN machine}
      BY <2>5, <3>3
    <3> HIDE DEF found, f0
    <3>5. ASSUME NEW l, l \in here, l \in DOMAIN machine
          PROVE  l \in Reachable /\ l[1] = b /\ l[2] = d
      <4>1. PICK f \in FunctionsToRead(f0[1]) : l = <<b, d, f>>
        BY <3>5
      <4>2. f = 0 \/ machine[<<b, d, 0>>].multi
        BY <4>1, <3>1 DEF FunctionsToRead
      <4>3. l[1] = b /\ l[2] = d /\ l[3] = f
        BY <4>1
      <4> HIDE DEF b, d
      <4> QED
        BY <2>3, <2>5, <3>5, <4>2, <4>3 DEF Reachable
    <3>6. ASSUME NEW l \in Reachable, l[1] = b, l[2] = d
          PROVE  l \in here /\ l \in DOMAIN machine
      <4>1. l \in DOMAIN machine /\ l \in Locations
        BY <2>1 DEF Reachable
      <4>2. l = <<b, d, l[3]>> /\ l[3] \in 0..(NumFunctions - 1)
        BY <3>6, <4>1, LocationParts
      <4>3. l[3] = 0 \/ machine[<<b, d, 0>>].multi
        BY <3>6 DEF Reachable
      <4>4. l[3] \in FunctionsToRead(f0[1])
        BY <3>1, <4>2, <4>3 DEF FunctionsToRead
      <4> QED
        BY <4>1, <4>2, <4>4
    <3> HIDE DEF here, b, d
    <3> QED
      BY <3>4, <3>5, <3>6
  <2> QED
    BY <2>4, <2>5
<1> HIDE DEF found
<1>5. scanPos' \in (0..(NumBuses - 1)) \X (0..(NumDevices - 1)) \/ scanPos' = <<NumBuses, 0>>
  BY <1>1, <1>2, <1>3
<1>6. Reachable' = Reachable
  BY <1>1 DEF Reachable
<1>7. \A l \in Reachable : Scanned(l)' <=> Scanned(l) \/ (l[1] = b /\ l[2] = d)
  <2> SUFFICES ASSUME NEW l \in Reachable
               PROVE  Scanned(l)' <=> Scanned(l) \/ (l[1] = b /\ l[2] = d)
    OBVIOUS
  <2>1. l[1] \in 0..(NumBuses - 1) /\ l[2] \in 0..(NumDevices - 1)
    <3>1. l \in Locations
      BY <1>1, DevicesAssumption DEF Reachable
    <3> QED
      BY <3>1, LocationParts
  <2>2. /\ scanPos'[1] = IF d + 1 < NumDevices THEN b ELSE b + 1
        /\ scanPos'[2] = IF d + 1 < NumDevices THEN d + 1 ELSE 0
    BY <1>3
  <2> HIDE DEF b, d
  <2>3. CASE d + 1 < NumDevices
    BY <1>1, <1>2, <2>1, <2>2, <2>3 DEF Scanned, b, d
  <2>4. CASE ~(d + 1 < NumDevices)
    BY <1>1, <1>2, <2>1, <2>2, <2>4 DEF Scanned, b, d
  <2> QED
    BY <2>3, <2>4
<1>8. DOMAIN buses' = {l \in Reachable' : Scanned(l)'}
  <2>1. DOMAIN buses' = DOMAIN buses \cup found
    BY <1>3
  <2>2. DOMAIN buses = {l \in Reachable : Scanned(l)}
    BY DEF TableExact
  <2> HIDE DEF b, d
  <2> QED
    BY <2>1, <2>2, <1>4, <1>6, <1>7
<1>9. \A l \in DOMAIN buses' : FunctionExact(l)'
  <2> SUFFICES ASSUME NEW l \in DOMAIN buses'
               PROVE  FunctionExact(l)'
    OBVIOUS
  <2>1. CASE l \in found
    <3>1. l \in DOMAIN machine /\ l \in Locations
      BY <2>1, <1>1, <1>4, DevicesAssumption DEF Reachable
    <3>2. buses'[l] = read_pci_function(l)[1]
      BY <2>1, <1>3
    <3> QED
      BY <3>1, <3>2, <1>1, FunctionRead DEF FunctionExact
  <2>2. CASE l \notin found
    <3>1. l \in DOMAIN buses /\ buses'[l] = buses[l]
      BY <2>2, <1>3
    <3>2. FunctionExact(l)
      BY <3>1 DEF TableExact
    <3> QED
      BY <3>1, <3>2, <1>1 DEF FunctionExact
  <2> QED
    BY <2>1, <2>2
<1> QED
  BY <1>1, <1>5, <1>8, <1>9 DEF TableExact

-----------------------------------------------------------------------------
(* The iterators.  One turn from a settled position leads to a settled     *)
(* position; it returns the function at the position it leaves or passes   *)
(* over no function of the table (pci.rs:344-370).                         *)
LEMMA SettledAt == Settled(At(iter.b, iter.d, iter.f)) <=> Settled(iter)
BY DEF Settled, At

LEMMA TurnOutcome ==
  ASSUME DOMAIN buses \subseteq Locations,
         NEW b \in 0..(NumBuses - 1), NEW d \in 0..NumDevices, NEW f \in 0..NumFunctions,
         Settled(At(b, d, f))
  PROVE  \E q \in Positions :
           /\ Settled(q)
           /\ \/ /\ <<b, d, f>> \in DOMAIN buses /\ q = At(b, d, f + 1)
                 /\ IterTurn(At(b, d, f)) = [loc |-> <<b, d, f>>, pos |-> q]
              \/ /\ IterTurn(At(b, d, f)) = [loc |-> None, pos |-> q]
                 /\ \A l \in DOMAIN buses :
                      Before(l, <<q.b, q.d, q.f>>) <=> Before(l, <<b, d, f>>)
<1> DEFINE p == At(b, d, f)
<1>1. p.b = b /\ p.d = d /\ p.f = f
  BY DEF At
<1>2. NumBuses \in Nat /\ NumDevices \in Nat /\ NumFunctions \in Nat
  BY BusesAssumption
<1>3. \A l \in DOMAIN buses : /\ l[1] \in 0..(NumBuses - 1) /\ l[2] \in 0..(NumDevices - 1)
                              /\ l[3] \in 0..(NumFunctions - 1)
                              /\ l = <<l[1], l[2], l[3]>>
  BY LocationParts
<1>4. DevicePresent(b, d) \/ f = 0
  BY <1>1 DEF Settled
<1> HIDE DEF p
<1>5. \A x, y, z : /\ At(x, y, z).b = x /\ At(x, y, z).d = y /\ At(x, y, z).f = z
                   /\ (x \in 0..NumBuses /\ y \in 0..NumDevices /\ z \in 0..NumFunctions
                         => At(x, y, z) \in Positions)
                   /\ (Settled(At(x, y, z)) <=> (DevicePresent(x, y) \/ z = 0))
  BY DEF At, Positions, Settled
<1>6. CASE ~BusPresent(b) \/ d >= NumDevices
  <2> DEFINE q == At(b + 1, 0, 0)
  <2>1. q \in Positions /\ Settled(q) /\ q.b = b + 1 /\ q.d = 0 /\ q.f = 0
    BY <1>2, <1>5
  <2>2. IterTurn(p) = [loc |-> None, pos |-> q]
    BY <1>1, <1>6 DEF IterTurn, Moved
  <2> HIDE DEF q
  <2>3. \A l \in DOMAIN buses : l[1] = b => l[2] < d
    BY <1>2, <1>3, <1>6 DEF BusPresent
  <2>4. \A l \in DOMAIN buses : Before(l, <<q.b, q.d, q.f>>) <=> Before(l, <<b, d, f>>)
    BY <1>2, <1>3, <2>1, <2>3 DEF Before
  <2> QED
    BY <2>1, <2>2, <2>4 DEF p
<1>7. CASE BusPresent(b) /\ ~(d >= NumDevices) /\ ~DevicePresent(b, d)
  <2> DEFINE q == At(b, d + 1, f)
  <2>1. q \in Positions /\ Settled(q) /\ q.b = b /\ q.d = d + 1 /\ q.f = f /\ f = 0
    BY <1>2, <1>4, <1>5, <1>7
  <2>2. IterTurn(p) = [loc |-> None, pos |-> q]
    BY <1>1, <1>7 DEF IterTurn, Moved
  <2> HIDE DEF q
  <2>3. \A l \in DOMAIN buses : ~(l[1] = b /\ l[2] = d)
    BY <1>7 DEF DevicePresent
  <2>4. \A l \in DOMAIN buses : Before(l, <<q.b, q.d, q.f>>) <=> Before(l, <<b, d, f>>)
    BY <1>2, <1>3, <2>1, <2>3 DEF Before
  <2> QED
    BY <2>1, <2>2, <2>4 DEF p
<1>8. CASE BusPresent(b) /\ ~(d >= NumDevices) /\ DevicePresent(b, d) /\ f >= NumFunctions
  <2> DEFINE q == At(b, d + 1, 0)
  <2>1. q \in Positions /\ Settled(q) /\ q.b = b /\ q.d = d + 1 /\ q.f = 0
    BY <1>2, <1>5, <1>8
  <2>2. IterTurn(p) = [loc |-> None, pos |-> q]
    BY <1>1, <1>8 DEF IterTurn, Moved
  <2> HIDE DEF q
  <2>3. \A l \in DOMAIN buses : l[3] < f
    BY <1>2, <1>3, <1>8
  <2>4. \A l \in DOMAIN buses : Before(l, <<q.b, q.d, q.f>>) <=> Before(l, <<b, d, f>>)
    BY <1>2, <1>3, <2>1, <2>3 DEF Before
  <2> QED
    BY <2>1, <2>2, <2>4 DEF p
<1>9. CASE BusPresent(b) /\ ~(d >= NumDevices) /\ DevicePresent(b, d) /\ ~(f >= NumFunctions)
  <2> DEFINE q == At(b, d, f + 1)
  <2>1. q \in Positions /\ Settled(q) /\ q.b = b /\ q.d = d /\ q.f = f + 1
    BY <1>2, <1>5, <1>9
  <2>2. IterTurn(p) = LookedAt(p)
    BY <1>1, <1>9 DEF IterTurn
  <2>3. LookedAt(p) = [loc |-> IF <<b, d, f>> \in DOMAIN buses THEN <<b, d, f>> ELSE None,
                       pos |-> q]
    BY <1>1 DEF LookedAt
  <2>4. <<b, d, f>> \notin DOMAIN buses => \A l \in DOMAIN buses : l # <<b, d, f>>
    OBVIOUS
  <2>5. \A l \in DOMAIN buses :
          l # <<b, d, f>> => (Before(l, <<b, d, f + 1>>) <=> Before(l, <<b, d, f>>))
    <3> SUFFICES ASSUME NEW l \in DOMAIN buses, l # <<b, d, f>>
                 PROVE  Before(l, <<b, d, f + 1>>) <=> Before(l, <<b, d, f>>)
      OBVIOUS
    <3>1. ~(l[1] = b /\ l[2] = d /\ l[3] = f)
      BY <1>3
    <3> QED
      BY <1>2, <1>3, <3>1 DEF Before
  <2>6. CASE <<b, d, f>> \in DOMAIN buses
    <3>1. IterTurn(p) = [loc |-> <<b, d, f>>, pos |-> q]
      BY <2>2, <2>3, <2>6
    <3> QED
      BY <2>1, <2>6, <3>1 DEF p
  <2>7. CASE <<b, d, f>> \notin DOMAIN buses
    <3>1. IterTurn(p) = [loc |-> None, pos |-> q]
      BY <2>2, <2>3, <2>7
    <3>2. \A l \in DOMAIN buses : Before(l, <<q.b, q.d, q.f>>) <=> Before(l, <<b, d, f>>)
      BY <2>1, <2>4, <2>5, <2>7
    <3> HIDE DEF q
    <3> QED
      BY <2>1, <3>1, <3>2 DEF p
  <2> QED
    BY <2>6, <2>7
<1> QED
  BY <1>6, <1>7, <1>8, <1>9

(* A turn of the iterator keeps what IterExact says; a function it yields  *)
(* is in the table and has not been yielded before.                        *)
LEMMA IterStep ==
  ASSUME DOMAIN buses \subseteq Locations, IterExact, ~IterDone, AdvanceIter,
         UNCHANGED buses
  PROVE  /\ IterExact'
         /\ Upcoming.loc # None =>
              /\ Upcoming.loc \in DOMAIN buses /\ Upcoming.loc \notin Yielded
              /\ Yielded' = Yielded \cup {Upcoming.loc}
         /\ Upcoming.loc = None => Yielded' = Yielded
<1> DEFINE b == iter.b
           d == iter.d
           f == iter.f
           y == iter.yielded
<1>1. /\ b \in 0..(NumBuses - 1) /\ d \in 0..NumDevices /\ f \in 0..NumFunctions
      /\ y \in Seq(Locations) /\ Settled(At(b, d, f))
  BY BusesAssumption, SettledAt DEF IterExact, IterDone
<1>2. Yielded = {l \in DOMAIN buses : Before(l, <<b, d, f>>)} /\ Ascending
  BY DEF IterExact
<1> DEFINE t == IterTurn(At(b, d, f))
<1>3. /\ Upcoming = t
      /\ iter' = [b |-> t.pos.b, d |-> t.pos.d, f |-> t.pos.f,
                  yielded |-> IF t.loc = None THEN y ELSE Append(y, t.loc)]
  BY DEF Upcoming, AdvanceIter
<1> HIDE DEF b, d, f, y
<1>4. PICK q \in Positions :
        /\ Settled(q)
        /\ \/ /\ <<b, d, f>> \in DOMAIN buses /\ q = At(b, d, f + 1)
              /\ t = [loc |-> <<b, d, f>>, pos |-> q]
           \/ /\ t = [loc |-> None, pos |-> q]
              /\ \A l \in DOMAIN buses :
                   Before(l, <<q.b, q.d, q.f>>) <=> Before(l, <<b, d, f>>)
  BY <1>1, TurnOutcome
<1> HIDE DEF t
<1>5. q.b \in 0..NumBuses /\ q.d \in 0..NumDevices /\ q.f \in 0..NumFunctions
  BY <1>4 DEF Positions
<1>6. t.pos = q
  BY <1>4
<1>7. iter'.b = q.b /\ iter'.d = q.d /\ iter'.f = q.f
  BY <1>3, <1>6
<1>8. Settled(iter)'
  BY <1>4, <1>7 DEF Settled, DevicePresent
<1>9. CASE t.loc = None
  <2>1. iter'.yielded = y
    BY <1>3, <1>9
  <2>2. Ascending' /\ Yielded' = Yielded
    BY <1>2, <2>1 DEF Ascending, Yielded, y
  <2>3. \A l \in DOMAIN buses : Before(l, <<q.b, q.d, q.f>>) <=> Before(l, <<b, d, f>>)
    <3>1. <<b, d, f>> # None
      BY DEF None
    <3> QED
      BY <1>4, <1>9, <3>1
  <2>4. Yielded' = {l \in DOMAIN buses' : Before(l, <<iter'.b, iter'.d, iter'.f>>)}
    BY <1>2, <1>7, <2>2, <2>3
  <2>5. iter' \in [b : 0..NumBuses, d : 0..NumDevices, f : 0..NumFunctions,
                   yielded : Seq(Locations)]
    BY <1>1, <1>3, <1>5, <1>6, <1>9
  <2> QED
    BY <1>3, <1>8, <1>9, <2>2, <2>4, <2>5 DEF IterExact
<1>10. CASE t.loc # None
  <2> DEFINE loc == <<b, d, f>>
  <2>1. loc \in DOMAIN buses /\ t.loc = loc /\ q.b = b /\ q.d = d /\ q.f = f + 1
    BY <1>4, <1>10 DEF At
  <2>2. iter'.yielded = Append(y, loc)
    BY <1>3, <1>10, <2>1
  <2>3. loc[1] = b /\ loc[2] = d /\ loc[3] = f
    OBVIOUS
  <2> HIDE DEF loc
  <2>4. \A l \in DOMAIN buses : Before(l, <<q.b, q.d, q.f>>) <=> Before(l, loc) \/ l = loc
    <3> SUFFICES ASSUME NEW l \in DOMAIN buses
                 PROVE  Before(l, <<q.b, q.d, q.f>>) <=> Before(l, loc) \/ l = loc
      OBVIOUS
    <3>1. /\ l[1] \in 0..(NumBuses - 1) /\ l[2] \in 0..(NumDevices - 1)
          /\ l[3] \in 0..(NumFunctions - 1) /\ l = <<l[1], l[2], l[3]>>
      BY LocationParts
    <3>2. l = loc <=> l[1] = b /\ l[2] = d /\ l[3] = f
      BY <2>3, <3>1 DEF loc
    <3> QED
      BY <1>1, <2>1, <2>3, <3>1, <3>2, BusesAssumption DEF Before
  <2>5. ~Before(loc, loc) /\ \A l : Before(l, <<b, d, f>>) <=> Before(l, loc)
    BY <1>1, <2>3 DEF Before, loc
  <2>6. loc \in Locations
    BY <2>1
  <2>7. Len(y) \in Nat /\ y \in Seq(Locations)
    BY <1>1
  <2>8. /\ Append(y, loc) \in Seq(Locations) /\ Len(Append(y, loc)) = Len(y) + 1
        /\ Append(y, loc)[Len(y) + 1] = loc
        /\ \A i \in 1..Len(y) : Append(y, loc)[i] = y[i]
    BY <2>6, <2>7
  <2>9. Yielded = {y[i] : i \in 1..Len(y)}
    BY DEF Yielded, y
  <2>10. Yielded' = Yielded \cup {loc}
    <3>1. Yielded' = {Append(y, loc)[i] : i \in 1..(Len(y) + 1)}
      BY <2>2, <2>8 DEF Yielded
    <3>2. \A i \in 1..(Len(y) + 1) : i \in 1..Len(y) \/ i = Len(y) + 1
      BY <2>7
    <3>3. \A i \in 1..Len(y) : i \in 1..(Len(y) + 1)
      BY <2>7
    <3>4. Len(y) + 1 \in 1..(Len(y) + 1)
      BY <2>7
    <3>5. Yielded' \subseteq Yielded \cup {loc}
      BY <2>8, <2>9, <3>1, <3>2
    <3>6. Yielded \cup {loc} \subseteq Yielded'
      BY <2>8, <2>9, <3>1, <3>3, <3>4
    <3> QED
      BY <3>5, <3>6
  <2>11. Ascending'
    <3> SUFFICES ASSUME NEW i \in 1..(Len(y) + 1), NEW j \in 1..(Len(y) + 1), i < j
                 PROVE  Before(Append(y, loc)[i], Append(y, loc)[j])
      BY <2>2, <2>8 DEF Ascending
    <3>1. i \in 1..Len(y)
      BY <2>7
    <3>2. CASE j \in 1..Len(y)
      BY <1>2, <2>8, <3>1, <3>2 DEF Ascending, y
    <3>3. CASE j = Len(y) + 1
      <4>1. Before(y[i], loc)
        BY <1>2, <2>5, <2>9, <3>1
      <4> QED
        BY <2>8, <3>1, <3>3, <4>1
    <3> QED
      BY <2>7, <3>2, <3>3
  <2>12. Yielded' = {l \in DOMAIN buses' : Before(l, <<iter'.b, iter'.d, iter'.f>>)}
    <3>1. Yielded = {l \in DOMAIN buses : Before(l, loc)}
      BY <1>2, <2>5
    <3> QED
      BY <1>7, <2>1, <2>4, <2>10, <3>1
  <2>13. iter' \in [b : 0..NumBuses, d : 0..NumDevices, f : 0..NumFunctions,
                    yielded : Seq(Locations)]
    BY <1>3, <1>5, <1>6, <1>10, <2>1, <2>8
  <2>14. loc \notin Yielded
    BY <1>2, <2>5
  <2> QED
    BY <1>3, <1>8, <1>10, <2>1, <2>10, <2>11, <2>12, <2>13, <2>14 DEF IterExact
<1> QED
  BY <1>9, <1>10

(* Both iterators do the same from a settled position (pci.rs:385-432).    *)
LEMMA IteratorsAgree ==
  ASSUME DOMAIN buses \subseteq Locations,
         NEW p \in Positions, p.b < NumBuses, Settled(p)
  PROVE  IterMutTurn(p) = IterTurn(p) /\ Settled(IterTurn(p).pos)
<1>1. /\ p.b \in 0..(NumBuses - 1) /\ p.d \in 0..NumDevices /\ p.f \in 0..NumFunctions
      /\ p = At(p.b, p.d, p.f)
  BY BusesAssumption DEF Positions, At
<1>2. Settled(IterTurn(p).pos)
  <2> DEFINE b == p.b
             d == p.d
             f == p.f
  <2>1. /\ b \in 0..(NumBuses - 1) /\ d \in 0..NumDevices /\ f \in 0..NumFunctions
        /\ p = At(b, d, f) /\ Settled(At(b, d, f))
    BY <1>1
  <2> HIDE DEF b, d, f
  <2>2. PICK q \in Positions :
          /\ Settled(q)
          /\ \/ IterTurn(p) = [loc |-> <<b, d, f>>, pos |-> q]
             \/ IterTurn(p) = [loc |-> None, pos |-> q]
    <3>1. PICK q \in Positions :
            /\ Settled(q)
            /\ \/ /\ <<b, d, f>> \in DOMAIN buses /\ q = At(b, d, f + 1)
                  /\ IterTurn(At(b, d, f)) = [loc |-> <<b, d, f>>, pos |-> q]
               \/ /\ IterTurn(At(b, d, f)) = [loc |-> None, pos |-> q]
                  /\ \A l \in DOMAIN buses :
                       Before(l, <<q.b, q.d, q.f>>) <=> Before(l, <<b, d, f>>)
      BY <2>1, TurnOutcome
    <3> QED
      BY <2>1, <3>1
  <2> QED
    BY <2>2
<1>3. DevicePresent(p.b, p.d) \/ p.f = 0
  BY DEF Settled
<1>4. Moved(p.b, p.d + 1, p.f) = Moved(p.b, p.d + 1, 0) \/ DevicePresent(p.b, p.d)
  BY <1>3
<1>5. IterMutTurn(p) = IterTurn(p)
  BY <1>4 DEF IterMutTurn, IterTurn
<1> QED
  BY <1>2, <1>5

(* The properties of the iterators follow (pci.rs:344-432).                *)
LEMMA IterExactGivesIteratorsExact ==
  ASSUME DOMAIN buses \subseteq Locations, IterExact
  PROVE  IteratorsExact
<1>1. Ascending
  BY DEF IterExact
<1>2. ASSUME IterDone
      PROVE  Yielded = DOMAIN buses
  <2>1. iter.b = NumBuses /\ NumBuses \in Nat
    BY <1>2, BusesAssumption DEF IterDone, IterExact
  <2>2. \A l \in DOMAIN buses : l[1] < NumBuses
    BY LocationParts, BusesAssumption
  <2>3. \A l \in DOMAIN buses : Before(l, <<iter.b, iter.d, iter.f>>)
    BY <2>1, <2>2 DEF Before
  <2> QED
    BY <2>3 DEF IterExact
<1> QED
  BY <1>1, <1>2, IteratorsAgree DEF IteratorsExact

-----------------------------------------------------------------------------
(***************************************************************************)
(* MmioMap: the windows that map_mmio_region hands out share no page and   *)
(* stay mapped to the frames that were asked for, for every page size,     *)
(* every sequence of calls and every address and size.                     *)
(***************************************************************************)

(* A region of at least one byte takes at least one page                   *)
(* (paging.rs:43-53).                                                      *)
LEMMA PagesPositive ==
  ASSUME NEW off \in 0..(PageSize - 1), NEW size \in Nat \ {0}
  PROVE  PagesOf(off, size) \in Nat /\ PagesOf(off, size) >= 1
<1> DEFINE n == off + size - 1
<1>1. n \in Nat /\ PageSize \in Nat /\ PageSize > 0
  BY PageSizeAssumption
<1> HIDE DEF n
<1>2. n \div PageSize \in Nat
  BY <1>1
<1> QED
  BY <1>2 DEF PagesOf, n

(* Before the first call there are no windows and no pages                 *)
(* (paging.rs:47).                                                         *)
LEMMA InitMmioInv == MmioInit => MmioInv
BY DEF MmioInit, MmioInv, WindowsApart, WindowsMapped

(* A call puts its window behind all others and maps pages that were not   *)
(* mapped before, and only these (paging.rs:47-77).                        *)
LEMMA CallMmioInv ==
  ASSUME MmioInv,
         NEW frame \in Nat, NEW off \in 0..(PageSize - 1), NEW size \in Nat \ {0},
         map_mmio_region(frame, off, size)
  PROVE  MmioInv'
<1> DEFINE n == PagesOf(off, size)
           new == nextVirt..(nextVirt + n - 1)
           win == [page |-> nextVirt, pages |-> n, frame |-> frame]
<1>1. n \in Nat /\ n >= 1
  BY PagesPositive
<1>2. /\ nextVirt' = nextVirt + n
      /\ pageTable' = [p \in DOMAIN pageTable \cup new |->
                         IF p \in new THEN frame + (p - nextVirt) ELSE pageTable[p]]
      /\ windows' = windows \cup {win}
  BY DEF map_mmio_region
<1> HIDE DEF n
<1>3. nextVirt' \in Nat
  BY <1>1, <1>2 DEF MmioInv
<1>4. DOMAIN pageTable' = 0..(nextVirt' - 1)
  <2>1. DOMAIN pageTable' = (0..(nextVirt - 1)) \cup new
    BY <1>2 DEF MmioInv
  <2> QED
    BY <2>1, <1>1, <1>2 DEF MmioInv
<1>5. \A w \in windows' :
        /\ w.page \in Nat /\ w.pages \in Nat /\ w.frame \in Nat
        /\ w.page + w.pages <= nextVirt'
  BY <1>1, <1>2 DEF MmioInv
<1>6. WindowsApart'
  <2> SUFFICES ASSUME NEW v \in windows', NEW w \in windows', v # w
               PROVE  v.page + v.pages <= w.page \/ w.page + w.pages <= v.page
    BY DEF WindowsApart
  <2>1. CASE v \in windows /\ w \in windows
    BY <2>1 DEF MmioInv, WindowsApart
  <2>2. CASE v = win \/ w = win
    BY <2>2, <1>1, <1>2 DEF MmioInv
  <2> QED
    BY <2>1, <2>2, <1>2
<1>7. WindowsMapped'
  <2> SUFFICES ASSUME NEW w \in windows', NEW k \in 0..(w.pages - 1)
               PROVE  w.page + k \in DOMAIN pageTable' /\ pageTable'[w.page + k] = w.frame + k
    BY DEF WindowsMapped
  <2>1. CASE w = win
    <3>1. w.page + k = nextVirt + k /\ k \in 0..(n - 1) /\ w.frame + k = frame + k
      BY <2>1
    <3>2. nextVirt + k \in new /\ (nextVirt + k) - nextVirt = k
      BY <3>1, <1>1 DEF MmioInv
    <3> QED
      BY <3>1, <3>2, <1>2
  <2>2. CASE w \in windows
    <3>1. w.page + k \in DOMAIN pageTable /\ pageTable[w.page + k] = w.frame + k
      BY <2>2 DEF MmioInv, WindowsMapped
    <3>2. w.page + k \notin new
      BY <2>2, <1>1 DEF MmioInv
    <3> QED
      BY <3>1, <3>2, <1>2
  <2> QED
    BY <2>1, <2>2, <1>2
<1> QED
  BY <1>3, <1>4, <1>5, <1>6, <1>7 DEF MmioInv

-----------------------------------------------------------------------------
(* The invariant holds after every sequence of calls (paging.rs:37-78).    *)
THEOREM MmioInvariant == MmioSpec => []MmioInv
<1>1. MmioInv /\ [MmioNext]_mmioVars => MmioInv'
  <2> SUFFICES ASSUME MmioInv, [MmioNext]_mmioVars
               PROVE  MmioInv'
    OBVIOUS
  <2>1. CASE MmioNext
    BY <2>1, CallMmioInv DEF MmioNext
  <2>2. CASE UNCHANGED mmioVars
    BY <2>2 DEF mmioVars, MmioInv, WindowsApart, WindowsMapped
  <2> QED
    BY <2>1, <2>2
<1> QED
  BY <1>1, InitMmioInv, PTL DEF MmioSpec

(* No two windows share a page (paging.rs:47-55).                          *)
THEOREM MmioWindowsApart == MmioSpec => []WindowsApart
<1>1. MmioInv => WindowsApart
  BY DEF MmioInv
<1> QED
  BY <1>1, MmioInvariant, PTL

(* Every page of every window stays mapped to its frame (paging.rs:62-75). *)
THEOREM MmioWindowsMapped == MmioSpec => []WindowsMapped
<1>1. MmioInv => WindowsMapped
  BY DEF MmioInv
<1> QED
  BY <1>1, MmioInvariant, PTL

-----------------------------------------------------------------------------
(***************************************************************************)
(* KernelDevices: what holds of the scan, the mapping and the controller   *)
(* together.                                                               *)
(***************************************************************************)

(* Constants.                                                              *)

(* There are finitely many locations (pci.rs:240-271).                     *)
LEMMA LocationsFinite == IsFiniteSet(Locations)
<1> DEFINE B == 0..(NumBuses - 1)
           D == 0..(NumDevices - 1)
           F == 0..(NumFunctions - 1)
           pair == [l \in Locations |-> <<<<l[1], l[2]>>, l[3]>>]
<1>1. IsFiniteSet(B) /\ IsFiniteSet(D) /\ IsFiniteSet(F)
  BY FS_Interval, BusesAssumption
<1> HIDE DEF B, D, F
<1>2. IsFiniteSet(B \X D)
  BY <1>1, FS_Product
<1>3. IsFiniteSet((B \X D) \X F)
  BY <1>1, <1>2, FS_Product
<1>4. \A l \in Locations : /\ l = <<l[1], l[2], l[3]>>
                           /\ l[1] \in B /\ l[2] \in D /\ l[3] \in F
  BY LocationParts DEF B, D, F
<1>5. pair \in [Locations -> (B \X D) \X F]
  BY <1>4
<1>6. \A l, m \in Locations : pair[l] = pair[m] => l = m
  <2> SUFFICES ASSUME NEW l \in Locations, NEW m \in Locations, pair[l] = pair[m]
               PROVE  l = m
    OBVIOUS
  <2>1. l[1] = m[1] /\ l[2] = m[2] /\ l[3] = m[3]
    OBVIOUS
  <2> QED
    BY <2>1, <1>4
<1>7. pair \in Injection(Locations, (B \X D) \X F)
  BY <1>5, <1>6 DEF Injection, IsInjective
<1> QED
  BY <1>3, <1>7, FS_Injection

(* What the assumptions say of a controller (main.rs:180-184).             *)
LEMMA ControllerOK ==
  ASSUME machine \in Machines, NEW c \in Controllers
  PROVE  /\ c \in DOMAIN machine /\ c \in Locations
         /\ machine[c].class = <<12, 3, 48>>
         /\ machine[c].bars[0].kind \in {"mem32", "mem64"}
         /\ OffsetOf(RegionBase(machine[c], 0)) = 0
         /\ machine[c].xhci \in [runtimePage : Nat, slots : Nat, scratchpads : Nat,
                                 crcrReadable : BOOLEAN]
         /\ \A e \in Controllers \ {c} :
              /\ BarFrame(machine[c]) # BarFrame(machine[e])
              /\ machine[c].xhci.runtimePage < WindowPages
<1>1. c \in DOMAIN machine /\ machine[c].class = <<12, 3, 48>>
  BY DEF Controllers, ControllersOf
<1>2. c \in Locations
  BY <1>1, DeviceOK
<1>3. /\ machine[c].bars[0].kind \in {"mem32", "mem64"}
      /\ OffsetOf(RegionBase(machine[c], 0)) = 0
      /\ machine[c].xhci \in [runtimePage : Nat, slots : Nat, scratchpads : Nat,
                              crcrReadable : BOOLEAN]
      /\ \A e \in Controllers \ {c} :
           BarFrame(machine[c]) # BarFrame(machine[e]) /\ machine[c].xhci.runtimePage < WindowPages
  BY ControllersAssumption DEF Controllers
<1> QED
  BY <1>1, <1>2, <1>3

(* The frame of a BAR is a number (paging.rs:43).                          *)
LEMMA FrameIsNatural ==
  ASSUME machine \in Machines, NEW c \in Controllers
  PROVE  BarFrame(machine[c]) \in Nat
<1> DEFINE dev == machine[c]
<1>1. BarsOK(dev) /\ dev.bars[0].kind \in {"mem32", "mem64"}
  BY ControllerOK, DeviceOK
<1>2. 0 \in 0..(BarCount(dev) - 1)
  BY DEF BarCount
<1>3. dev.bars[0].base \in Dword /\ (dev.bars[0].kind = "mem64" => 1 \in 0..(BarCount(dev) - 1))
  BY <1>1, <1>2 DEF BarsOK
<1>4. dev.bars[0].kind = "mem64" => dev.bars[1].base \in Dword
  BY <1>1, <1>3 DEF BarsOK
<1>5. Zero \in Dword
  BY DEF Zero, Dword, Byte
<1>6. PICK lo \in Dword, hi \in Dword : RegionBase(dev, 0) = <<lo, hi>>
  BY <1>3, <1>4, <1>5 DEF RegionBase
<1>7. /\ lo[2] \in 0..255 /\ lo[3] \in 0..255 /\ lo[4] \in 0..255 /\ hi[1] \in 0..255
  BY <1>6 DEF Dword, Byte
<1>8. BarFrame(dev) = lo[2] \div 16 + 16 * lo[3] + 4096 * lo[4] + 1048576 * hi[1]
  BY <1>6 DEF BarFrame, FrameOf
<1>9. lo[2] \div 16 \in Nat /\ lo[3] \in Nat /\ lo[4] \in Nat /\ hi[1] \in Nat
  BY <1>7
<1>10. \A x, y, z, w \in Nat : x + 16 * y + 4096 * z + 1048576 * w \in Nat
  BY SMT
<1> QED
  BY <1>8, <1>9, <1>10

(* A window has at least one page (main.rs:184).                           *)
LEMMA WindowHasPages == WindowPages \in Nat /\ WindowPages >= 1
<1>1. 0 \in 0..(PageSize - 1)
  BY PageSizeAssumption
<1> QED
  BY <1>1, PagesPositive, WindowAssumption DEF WindowPages

-----------------------------------------------------------------------------
(* The program of the bring-up (main.rs:193-223).                          *)
LEMMA ProgramSteps ==
  /\ Len(Program) = 18
  /\ Program[1] = "stop" /\ Program[2] = "halting" /\ Program[3] = "reset"
  /\ Program[4] = "resetting" /\ Program[5] = "command ring" /\ Program[6] = "slots"
  /\ Program[7] = "contexts" /\ Program[8] = "ring" /\ Program[9] = "enable"
  /\ Program[10] = "ack status" /\ Program[11] = "ack pending"
  /\ Program[12] = "event memory" /\ Program[13] = "event ring"
  /\ Program[14] = "event cell" /\ Program[15] = "start" /\ Program[16] = "starting"
  /\ Program[17] = "ports" /\ Program[18] = "next"
BY DEF Program

LEMMA ProgramNames ==
  {Program[i] : i \in 1..Len(Program)} =
    {"stop", "halting", "reset", "resetting", "command ring", "slots", "contexts", "ring",
     "enable", "ack status", "ack pending", "event memory", "event ring", "event cell",
     "start", "starting", "ports", "next"}
<1>1. \A i \in 1..18 : \/ i = 1 \/ i = 2 \/ i = 3 \/ i = 4 \/ i = 5 \/ i = 6 \/ i = 7
                       \/ i = 8 \/ i = 9 \/ i = 10 \/ i = 11 \/ i = 12 \/ i = 13 \/ i = 14
                       \/ i = 15 \/ i = 16 \/ i = 17 \/ i = 18
  OBVIOUS
<1>2. /\ 1 \in 1..18 /\ 2 \in 1..18 /\ 3 \in 1..18 /\ 4 \in 1..18 /\ 5 \in 1..18
      /\ 6 \in 1..18 /\ 7 \in 1..18 /\ 8 \in 1..18 /\ 9 \in 1..18 /\ 10 \in 1..18
      /\ 11 \in 1..18 /\ 12 \in 1..18 /\ 13 \in 1..18 /\ 14 \in 1..18 /\ 15 \in 1..18
      /\ 16 \in 1..18 /\ 17 \in 1..18 /\ 18 \in 1..18
  OBVIOUS
<1> DEFINE I == 1..18
<1>3. \A i \in I : \/ i = 1 \/ i = 2 \/ i = 3 \/ i = 4 \/ i = 5 \/ i = 6 \/ i = 7
                   \/ i = 8 \/ i = 9 \/ i = 10 \/ i = 11 \/ i = 12 \/ i = 13 \/ i = 14
                   \/ i = 15 \/ i = 16 \/ i = 17 \/ i = 18
  BY <1>1
<1>4. /\ 1 \in I /\ 2 \in I /\ 3 \in I /\ 4 \in I /\ 5 \in I /\ 6 \in I /\ 7 \in I
      /\ 8 \in I /\ 9 \in I /\ 10 \in I /\ 11 \in I /\ 12 \in I /\ 13 \in I /\ 14 \in I
      /\ 15 \in I /\ 16 \in I /\ 17 \in I /\ 18 \in I
  BY <1>2
<1>5. {Program[i] : i \in 1..Len(Program)} = {Program[i] : i \in I}
  BY ProgramSteps
<1> HIDE DEF I
<1> DEFINE S == {"stop", "halting", "reset", "resetting", "command ring", "slots", "contexts",
     "ring", "enable", "ack status", "ack pending", "event memory", "event ring", "event cell",
     "start", "starting", "ports", "next"}
           P == {Program[i] : i \in I}
<1>6. \A i \in I : Program[i] \in S
  BY <1>3, ProgramSteps
<1>7. P \subseteq S
  BY <1>6
<1>8. \A i \in I : Program[i] \in P
  OBVIOUS
<1> HIDE DEF P
<1>9. S \subseteq P
  BY <1>4, <1>8, ProgramSteps, ZenonT(30)
<1> HIDE DEF S
<1>10. P = S
  BY <1>7, <1>9
<1> QED
  BY <1>5, <1>10 DEF P, S

LEMMA AfterEach ==
  /\ After("stop") = "halting" /\ After("halting") = "reset"
  /\ After("reset") = "resetting" /\ After("resetting") = "command ring"
  /\ After("command ring") = "slots" /\ After("slots") = "contexts"
  /\ After("contexts") = "ring" /\ After("ring") = "enable"
  /\ After("enable") = "ack status" /\ After("ack status") = "ack pending"
  /\ After("ack pending") = "event memory" /\ After("event memory") = "event ring"
  /\ After("event ring") = "event cell" /\ After("event cell") = "start"
  /\ After("start") = "starting" /\ After("starting") = "ports"
  /\ After("ports") = "next"
<1>1. \A i \in 1..17 : \/ i = 1 \/ i = 2 \/ i = 3 \/ i = 4 \/ i = 5 \/ i = 6 \/ i = 7
                       \/ i = 8 \/ i = 9 \/ i = 10 \/ i = 11 \/ i = 12 \/ i = 13 \/ i = 14
                       \/ i = 15 \/ i = 16 \/ i = 17
  OBVIOUS
<1>2. ASSUME NEW i \in 1..17
      PROVE
        /\ (Program[i] = "stop" => i = 1)
        /\ (Program[i] = "halting" => i = 2)
        /\ (Program[i] = "reset" => i = 3)
        /\ (Program[i] = "resetting" => i = 4)
        /\ (Program[i] = "command ring" => i = 5)
        /\ (Program[i] = "slots" => i = 6)
        /\ (Program[i] = "contexts" => i = 7)
        /\ (Program[i] = "ring" => i = 8)
        /\ (Program[i] = "enable" => i = 9)
        /\ (Program[i] = "ack status" => i = 10)
        /\ (Program[i] = "ack pending" => i = 11)
        /\ (Program[i] = "event memory" => i = 12)
        /\ (Program[i] = "event ring" => i = 13)
        /\ (Program[i] = "event cell" => i = 14)
        /\ (Program[i] = "start" => i = 15)
        /\ (Program[i] = "starting" => i = 16)
        /\ (Program[i] = "ports" => i = 17)
  <2>1. \/ i = 1 \/ i = 2 \/ i = 3 \/ i = 4 \/ i = 5 \/ i = 6 \/ i = 7
        \/ i = 8 \/ i = 9 \/ i = 10 \/ i = 11 \/ i = 12 \/ i = 13 \/ i = 14
        \/ i = 15 \/ i = 16 \/ i = 17
    BY <1>1
  <2> QED
    BY <2>1, ProgramSteps, ZenonT(60)
<1>3. ASSUME NEW k \in 1..17, \A i \in 1..17 : Program[i] = Program[k] => i = k
      PROVE  After(Program[k]) = Program[1 + k]
  <2>1. Len(Program) = 18
    BY ProgramSteps
  <2>2. Len(Program) - 1 = 17
    BY <2>1
  <2> DEFINE j == CHOOSE i \in 1..17 : Program[i] = Program[k]
  <2>3. j \in 1..17 /\ Program[j] = Program[k]
    OBVIOUS
  <2>4. j = k
    BY <1>3, <2>3
  <2> QED
    BY <2>2, <2>4 DEF After
<1>4. /\ After(Program[1]) = Program[2] /\ After(Program[2]) = Program[3]
      /\ After(Program[3]) = Program[4] /\ After(Program[4]) = Program[5]
      /\ After(Program[5]) = Program[6] /\ After(Program[6]) = Program[7]
      /\ After(Program[7]) = Program[8] /\ After(Program[8]) = Program[9]
      /\ After(Program[9]) = Program[10] /\ After(Program[10]) = Program[11]
      /\ After(Program[11]) = Program[12] /\ After(Program[12]) = Program[13]
      /\ After(Program[13]) = Program[14] /\ After(Program[14]) = Program[15]
      /\ After(Program[15]) = Program[16] /\ After(Program[16]) = Program[17]
      /\ After(Program[17]) = Program[18]
  <2>1. \A k \in 1..17 : (\A i \in 1..17 : Program[i] = Program[k] => i = k)
                           => After(Program[k]) = Program[1 + k]
    BY <1>3
  <2> HIDE DEF After
  <2>2. After(Program[1]) = Program[2]
    <3>1. \A i \in 1..17 : Program[i] = Program[1] => i = 1
      BY <1>2, ProgramSteps
    <3> QED
      BY <2>1, <3>1
  <2>3. After(Program[2]) = Program[3]
    <3>1. \A i \in 1..17 : Program[i] = Program[2] => i = 2
      BY <1>2, ProgramSteps
    <3> QED
      BY <2>1, <3>1
  <2>4. After(Program[3]) = Program[4]
    <3>1. \A i \in 1..17 : Program[i] = Program[3] => i = 3
      BY <1>2, ProgramSteps
    <3> QED
      BY <2>1, <3>1
  <2>5. After(Program[4]) = Program[5]
    <3>1. \A i \in 1..17 : Program[i] = Program[4] => i = 4
      BY <1>2, ProgramSteps
    <3> QED
      BY <2>1, <3>1
  <2>6. After(Program[5]) = Program[6]
    <3>1. \A i \in 1..17 : Program[i] = Program[5] => i = 5
      BY <1>2, ProgramSteps
    <3> QED
      BY <2>1, <3>1
  <2>7. After(Program[6]) = Program[7]
    <3>1. \A i \in 1..17 : Program[i] = Program[6] => i = 6
      BY <1>2, ProgramSteps
    <3> QED
      BY <2>1, <3>1
  <2>8. After(Program[7]) = Program[8]
    <3>1. \A i \in 1..17 : Program[i] = Program[7] => i = 7
      BY <1>2, ProgramSteps
    <3> QED
      BY <2>1, <3>1
  <2>9. After(Program[8]) = Program[9]
    <3>1. \A i \in 1..17 : Program[i] = Program[8] => i = 8
      BY <1>2, ProgramSteps
    <3> QED
      BY <2>1, <3>1
  <2>10. After(Program[9]) = Program[10]
    <3>1. \A i \in 1..17 : Program[i] = Program[9] => i = 9
      BY <1>2, ProgramSteps
    <3> QED
      BY <2>1, <3>1
  <2>11. After(Program[10]) = Program[11]
    <3>1. \A i \in 1..17 : Program[i] = Program[10] => i = 10
      BY <1>2, ProgramSteps
    <3> QED
      BY <2>1, <3>1
  <2>12. After(Program[11]) = Program[12]
    <3>1. \A i \in 1..17 : Program[i] = Program[11] => i = 11
      BY <1>2, ProgramSteps
    <3> QED
      BY <2>1, <3>1
  <2>13. After(Program[12]) = Program[13]
    <3>1. \A i \in 1..17 : Program[i] = Program[12] => i = 12
      BY <1>2, ProgramSteps
    <3> QED
      BY <2>1, <3>1
  <2>14. After(Program[13]) = Program[14]
    <3>1. \A i \in 1..17 : Program[i] = Program[13] => i = 13
      BY <1>2, ProgramSteps
    <3> QED
      BY <2>1, <3>1
  <2>15. After(Program[14]) = Program[15]
    <3>1. \A i \in 1..17 : Program[i] = Program[14] => i = 14
      BY <1>2, ProgramSteps
    <3> QED
      BY <2>1, <3>1
  <2>16. After(Program[15]) = Program[16]
    <3>1. \A i \in 1..17 : Program[i] = Program[15] => i = 15
      BY <1>2, ProgramSteps
    <3> QED
      BY <2>1, <3>1
  <2>17. After(Program[16]) = Program[17]
    <3>1. \A i \in 1..17 : Program[i] = Program[16] => i = 16
      BY <1>2, ProgramSteps
    <3> QED
      BY <2>1, <3>1
  <2>18. After(Program[17]) = Program[18]
    <3>1. \A i \in 1..17 : Program[i] = Program[17] => i = 17
      BY <1>2, ProgramSteps
    <3> QED
      BY <2>1, <3>1
  <2> QED
    BY <2>2, <2>3, <2>4, <2>5, <2>6, <2>7, <2>8, <2>9, <2>10, <2>11, <2>12, <2>13, <2>14, <2>15, <2>16, <2>17, <2>18
<1> QED
  BY <1>4, ProgramSteps, ZenonT(60)

-----------------------------------------------------------------------------
(* Where an access of the driver goes: to the first controller found, or   *)
(* nowhere, which only an access to the runtime registers can              *)
(* (main.rs:184, paging.rs:37-77).                                         *)
LEMMA ReachDriven ==
  ASSUME Shape, Found, DrivenOK, turn > 0
  PROVE  /\ ~Faults(0) /\ Reach(0) = {Driven}
         /\ \A block : LET k == PageOf(block) IN
              IF Faults(k)
              THEN /\ Reach(k) = {} /\ block = RuntimeBlock
                   /\ machine[Driven].xhci.runtimePage >= WindowPages
              ELSE Reach(k) = {Driven}
<1> DEFINE frame == BarFrame(machine[Driven])
           win == [page |-> 0, pages |-> WindowPages, frame |-> frame]
<1>1. /\ machine \in Machines /\ Driven \in Controllers
      /\ "memory" \in command[Driven].enabled /\ win \in windows
      /\ ctl.controller = <<[loc |-> Driven, page |-> 0]>>
      /\ turn = 1 => nextVirt = WindowPages
      /\ turn > 1 => \E c \in Controllers : c # Driven
  BY DEF Found, TableExact, DrivenOK
<1>2. ctl.controller[1].page = 0
  BY <1>1
<1>3. turn \in Nat /\ nextVirt \in Nat /\ DOMAIN pageTable = 0..(nextVirt - 1) /\ WindowsMapped
  BY DEF Shape, Found, MmioInv
<1>4. WindowPages \in Nat /\ WindowPages >= 1
  BY WindowHasPages
<1>5. \A c \in Controllers : BarFrame(machine[c]) \in Nat
  BY <1>1, FrameIsNatural
<1>6. \A c \in Controllers \ {Driven} : BarFrame(machine[c]) # frame
  BY <1>1, ControllerOK
<1>7. \A k \in 0..(WindowPages - 1) : k \in DOMAIN pageTable /\ pageTable[k] = frame + k
  <2>1. win.page = 0 /\ win.pages = WindowPages /\ win.frame = frame
    OBVIOUS
  <2>2. \A k \in 0..(win.pages - 1) :
          win.page + k \in DOMAIN pageTable /\ pageTable[win.page + k] = win.frame + k
    BY <1>1, <1>3 DEF WindowsMapped
  <2>3. \A k \in 0..(WindowPages - 1) : 0 + k = k
    BY <1>4
  <2> HIDE DEF win
  <2> QED
    BY <2>1, <2>2, <2>3
<1> HIDE DEF frame, win
<1>8. ASSUME NEW k \in 0..(WindowPages - 1)
      PROVE  ~Faults(k) /\ Reach(k) = {Driven}
  <2>1. 0 + k = k
    BY <1>4
  <2>2. ~Faults(k)
    BY <1>2, <1>7, <2>1 DEF Faults
  <2>3. Reach(k) = {c \in Controllers : /\ pageTable[k] = BarFrame(machine[c]) + k
                                        /\ "memory" \in command[c].enabled}
    BY <1>2, <1>7, <2>1 DEF Reach
  <2>4. \A c \in Controllers : frame + k = BarFrame(machine[c]) + k <=> c = Driven
    BY <1>1, <1>4, <1>5, <1>6 DEF frame
  <2>5. pageTable[k] = frame + k
    BY <1>7
  <2>6. Reach(k) = {c \in Controllers : c = Driven /\ "memory" \in command[c].enabled}
    BY <2>3, <2>4, <2>5
  <2> QED
    BY <2>2, <2>6, <1>1
<1>9. 0 \in 0..(WindowPages - 1)
  BY <1>4
<1>10. machine[Driven].xhci.runtimePage \in Nat
  BY <1>1, ControllerOK
<1>11. ASSUME NEW block
       PROVE  LET k == PageOf(block) IN
              IF Faults(k)
              THEN /\ Reach(k) = {} /\ block = RuntimeBlock
                   /\ machine[Driven].xhci.runtimePage >= WindowPages
              ELSE Reach(k) = {Driven}
  <2> DEFINE k == PageOf(block)
  <2>1. k = IF block = RuntimeBlock THEN machine[Driven].xhci.runtimePage ELSE 0
    BY <1>1 DEF PageOf, Driven
  <2> HIDE DEF k
  <2>2. CASE k \in 0..(WindowPages - 1)
    BY <1>8, <2>2 DEF k
  <2>3. CASE k \notin 0..(WindowPages - 1)
    <3>1. block = RuntimeBlock /\ k \in Nat /\ k >= WindowPages
      BY <1>4, <1>9, <1>10, <2>1, <2>3
    <3>2. ~(turn > 1)
      <4> SUFFICES ASSUME turn > 1 PROVE FALSE
        OBVIOUS
      <4>1. PICK c \in Controllers : c # Driven
        BY <1>1
      <4>2. machine[Driven].xhci.runtimePage < WindowPages
        BY <1>1, <4>1, ControllerOK
      <4> QED
        BY <1>4, <2>1, <3>1, <4>2
    <3>3. nextVirt = WindowPages
      BY <1>1, <1>3, <3>2
    <3>4. 0 + k \notin DOMAIN pageTable
      BY <1>3, <1>4, <3>1, <3>3
    <3>5. Faults(k) /\ Reach(k) = {}
      BY <1>2, <3>4 DEF Faults, Reach
    <3> QED
      BY <2>1, <3>1, <3>5 DEF k
  <2> QED
    BY <2>2, <2>3
<1> QED
  BY <1>8, <1>9, <1>11

(* The steps of the bring-up and of the controller leave the scan, the     *)
(* windows and the choice of the controller as they are.                   *)
Stays ==
  /\ UNCHANGED <<pciVars, mmioVars, turn>>
  /\ ctl'.controller = ctl.controller
  /\ pc' = pc \/ (pc # "scan" /\ pc' # "scan")

LEMMA ScanDrivesNothing ==
  ASSUME Found, iter = NewIter
  PROVE  turn = 0
<1>1. Yielded = {}
  BY DEF Yielded, NewIter
<1>2. turn = Cardinality({})
  BY <1>1 DEF Found
<1> QED
  BY <1>2, FS_EmptySet

LEMMA StaysFound ==
  ASSUME Shape, Found, DrivenOK, turn > 0, Stays
  PROVE  Found' /\ DrivenOK' /\ Driven' = Driven /\ Controllers' = Controllers
<1>1. /\ UNCHANGED <<machine, command, buses, scanPos, iter, nextVirt, pageTable, windows, turn>>
      /\ ctl'.controller = ctl.controller
  BY DEF Stays, pciVars, mmioVars
<1>2. Driven' = Driven /\ Controllers' = Controllers
  BY <1>1 DEF Driven, Controllers
<1>3. pc # "scan" /\ pc' # "scan"
  BY ScanDrivesNothing DEF Stays, Found
<1>4. TableExact'
  BY <1>1 DEF Found, TableExact, Reachable, Scanned, FunctionExact
<1>5. IterExact'
  BY <1>1 DEF Found, IterExact, Settled, DevicePresent, Ascending, Yielded
<1>6. MmioInv'
  BY <1>1 DEF Found, MmioInv, WindowsApart, WindowsMapped
<1>7. ScanDone' /\ turn' = Cardinality(Controllers' \cap Yielded')
  BY <1>1, <1>2, <1>3 DEF Found, ScanDone, Yielded
<1>8. Found'
  BY <1>1, <1>3, <1>4, <1>5, <1>6, <1>7 DEF Found
<1>9. turn' # 0
  BY <1>1 DEF Shape
<1>10. DrivenOK'
  <2>1. /\ ctl.controller = <<[loc |-> Driven, page |-> 0]>>
        /\ Driven \in Controllers \cap Yielded
        /\ "memory" \in command[Driven].enabled
        /\ [page |-> 0, pages |-> WindowPages, frame |-> BarFrame(machine[Driven])] \in windows
        /\ turn = 1 => nextVirt = WindowPages
        /\ turn > 1 => \E c \in Controllers : c # Driven
    BY <1>1, <1>9 DEF DrivenOK
  <2>2. Yielded' = Yielded
    BY <1>1 DEF Yielded
  <2> QED
    BY <1>1, <1>2, <1>9, <2>1, <2>2 DEF DrivenOK
<1> QED
  BY <1>2, <1>8, <1>10

(* Before a step of the bring-up or of the controller, one is driven.      *)
LEMMA DrivenTyped ==
  ASSUME Shape, Found, DrivenOK, turn > 0
  PROVE  /\ machine \in Machines /\ Driven \in Controllers
         /\ regs[Driven] \in Registers
         /\ machine[Driven].xhci \in [runtimePage : Nat, slots : Nat, scratchpads : Nat,
                                      crcrReadable : BOOLEAN]
         /\ ctl.controller[1].loc = Driven /\ ctl.controller # None
<1>1. /\ machine \in Machines /\ Driven \in Controllers
      /\ ctl.controller = <<[loc |-> Driven, page |-> 0]>>
  BY DEF Shape, Found, TableExact, DrivenOK
<1>2. regs[Driven] \in Registers
  BY <1>1 DEF Shape
<1>3. ctl.controller # None
  BY <1>1 DEF None
<1> QED
  BY <1>1, <1>2, <1>3, ControllerOK DEF Driven

LEMMA RegistersTyped == ResetRegs \in Registers /\ FirmwareRegs \in Registers
<1>1. NoBlock \in Blocks /\ Firmware \in Blocks
  BY DEF Blocks, BlockUses, Firmware
<1>2. /\ {} \in SUBSET {"run", "int_enable", "reset"}
      /\ {"run", "int_enable"} \in SUBSET {"run", "int_enable", "reset"}
      /\ {} \in SUBSET {"pending", "enable"}
      /\ {"pending", "enable"} \in SUBSET {"pending", "enable"}
      /\ {"halted", "not_ready"} \in SUBSET (StatusW1C \cup {"halted", "not_ready"})
      /\ {"event_interrupt"} \in SUBSET (StatusW1C \cup {"halted", "not_ready"})
      /\ {} \in SUBSET AllNotifications /\ {1} \in SUBSET AllNotifications
  BY DEF StatusW1C, AllNotifications
<1>3. ResetRegs \in Registers
  BY <1>1, <1>2 DEF ResetRegs, Registers
<1>4. FirmwareRegs \in Registers
  BY <1>1, <1>2 DEF FirmwareRegs, Registers
<1> QED
  BY <1>3, <1>4

-----------------------------------------------------------------------------
(* Between two modifies.  Going to a step leaves no value in hand.         *)
LEMMA BlockDwords ==
  /\ Len(OpBlock) = 6 /\ Len(RuntimeBlock) = 4 /\ OpBlock # RuntimeBlock
  /\ OpBlock[1] = "usb_cmd" /\ OpBlock[2] = "usb_status" /\ OpBlock[3] = "notification_enable"
  /\ OpBlock[4] = "crcr" /\ OpBlock[5] = "dcbaap" /\ OpBlock[6] = "config"
  /\ RuntimeBlock[1] = "iman" /\ RuntimeBlock[2] = "erst_size"
  /\ RuntimeBlock[3] = "erstba" /\ RuntimeBlock[4] = "erdp"
<1>1. Len(OpBlock) = 6 /\ Len(RuntimeBlock) = 4
  BY DEF OpBlock, RuntimeBlock
<1> QED
  BY <1>1 DEF OpBlock, RuntimeBlock

LEMMA GotoBegins ==
  ASSUME NEW x, Goto(x)
  PROVE  /\ pc' = x /\ ~acc'.write
         /\ \A m : ~Begun(m)'
         /\ OpValue' /\ RuntimeValue'
         /\ pc' \in Modifies =>
              acc' \in [at : 1..Len(BlockOf(pc')), value : Registers, write : BOOLEAN]
<1>1. /\ pc' = x /\ acc' = (IF x \in Modifies THEN Begin ELSE Idle)
      /\ acc'.at \in {0, 1} /\ acc'.value = ResetRegs /\ acc'.write = FALSE
  BY DEF Goto, Begin, Idle
<1>2. ~acc'.write /\ \A m : ~Begun(m)'
  BY <1>1 DEF Begun
<1>3. ~Have(1)' /\ ~Have(2)' /\ ~Have(3)' /\ ~Have(4)' /\ ~Have(5)' /\ ~Have(6)'
  BY <1>1 DEF Have
<1>4. OpValue'
  BY <1>2, <1>3 DEF OpValue
<1>5. RuntimeValue'
  BY <1>2, <1>3 DEF RuntimeValue
<1>6. ASSUME pc' \in Modifies
      PROVE  acc' \in [at : 1..Len(BlockOf(pc')), value : Registers, write : BOOLEAN]
  <2>1. acc' = [at |-> 1, value |-> ResetRegs, write |-> FALSE]
    BY <1>1, <1>6 DEF Begin
  <2>2. Len(BlockOf(pc')) \in {4, 6}
    BY BlockDwords DEF BlockOf
  <2>3. 1 \in 1..Len(BlockOf(pc'))
    BY <2>2
  <2> QED
    BY <2>1, <2>3, RegistersTyped
<1> QED
  BY <1>1, <1>2, <1>4, <1>5, <1>6

(* Two parts of Shape.                                                     *)
CtlTyped ==
  ctl \in [controller : Seq([loc : Locations, page : Nat]),
           commandRing : Seq(Blocks), eventRing : Seq(Blocks),
           contexts : SUBSET Nat, scratchpads : SUBSET Nat, entry0 : Blocks]
HasRing == pc \in BehindCommandRing \ Started => ctl.commandRing # None

LEMMA BringUpDrives ==
  ASSUME DevicesInv, pc \notin {"scan", "next", "frames"}
  PROVE  turn > 0 /\ turn \in Nat /\ Shape /\ Found /\ DrivenOK
BY DEF DevicesInv, Found, Shape

(* A step from one place of the program to another that leaves the         *)
(* registers alone.                                                        *)
LEMMA BetweenModifies ==
  ASSUME DevicesInv, turn > 0, Stays, UNCHANGED <<regs, fresh>>, CtlTyped',
         NEW x, Goto(x), pc # "scan",
         x \in {"panic"} \cup {Program[i] : i \in 1..Len(Program)},
         HasRing', Halted', Made', SetUp'
  PROVE  DevicesInv'
<1>1. Shape /\ Found /\ DrivenOK /\ OthersUntouched
  BY DEF DevicesInv
<1>2. Found' /\ DrivenOK' /\ Driven' = Driven /\ Controllers' = Controllers
  BY <1>1, StaysFound
<1>3. UNCHANGED <<machine, command, turn>>
  BY DEF Stays, pciVars
<1>4. /\ pc' = x /\ OpValue' /\ RuntimeValue'
      /\ pc' \in Modifies =>
           acc' \in [at : 1..Len(BlockOf(pc')), value : Registers, write : BOOLEAN]
  BY GotoBegins
<1>5. Shape'
  <2>1. regs' \in [Controllers' -> Registers] /\ fresh' \subseteq Controllers'
    BY <1>1, <1>2 DEF Shape
  <2>2. pc' \in {"scan", "frames", "panic"} \cup {Program[i] : i \in 1..Len(Program)}
    BY <1>4
  <2>3. command' \in [DOMAIN machine' -> [enabled : SUBSET {"io", "memory", "master"},
                                          errors : SUBSET {"abort"}]]
    BY <1>1, <1>3 DEF Shape
  <2>4. turn' \in Nat
    BY <1>1, <1>3 DEF Shape
  <2> QED
    BY <1>4, <2>1, <2>2, <2>3, <2>4 DEF Shape, CtlTyped, HasRing
<1>6. OthersUntouched'
  BY <1>1, <1>2, <1>3 DEF OthersUntouched
<1> QED
  BY <1>2, <1>4, <1>5, <1>6 DEF DevicesInv

(* What is in the registers stays there while none of them changes, and    *)
(* the next step needs no more of it than this one.                        *)
LEMMA SetUpKept ==
  ASSUME SetUp, UNCHANGED <<regs, machine, turn>>, Driven' = Driven,
         \A m : ~Begun(m)',
         pc' \in BehindSlots => pc \in BehindSlots,
         pc' \in BehindRing => pc \in BehindRing /\ ctl'.commandRing = ctl.commandRing,
         pc' \in BehindEnable => pc \in BehindEnable,
         pc' \in BehindEventRing => pc \in BehindEventRing,
         pc' \in Started => pc \in Started
  PROVE  SetUp'
BY DEF SetUp

-----------------------------------------------------------------------------
(* The steps between the modifies, one by one.  The waits of reset and     *)
(* start (controller.rs:68-94).                                            *)
LEMMA SpinStep ==
  ASSUME DevicesInv, Spin, UNCHANGED <<pciVars, mmioVars>>
  PROVE  DevicesInv'
<1> DEFINE r == regs[Driven]
<1>1. turn > 0 /\ turn \in Nat /\ Shape /\ Found /\ DrivenOK
  BY BringUpDrives DEF Spin
<1>2. Answered(r) /\ UNCHANGED <<regs, fresh, ctl, dma, turn>> /\ Goto(After(pc))
  BY <1>1, ReachDriven DEF Spin
<1>3. \/ pc = "halting" /\ After(pc) = "reset" /\ "halted" \in r.usb_status
      \/ pc = "resetting" /\ After(pc) = "command ring" /\ "reset" \notin r.usb_cmd
      \/ pc = "starting" /\ After(pc) = "ports"
  BY <1>2, AfterEach DEF Answered
<1>4. pc' = After(pc) /\ \A m : ~Begun(m)'
  BY <1>2, GotoBegins
<1>5. Stays /\ Driven' = Driven
  BY <1>2, <1>3, <1>4 DEF Stays, Driven
<1>6. CtlTyped' /\ HasRing'
  <2>1. pc' \notin BehindCommandRing \ Started
    BY <1>3, <1>4 DEF Setup, BehindCommandRing, BehindSlots, BehindContexts,
      BehindRing, BehindEnable, BehindEventMemory, BehindEventRing, BehindEventCell, Started
  <2> QED
    BY <1>1, <1>2, <2>1 DEF Shape, CtlTyped, HasRing
<1>7. Halted'
  <2>1. "reset" \in r.usb_cmd => pc = "resetting"
    BY <1>1, <1>3 DEF DevicesInv, Halted, Begun
  <2>2. CASE pc = "halting"
    <3>1. /\ "run" \notin r.usb_cmd /\ "reset" \notin r.usb_cmd /\ "halted" \in r.usb_status
          /\ turn = 1 => fresh = {}
      BY <1>1, <1>3, <2>1, <2>2 DEF DevicesInv, Halted
    <3>2. pc' = "reset" /\ pc' \notin {"start"} \cup Setup
      BY <1>3, <1>4, <2>2 DEF Setup, BehindCommandRing, BehindSlots, BehindContexts,
        BehindRing, BehindEnable, BehindEventMemory, BehindEventRing, BehindEventCell, Started
    <3> QED
      BY <1>2, <1>4, <1>5, <3>1, <3>2 DEF Halted
  <2>3. CASE pc = "resetting"
    <3>1. /\ "run" \notin r.usb_cmd /\ "halted" \in r.usb_status /\ "reset" \notin r.usb_cmd
          /\ Driven \in fresh /\ "event_interrupt" \notin r.usb_status
      BY <1>1, <1>3, <2>3 DEF DevicesInv, Halted, Begun
    <3>2. pc' = "command ring"
      BY <1>3, <1>4, <2>3
    <3> QED
      BY <1>2, <1>4, <1>5, <3>1, <3>2 DEF Halted
  <2>4. CASE pc = "starting"
    <3>1. pc' = "ports" /\ pc' \notin Setup
      BY <1>3, <1>4, <2>4 DEF Setup, BehindCommandRing, BehindSlots, BehindContexts,
        BehindRing, BehindEnable, BehindEventMemory, BehindEventRing, BehindEventCell, Started
    <3> QED
      BY <1>2, <1>4, <1>5, <2>1, <2>4, <3>1 DEF Halted
  <2> QED
    BY <1>3, <2>2, <2>3, <2>4
<1>8. Made'
  BY <1>2, <1>3, <1>4, <1>5 DEF Stays, pciVars, Made, DevicesInv,
    Setup, BehindCommandRing, BehindSlots, BehindContexts,
    BehindRing, BehindEnable, BehindEventMemory, BehindEventRing, BehindEventCell, Started
<1>9. SetUp'
  <2>1. /\ pc' \in BehindSlots => pc \in BehindSlots
        /\ pc' \in BehindRing => pc \in BehindRing
        /\ pc' \in BehindEnable => pc \in BehindEnable
        /\ pc' \in BehindEventRing => pc \in BehindEventRing
        /\ pc' \in Started => pc \in Started
    BY <1>3, <1>4 DEF Setup, BehindCommandRing, BehindSlots, BehindContexts,
      BehindRing, BehindEnable, BehindEventMemory, BehindEventRing, BehindEventCell, Started
  <2> QED
    BY <1>2, <1>4, <1>5, <2>1, SetUpKept DEF DevicesInv, Stays, pciVars
<1>10. After(pc) \in {Program[i] : i \in 1..Len(Program)}
  BY <1>3, ProgramNames
<1> QED
  BY <1>1, <1>2, <1>3, <1>5, <1>6, <1>7, <1>8, <1>9, <1>10, BetweenModifies

(* XhciCommandRing::init_ring (ring.rs:31-61).                             *)
LEMMA InitCommandRingStep ==
  ASSUME DevicesInv, InitCommandRing, UNCHANGED <<pciVars, mmioVars>>
  PROVE  DevicesInv'
<1> DEFINE r == regs[Driven]
<1>1. turn > 0 /\ turn \in Nat /\ Shape /\ Found /\ DrivenOK /\ pc = "command ring"
  BY BringUpDrives DEF InitCommandRing
<1>2. /\ UNCHANGED <<regs, fresh, turn>> /\ Goto("slots")
      /\ IF ctl.commandRing = None
         THEN /\ ctl' = [ctl EXCEPT !.commandRing = <<CommandRing(turn)>>]
              /\ dma' = dma \cup {CommandRing(turn)}
         ELSE UNCHANGED <<ctl, dma>>
  BY <1>1, AfterEach DEF InitCommandRing
<1>3. pc' = "slots" /\ \A m : ~Begun(m)'
  BY <1>2, GotoBegins
<1>4. ctl \in [controller : Seq([loc : Locations, page : Nat]),
               commandRing : Seq(Blocks), eventRing : Seq(Blocks),
               contexts : SUBSET Nat, scratchpads : SUBSET Nat, entry0 : Blocks]
  BY <1>1 DEF Shape
<1>5. /\ ctl'.controller = ctl.controller /\ ctl'.eventRing = ctl.eventRing
      /\ ctl'.contexts = ctl.contexts /\ ctl'.scratchpads = ctl.scratchpads
      /\ ctl'.entry0 = ctl.entry0
      /\ ctl'.commandRing = IF ctl.commandRing = None THEN <<CommandRing(turn)>>
                            ELSE ctl.commandRing
  BY <1>2, <1>4
<1>6. Stays /\ Driven' = Driven
  BY <1>1, <1>2, <1>3, <1>5 DEF Stays, Driven
<1>7. CtlTyped' /\ HasRing'
  <2>1. CommandRing(turn) \in Blocks
    BY <1>1 DEF CommandRing, Blocks, BlockUses
  <2>2. <<CommandRing(turn)>> \in Seq(Blocks) /\ <<CommandRing(turn)>> # None
    BY <2>1 DEF None
  <2> QED
    BY <1>2, <1>4, <1>5, <2>2 DEF CtlTyped, HasRing
<1>8. Halted'
  <2>1. /\ "run" \notin r.usb_cmd /\ "halted" \in r.usb_status /\ "reset" \notin r.usb_cmd
        /\ Driven \in fresh /\ "event_interrupt" \notin r.usb_status
    <3>1. pc \in Setup
      BY <1>1 DEF Setup, BehindCommandRing, BehindSlots, BehindContexts,
        BehindRing, BehindEnable, BehindEventMemory, BehindEventRing, BehindEventCell, Started
    <3> QED
      BY <1>1, <3>1 DEF DevicesInv, Halted, Begun
  <2> QED
    BY <1>2, <1>3, <1>6, <2>1 DEF Halted
<1>9. Made'
  <2>1. turn = 1 => /\ Dcbaa \in dma /\ ctl.commandRing = None /\ ctl.eventRing = None
                    /\ ctl.contexts = {} /\ ctl.scratchpads = {} /\ ctl.entry0 = NoBlock
    BY <1>1 DEF DevicesInv, Made, Setup, BehindCommandRing, BehindSlots, BehindContexts,
      BehindRing, BehindEnable, BehindEventMemory, BehindEventRing, BehindEventCell, Started
  <2>2. /\ pc' \in BehindCommandRing /\ pc' \notin BehindContexts
        /\ pc' \notin BehindEventMemory /\ pc' \notin BehindEventCell
    BY <1>3 DEF Setup, BehindCommandRing, BehindSlots, BehindContexts,
      BehindRing, BehindEnable, BehindEventMemory, BehindEventRing, BehindEventCell, Started
  <2> QED
    BY <1>2, <1>5, <2>1, <2>2 DEF Made
<1>10. SetUp'
  <2>1. /\ pc' \notin BehindSlots /\ pc' \notin BehindRing /\ pc' \notin BehindEnable
        /\ pc' \notin BehindEventRing /\ pc' \notin Started
    BY <1>3 DEF Setup, BehindCommandRing, BehindSlots, BehindContexts,
      BehindRing, BehindEnable, BehindEventMemory, BehindEventRing, BehindEventCell, Started
  <2> QED
    BY <1>3, <2>1 DEF SetUp
<1>11. "slots" \in {Program[i] : i \in 1..Len(Program)}
  BY ProgramNames
<1> QED
  BY <1>1, <1>2, <1>6, <1>7, <1>8, <1>9, <1>10, <1>11, BetweenModifies

(* XhciEventRing::init_ring up to its modify (ring.rs:129-149).            *)
LEMMA AllocEventRingStep ==
  ASSUME DevicesInv, AllocEventRing, UNCHANGED <<pciVars, mmioVars>>
  PROVE  DevicesInv'
<1> DEFINE r == regs[Driven]
<1>1. turn > 0 /\ turn \in Nat /\ Shape /\ Found /\ DrivenOK /\ pc = "event memory"
  BY BringUpDrives DEF AllocEventRing
<1>2. /\ UNCHANGED <<regs, fresh, ctl, turn>> /\ Goto("event ring")
      /\ dma' = dma \cup {Segment(turn), Table(turn)}
  BY <1>1, AfterEach DEF AllocEventRing
<1>3. pc' = "event ring" /\ \A m : ~Begun(m)'
  BY <1>2, GotoBegins
<1>4. Stays /\ Driven' = Driven
  BY <1>1, <1>2, <1>3 DEF Stays, Driven
<1>5. CtlTyped' /\ HasRing'
  <2>1. pc \in BehindCommandRing \ Started
    BY <1>1 DEF Setup, BehindCommandRing, BehindSlots, BehindContexts,
      BehindRing, BehindEnable, BehindEventMemory, BehindEventRing, BehindEventCell, Started
  <2> QED
    BY <1>1, <1>2, <2>1 DEF Shape, CtlTyped, HasRing
<1>6. pc \in Setup /\ pc' \in Setup
  BY <1>1, <1>3 DEF Setup, BehindCommandRing, BehindSlots, BehindContexts,
    BehindRing, BehindEnable, BehindEventMemory, BehindEventRing, BehindEventCell, Started
<1>7. Halted'
  <2>1. /\ "run" \notin r.usb_cmd /\ "halted" \in r.usb_status /\ "reset" \notin r.usb_cmd
        /\ Driven \in fresh /\ "event_interrupt" \notin r.usb_status
    BY <1>1, <1>6 DEF DevicesInv, Halted, Begun
  <2> QED
    BY <1>2, <1>3, <1>4, <2>1 DEF Halted
<1>8. Made'
  <2>1. machine' = machine
    BY DEF pciVars
  <2> QED
    BY <1>1, <1>2, <1>3, <1>4, <2>1 DEF DevicesInv, Made,
      Setup, BehindCommandRing, BehindSlots, BehindContexts,
      BehindRing, BehindEnable, BehindEventMemory, BehindEventRing, BehindEventCell, Started
<1>9. SetUp'
  <2>1. /\ pc' \in BehindSlots => pc \in BehindSlots
        /\ pc' \in BehindRing => pc \in BehindRing
        /\ pc' \in BehindEnable => pc \in BehindEnable
        /\ pc' \in BehindEventRing => pc \in BehindEventRing
        /\ pc' \in Started => pc \in Started
    BY <1>1, <1>3 DEF Setup, BehindCommandRing, BehindSlots, BehindContexts,
      BehindRing, BehindEnable, BehindEventMemory, BehindEventRing, BehindEventCell, Started
  <2> QED
    BY <1>2, <1>3, <1>4, <2>1, SetUpKept DEF DevicesInv, pciVars
<1>10. "event ring" \in {Program[i] : i \in 1..Len(Program)}
  BY ProgramNames
<1> QED
  BY <1>1, <1>2, <1>4, <1>5, <1>7, <1>8, <1>9, <1>10, BetweenModifies

(* The loop over the ports (main.rs:217-223).                              *)
LEMMA ReadPortsStep ==
  ASSUME DevicesInv, ReadPorts, UNCHANGED <<pciVars, mmioVars>>
  PROVE  DevicesInv'
<1> DEFINE r == regs[Driven]
<1>1. turn > 0 /\ turn \in Nat /\ Shape /\ Found /\ DrivenOK /\ pc = "ports"
  BY BringUpDrives DEF ReadPorts
<1>2. UNCHANGED <<regs, fresh, ctl, dma, turn>> /\ Goto("next")
  BY <1>1, AfterEach DEF ReadPorts
<1>3. pc' = "next" /\ \A m : ~Begun(m)'
  BY <1>2, GotoBegins
<1>4. Stays /\ Driven' = Driven
  BY <1>1, <1>2, <1>3 DEF Stays, Driven
<1>5. CtlTyped' /\ HasRing'
  <2>1. pc' \notin BehindCommandRing \ Started
    BY <1>3 DEF Setup, BehindCommandRing, BehindSlots, BehindContexts,
      BehindRing, BehindEnable, BehindEventMemory, BehindEventRing, BehindEventCell, Started
  <2> QED
    BY <1>1, <1>2, <2>1 DEF Shape, CtlTyped, HasRing
<1>6. Halted'
  <2>1. "reset" \notin r.usb_cmd
    BY <1>1 DEF DevicesInv, Halted, Begun
  <2>2. pc' \notin {"start"} \cup Setup
    BY <1>3 DEF Setup, BehindCommandRing, BehindSlots, BehindContexts,
      BehindRing, BehindEnable, BehindEventMemory, BehindEventRing, BehindEventCell, Started
  <2> QED
    BY <1>2, <1>3, <1>4, <2>1, <2>2 DEF Halted
<1>7. machine' = machine
  BY DEF pciVars
<1>8. Made'
  BY <1>1, <1>2, <1>3, <1>4, <1>7 DEF DevicesInv, Made,
    Setup, BehindCommandRing, BehindSlots, BehindContexts,
    BehindRing, BehindEnable, BehindEventMemory, BehindEventRing, BehindEventCell, Started
<1>9. SetUp'
  <2>1. /\ pc' \in BehindSlots => pc \in BehindSlots
        /\ pc' \in BehindRing => pc \in BehindRing
        /\ pc' \in BehindEnable => pc \in BehindEnable
        /\ pc' \in BehindEventRing => pc \in BehindEventRing
        /\ pc' \in Started => pc \in Started
    BY <1>1, <1>3 DEF Setup, BehindCommandRing, BehindSlots, BehindContexts,
      BehindRing, BehindEnable, BehindEventMemory, BehindEventRing, BehindEventCell, Started
  <2> QED
    BY <1>2, <1>3, <1>4, <1>7, <2>1, SetUpKept DEF DevicesInv
<1>10. "next" \in {Program[i] : i \in 1..Len(Program)}
  BY ProgramNames
<1> QED
  BY <1>1, <1>2, <1>4, <1>5, <1>6, <1>8, <1>9, <1>10, BetweenModifies

(* XhciEventRing::init_ring behind its modify (ring.rs:160-169).           *)
LEMMA StoreEventRingStep ==
  ASSUME DevicesInv, StoreEventRing, UNCHANGED <<pciVars, mmioVars>>
  PROVE  DevicesInv'
<1> DEFINE r == regs[Driven]
<1>1. turn > 0 /\ turn \in Nat /\ Shape /\ Found /\ DrivenOK /\ pc = "event cell"
  BY BringUpDrives DEF StoreEventRing
<1>2. /\ UNCHANGED <<regs, fresh, turn>> /\ Goto("start")
      /\ IF ctl.eventRing = None
         THEN ctl' = [ctl EXCEPT !.eventRing = <<Segment(turn)>>] /\ UNCHANGED dma
         ELSE dma' = dma \ {Segment(turn), Table(turn)} /\ UNCHANGED ctl
  BY <1>1, AfterEach DEF StoreEventRing
<1>3. pc' = "start" /\ \A m : ~Begun(m)'
  BY <1>2, GotoBegins
<1>4. ctl \in [controller : Seq([loc : Locations, page : Nat]),
               commandRing : Seq(Blocks), eventRing : Seq(Blocks),
               contexts : SUBSET Nat, scratchpads : SUBSET Nat, entry0 : Blocks]
  BY <1>1 DEF Shape
<1>5. /\ ctl'.controller = ctl.controller /\ ctl'.commandRing = ctl.commandRing
      /\ ctl'.contexts = ctl.contexts /\ ctl'.scratchpads = ctl.scratchpads
      /\ ctl'.entry0 = ctl.entry0
  BY <1>2, <1>4
<1>6. Stays /\ Driven' = Driven
  BY <1>1, <1>2, <1>3, <1>5 DEF Stays, Driven
<1>7. CtlTyped' /\ HasRing'
  <2>1. Segment(turn) \in Blocks
    BY <1>1 DEF Segment, Blocks, BlockUses
  <2>2. <<Segment(turn)>> \in Seq(Blocks)
    BY <2>1
  <2>3. pc \in BehindCommandRing \ Started
    BY <1>1 DEF Setup, BehindCommandRing, BehindSlots, BehindContexts,
      BehindRing, BehindEnable, BehindEventMemory, BehindEventRing, BehindEventCell, Started
  <2>4. ctl.commandRing # None
    BY <1>1, <2>3 DEF Shape
  <2>5. CtlTyped'
    BY <1>2, <1>4, <2>2 DEF CtlTyped
  <2> QED
    BY <1>5, <2>4, <2>5 DEF HasRing
<1>8. pc \in Setup
  BY <1>1 DEF Setup, BehindCommandRing, BehindSlots, BehindContexts,
    BehindRing, BehindEnable, BehindEventMemory, BehindEventRing, BehindEventCell, Started
<1>9. Halted'
  <2>1. /\ "run" \notin r.usb_cmd /\ "halted" \in r.usb_status /\ "reset" \notin r.usb_cmd
        /\ Driven \in fresh /\ "event_interrupt" \notin r.usb_status
    BY <1>1, <1>8 DEF DevicesInv, Halted, Begun
  <2> QED
    BY <1>2, <1>3, <1>6, <2>1 DEF Halted
<1>10. machine' = machine
  BY DEF pciVars
<1>11. Made'
  <2>1. turn = 1 =>
          /\ Dcbaa \in dma /\ ctl.eventRing = None
          /\ ctl.commandRing = <<CommandRing(1)>> /\ CommandRing(1) \in dma
          /\ ctl.contexts = 1..machine[Driven].xhci.slots
          /\ ctl.scratchpads = 0..(machine[Driven].xhci.scratchpads - 1)
          /\ (ctl.entry0 # NoBlock) = (machine[Driven].xhci.scratchpads > 0)
          /\ Segment(1) \in dma /\ Table(1) \in dma
    BY <1>1 DEF DevicesInv, Made, Setup, BehindCommandRing, BehindSlots, BehindContexts,
      BehindRing, BehindEnable, BehindEventMemory, BehindEventRing, BehindEventCell, Started
  <2>2. /\ pc' \in BehindCommandRing /\ pc' \in BehindContexts /\ pc' \in BehindEventMemory
        /\ pc' \in BehindEventCell
    BY <1>3 DEF Setup, BehindCommandRing, BehindSlots, BehindContexts,
      BehindRing, BehindEnable, BehindEventMemory, BehindEventRing, BehindEventCell, Started
  <2>3. turn = 1 => dma' = dma
    BY <1>2, <2>1
  <2> QED
    BY <1>2, <1>5, <1>6, <1>10, <2>1, <2>2, <2>3 DEF Made
<1>12. SetUp'
  <2>1. /\ pc' \in BehindSlots => pc \in BehindSlots
        /\ pc' \in BehindRing => pc \in BehindRing
        /\ pc' \in BehindEnable => pc \in BehindEnable
        /\ pc' \in BehindEventRing => pc \in BehindEventRing
        /\ pc' \in Started => pc \in Started
    BY <1>1, <1>3 DEF Setup, BehindCommandRing, BehindSlots, BehindContexts,
      BehindRing, BehindEnable, BehindEventMemory, BehindEventRing, BehindEventCell, Started
  <2> QED
    BY <1>2, <1>3, <1>5, <1>6, <1>10, <2>1, SetUpKept DEF DevicesInv
<1>13. "start" \in {Program[i] : i \in 1..Len(Program)}
  BY ProgramNames
<1> QED
  BY <1>1, <1>2, <1>6, <1>7, <1>9, <1>11, <1>12, <1>13, BetweenModifies

(* A panic during the bring-up leaves a controller that does not run       *)
(* (main.rs:260-279).                                                      *)
LEMMA PanicStep ==
  ASSUME DevicesInv, Panic, pc \in Setup, UNCHANGED <<pciVars, mmioVars>>
  PROVE  DevicesInv'
<1> DEFINE r == regs[Driven]
<1>1. pc \notin {"scan", "next", "frames", "stop", "halting", "reset", "resetting", "start"}
  BY DEF Setup, BehindCommandRing, BehindSlots, BehindContexts,
    BehindRing, BehindEnable, BehindEventMemory, BehindEventRing, BehindEventCell, Started
<1>2. turn > 0 /\ turn \in Nat /\ Shape /\ Found /\ DrivenOK
  BY <1>1, BringUpDrives
<1>3. UNCHANGED <<regs, fresh, ctl, dma, turn>> /\ Goto("panic")
  BY DEF Panic
<1>4. pc' = "panic" /\ \A m : ~Begun(m)'
  BY <1>3, GotoBegins
<1>5. Stays /\ Driven' = Driven
  BY <1>1, <1>3, <1>4 DEF Stays, Driven
<1>6. CtlTyped' /\ HasRing'
  <2>1. pc' \notin BehindCommandRing
    BY <1>4 DEF Setup, BehindCommandRing, BehindSlots, BehindContexts,
      BehindRing, BehindEnable, BehindEventMemory, BehindEventRing, BehindEventCell, Started
  <2> QED
    BY <1>2, <1>3, <2>1 DEF Shape, CtlTyped, HasRing
<1>7. Halted'
  <2>1. "run" \notin r.usb_cmd /\ "reset" \notin r.usb_cmd
    BY <1>1, <1>2 DEF DevicesInv, Halted, Begun
  <2>2. pc' \notin {"start"} \cup Setup
    BY <1>4 DEF Setup, BehindCommandRing, BehindSlots, BehindContexts,
      BehindRing, BehindEnable, BehindEventMemory, BehindEventRing, BehindEventCell, Started
  <2> QED
    BY <1>3, <1>4, <1>5, <2>1, <2>2 DEF Halted
<1>8. Made'
  <2>1. turn = 1 => Dcbaa \in dma
    BY DEF DevicesInv, Made
  <2>2. /\ pc' \notin BehindCommandRing /\ pc' \notin BehindContexts
        /\ pc' \notin BehindEventMemory
    BY <1>4 DEF Setup, BehindCommandRing, BehindSlots, BehindContexts,
      BehindRing, BehindEnable, BehindEventMemory, BehindEventRing, BehindEventCell, Started
  <2> QED
    BY <1>3, <1>4, <2>1, <2>2 DEF Made
<1>9. SetUp'
  <2>1. /\ pc' \notin BehindSlots /\ pc' \notin BehindRing /\ pc' \notin BehindEnable
        /\ pc' \notin BehindEventRing /\ pc' \notin Started
    BY <1>4 DEF Setup, BehindCommandRing, BehindSlots, BehindContexts,
      BehindRing, BehindEnable, BehindEventMemory, BehindEventRing, BehindEventCell, Started
  <2> QED
    BY <1>4, <2>1 DEF SetUp
<1> QED
  BY <1>1, <1>2, <1>3, <1>5, <1>6, <1>7, <1>8, <1>9, BetweenModifies

(* The middle of setup_op_regs (controller.rs:111-145).                    *)
LEMMA FillDcbaaStep ==
  ASSUME DevicesInv, FillDcbaa, UNCHANGED <<pciVars, mmioVars>>
  PROVE  DevicesInv'
<1> DEFINE r == regs[Driven]
           x == machine[Driven].xhci
<1>1. turn > 0 /\ turn \in Nat /\ Shape /\ Found /\ DrivenOK /\ pc = "contexts"
  BY BringUpDrives DEF FillDcbaa
<1>2. /\ x \in [runtimePage : Nat, slots : Nat, scratchpads : Nat, crcrReadable : BOOLEAN]
      /\ ctl.controller[1].loc = Driven
  BY <1>1, DrivenTyped
<1>3. pc \in Setup
  BY <1>1 DEF Setup, BehindCommandRing, BehindSlots, BehindContexts,
    BehindRing, BehindEnable, BehindEventMemory, BehindEventRing, BehindEventCell, Started
<1>4. CASE x.scratchpads > PointerSlots
  <2>1. Panic
    BY <1>2, <1>4 DEF FillDcbaa
  <2> QED
    BY <1>3, <2>1, PanicStep
<1>5. CASE ~(x.scratchpads > PointerSlots)
  <2>1. /\ UNCHANGED <<regs, fresh, dma, turn>> /\ Goto("ring")
        /\ ctl' = [ctl EXCEPT
                     !.contexts = @ \cup 1..x.slots,
                     !.scratchpads = @ \cup 0..(x.scratchpads - 1),
                     !.entry0 = IF x.scratchpads > 0 THEN <<"scratchpads", 1>> ELSE @]
    BY <1>1, <1>2, <1>5, AfterEach DEF FillDcbaa
  <2>2. pc' = "ring" /\ \A m : ~Begun(m)'
    BY <2>1, GotoBegins
  <2>3. ctl \in [controller : Seq([loc : Locations, page : Nat]),
                 commandRing : Seq(Blocks), eventRing : Seq(Blocks),
                 contexts : SUBSET Nat, scratchpads : SUBSET Nat, entry0 : Blocks]
    BY <1>1 DEF Shape
  <2>4. /\ ctl'.controller = ctl.controller /\ ctl'.commandRing = ctl.commandRing
        /\ ctl'.eventRing = ctl.eventRing
        /\ ctl'.contexts = ctl.contexts \cup 1..x.slots
        /\ ctl'.scratchpads = ctl.scratchpads \cup 0..(x.scratchpads - 1)
        /\ ctl'.entry0 = IF x.scratchpads > 0 THEN <<"scratchpads", 1>> ELSE ctl.entry0
    BY <2>1, <2>3
  <2>5. Stays /\ Driven' = Driven
    BY <1>1, <2>1, <2>2, <2>4 DEF Stays, Driven
  <2>6. CtlTyped' /\ HasRing'
    <3>1. <<"scratchpads", 1>> \in Blocks
      BY DEF Blocks, BlockUses
    <3>2. x.slots \in Nat /\ x.scratchpads \in Nat
      BY <1>2
    <3> HIDE DEF x
    <3>3. 1..x.slots \in SUBSET Nat /\ 0..(x.scratchpads - 1) \in SUBSET Nat
      BY <3>2
    <3>4. pc \in BehindCommandRing \ Started
      BY <1>1 DEF Setup, BehindCommandRing, BehindSlots, BehindContexts,
        BehindRing, BehindEnable, BehindEventMemory, BehindEventRing, BehindEventCell, Started
    <3>5. ctl.commandRing # None
      BY <1>1, <3>4 DEF Shape
    <3>6. CtlTyped'
      BY <2>1, <2>3, <3>1, <3>3 DEF CtlTyped
    <3> QED
      BY <2>4, <3>5, <3>6 DEF HasRing
  <2>7. Halted'
    <3>1. /\ "run" \notin r.usb_cmd /\ "halted" \in r.usb_status /\ "reset" \notin r.usb_cmd
          /\ Driven \in fresh /\ "event_interrupt" \notin r.usb_status
      BY <1>1, <1>3 DEF DevicesInv, Halted, Begun
    <3> QED
      BY <2>1, <2>2, <2>5, <3>1 DEF Halted
  <2>8. machine' = machine
    BY DEF pciVars
  <2>9. Made'
    <3>1. turn = 1 =>
            /\ Dcbaa \in dma /\ ctl.eventRing = None
            /\ ctl.commandRing = <<CommandRing(1)>> /\ CommandRing(1) \in dma
            /\ ctl.contexts = {} /\ ctl.scratchpads = {} /\ ctl.entry0 = NoBlock
      BY <1>1 DEF DevicesInv, Made, Setup, BehindCommandRing, BehindSlots, BehindContexts,
        BehindRing, BehindEnable, BehindEventMemory, BehindEventRing, BehindEventCell, Started
    <3>2. /\ pc' \in BehindCommandRing /\ pc' \in BehindContexts
          /\ pc' \notin BehindEventMemory /\ pc' \notin BehindEventCell
      BY <2>2 DEF Setup, BehindCommandRing, BehindSlots, BehindContexts,
        BehindRing, BehindEnable, BehindEventMemory, BehindEventRing, BehindEventCell, Started
    <3>3. <<"scratchpads", 1>> # NoBlock
      BY DEF NoBlock
    <3>4. turn = 1 =>
            /\ ctl'.contexts = 1..x.slots
            /\ ctl'.scratchpads = 0..(x.scratchpads - 1)
            /\ (ctl'.entry0 # NoBlock) = (x.scratchpads > 0)
      BY <2>4, <3>1, <3>3
    <3> QED
      BY <2>1, <2>4, <2>5, <2>8, <3>1, <3>2, <3>4 DEF Made
  <2>10. SetUp'
    BY <1>1, <2>1, <2>2, <2>4, <2>5, <2>8 DEF DevicesInv, SetUp,
      Setup, BehindCommandRing, BehindSlots, BehindContexts,
      BehindRing, BehindEnable, BehindEventMemory, BehindEventRing, BehindEventCell, Started
  <2>11. "ring" \in {Program[i] : i \in 1..Len(Program)}
    BY ProgramNames
  <2> QED
    BY <1>1, <2>1, <2>5, <2>6, <2>7, <2>9, <2>10, <2>11, BetweenModifies
<1> QED
  BY <1>4, <1>5

(* An access to a page that is not mapped: it was one to the runtime       *)
(* registers (cpu_panic.rs:43-62).                                         *)
LEMMA AccessFaultsStep ==
  ASSUME DevicesInv, AccessFaults, UNCHANGED <<pciVars, mmioVars>>
  PROVE  DevicesInv'
<1>1. pc \in Modifies /\ Faults(PageOf(BlockOf(pc))) /\ Panic
  BY DEF AccessFaults
<1>2. turn > 0 /\ Shape /\ Found /\ DrivenOK
  BY <1>1, BringUpDrives DEF Modifies, RuntimeModifies
<1>3. BlockOf(pc) = RuntimeBlock
  BY <1>1, <1>2, ReachDriven
<1>4. pc \in RuntimeModifies
  BY <1>3, BlockDwords DEF BlockOf
<1>5. pc \in Setup
  BY <1>4 DEF RuntimeModifies, Setup, BehindCommandRing, BehindSlots, BehindContexts,
    BehindRing, BehindEnable, BehindEventMemory, BehindEventRing, BehindEventCell, Started
<1> QED
  BY <1>1, <1>5, PanicStep

-----------------------------------------------------------------------------
(* The controller's own steps.  But for a reset they leave alone what the  *)
(* driver programs; a controller that is told not to run stays halted, and *)
(* a halted one raises no interrupt.                                       *)
LEMMA ControllerMoves ==
  ASSUME Shape, NEW c \in Controllers,
         HcHalt(c) \/ HcRun(c) \/ HcReady(c) \/ HcPort(c) \/ HcEvent(c)
  PROVE  LET r == regs[c]
             s == regs'[c] IN
         /\ fresh' = fresh /\ regs' \in [Controllers -> Registers]
         /\ \A e \in Controllers \ {c} : regs'[e] = regs[e]
         /\ s.usb_cmd = r.usb_cmd /\ s.crcr = r.crcr /\ s.dcbaap = r.dcbaap
         /\ s.config = r.config /\ s.erst_size = r.erst_size /\ s.erstba = r.erstba
         /\ s.notification_enable = r.notification_enable
         /\ s.erdp.ptr = r.erdp.ptr /\ r.iman \subseteq s.iman
         /\ "halted" \in r.usb_status /\ "run" \notin r.usb_cmd => "halted" \in s.usb_status
         /\ "event_interrupt" \in s.usb_status =>
              "event_interrupt" \in r.usb_status \/ "halted" \notin r.usb_status
         /\ "event_interrupt" \in r.usb_status => "event_interrupt" \in s.usb_status
<1> DEFINE r == regs[c]
           States == SUBSET (StatusW1C \cup {"halted", "not_ready"})
<1>1. regs \in [Controllers -> Registers] /\ r \in Registers
  BY DEF Shape
<1>2. /\ r.usb_status \in States /\ r.iman \in SUBSET {"pending", "enable"}
      /\ r.erdp \in [ptr : Blocks, busy : BOOLEAN]
  BY <1>1 DEF Registers
<1>3. \A q \in States : [r EXCEPT !.usb_status = q] \in Registers
  BY <1>1 DEF Registers
<1>4. r.usb_status \cup {"halted"} \in States /\ r.usb_status \ {"halted"} \in States
      /\ r.usb_status \ {"not_ready"} \in States /\ r.usb_status \cup {"port_changed"} \in States
      /\ r.usb_status \cup {"event_interrupt"} \in States
  BY <1>2 DEF StatusW1C
<1>5. ASSUME NEW q \in States, regs' = [regs EXCEPT ![c] = [r EXCEPT !.usb_status = q]],
             fresh' = fresh,
             "halted" \in r.usb_status /\ "run" \notin r.usb_cmd => "halted" \in q,
             "event_interrupt" \in q <=> "event_interrupt" \in r.usb_status
      PROVE  LET s == regs'[c] IN
             /\ fresh' = fresh /\ regs' \in [Controllers -> Registers]
             /\ \A e \in Controllers \ {c} : regs'[e] = regs[e]
             /\ s.usb_cmd = r.usb_cmd /\ s.crcr = r.crcr /\ s.dcbaap = r.dcbaap
             /\ s.config = r.config /\ s.erst_size = r.erst_size /\ s.erstba = r.erstba
             /\ s.notification_enable = r.notification_enable
             /\ s.erdp.ptr = r.erdp.ptr /\ r.iman \subseteq s.iman
             /\ "halted" \in r.usb_status /\ "run" \notin r.usb_cmd => "halted" \in s.usb_status
             /\ "event_interrupt" \in s.usb_status <=> "event_interrupt" \in r.usb_status
  <2> DEFINE s == [r EXCEPT !.usb_status = q]
  <2>1. s \in Registers
    BY <1>3
  <2>2. /\ s.usb_cmd = r.usb_cmd /\ s.crcr = r.crcr /\ s.dcbaap = r.dcbaap
        /\ s.config = r.config /\ s.erst_size = r.erst_size /\ s.erstba = r.erstba
        /\ s.notification_enable = r.notification_enable
        /\ s.erdp = r.erdp /\ s.iman = r.iman /\ s.usb_status = q
    BY <1>1 DEF Registers
  <2> HIDE DEF s
  <2>3. regs'[c] = s /\ \A e \in Controllers \ {c} : regs'[e] = regs[e]
    BY <1>1, <1>5 DEF s
  <2>4. regs' \in [Controllers -> Registers]
    BY <1>1, <1>5, <2>1 DEF s
  <2> QED
    BY <1>5, <2>2, <2>3, <2>4
<1>6. CASE HcHalt(c)
  <2>1. regs' = [regs EXCEPT ![c] = [r EXCEPT !.usb_status = r.usb_status \cup {"halted"}]]
    BY <1>6 DEF HcHalt
  <2>2. "event_interrupt" \in r.usb_status \cup {"halted"} <=> "event_interrupt" \in r.usb_status
    OBVIOUS
  <2>3. fresh' = fresh
    BY <1>6 DEF HcHalt
  <2> HIDE DEF r, States
  <2> QED
    BY <1>4, <1>5, <2>1, <2>2, <2>3 DEF r
<1>7. CASE HcRun(c)
  <2>1. /\ regs' = [regs EXCEPT ![c] = [r EXCEPT !.usb_status = r.usb_status \ {"halted"}]]
        /\ "run" \in r.usb_cmd /\ fresh' = fresh
    BY <1>7 DEF HcRun
  <2>2. "event_interrupt" \in r.usb_status \ {"halted"} <=> "event_interrupt" \in r.usb_status
    OBVIOUS
  <2> HIDE DEF r, States
  <2> QED
    BY <1>4, <1>5, <2>1, <2>2 DEF r
<1>8. CASE HcReady(c)
  <2>1. /\ regs' = [regs EXCEPT ![c] = [r EXCEPT !.usb_status = r.usb_status \ {"not_ready"}]]
        /\ fresh' = fresh
    BY <1>8 DEF HcReady
  <2>2. /\ "event_interrupt" \in r.usb_status \ {"not_ready"} <=> "event_interrupt" \in r.usb_status
        /\ "halted" \in r.usb_status => "halted" \in r.usb_status \ {"not_ready"}
    OBVIOUS
  <2> HIDE DEF r, States
  <2> QED
    BY <1>4, <1>5, <2>1, <2>2 DEF r
<1>9. CASE HcPort(c)
  <2>1. /\ regs' = [regs EXCEPT ![c] = [r EXCEPT !.usb_status = r.usb_status \cup {"port_changed"}]]
        /\ fresh' = fresh
    BY <1>9 DEF HcPort
  <2>2. /\ "event_interrupt" \in r.usb_status \cup {"port_changed"}
             <=> "event_interrupt" \in r.usb_status
        /\ "halted" \in r.usb_status => "halted" \in r.usb_status \cup {"port_changed"}
    OBVIOUS
  <2> HIDE DEF r, States
  <2> QED
    BY <1>4, <1>5, <2>1, <2>2 DEF r
<1>10. CASE HcEvent(c)
  <2> DEFINE r1 == [r EXCEPT !.usb_status = r.usb_status \cup {"event_interrupt"}]
             r2 == [r1 EXCEPT !.iman = r1.iman \cup {"pending"}]
             s == [r2 EXCEPT !.erdp = [r2.erdp EXCEPT !.busy = TRUE]]
             q1 == [regs EXCEPT ![c] = r1]
             q2 == [q1 EXCEPT ![c] = [q1[c] EXCEPT !.iman = q1[c].iman \cup {"pending"}]]
             q3 == [q2 EXCEPT ![c] = [q2[c] EXCEPT !.erdp = [q2[c].erdp EXCEPT !.busy = TRUE]]]
  <2>1. regs' = q3 /\ fresh' = fresh /\ "halted" \notin r.usb_status
    <3>1. regs' = q3
      BY <1>10 DEF HcEvent
    <3> QED
      BY <3>1, <1>10 DEF HcEvent
  <2>2. /\ r1 \in Registers /\ r1.usb_cmd = r.usb_cmd /\ r1.crcr = r.crcr
        /\ r1.dcbaap = r.dcbaap /\ r1.config = r.config /\ r1.erst_size = r.erst_size
        /\ r1.notification_enable = r.notification_enable
        /\ r1.erstba = r.erstba /\ r1.erdp = r.erdp /\ r1.iman = r.iman
        /\ r1.usb_status = r.usb_status \cup {"event_interrupt"}
    <3>1. r1 \in Registers
      BY <1>3, <1>4
    <3> QED
      BY <1>1, <3>1 DEF Registers
  <2> HIDE DEF r1
  <2>3. r1.iman \cup {"pending"} \in SUBSET {"pending", "enable"}
    BY <1>2, <2>2
  <2>4. /\ r2 \in Registers /\ r2.usb_cmd = r1.usb_cmd /\ r2.crcr = r1.crcr
        /\ r2.dcbaap = r1.dcbaap /\ r2.config = r1.config /\ r2.erst_size = r1.erst_size
        /\ r2.notification_enable = r1.notification_enable
        /\ r2.erstba = r1.erstba /\ r2.erdp = r1.erdp /\ r2.iman = r1.iman \cup {"pending"}
        /\ r2.usb_status = r1.usb_status
    BY <2>2, <2>3 DEF Registers
  <2> HIDE DEF r2
  <2>5. /\ [r2.erdp EXCEPT !.busy = TRUE] \in [ptr : Blocks, busy : BOOLEAN]
        /\ [r2.erdp EXCEPT !.busy = TRUE].ptr = r2.erdp.ptr
    <3>1. r2.erdp \in [ptr : Blocks, busy : BOOLEAN]
      BY <2>4 DEF Registers
    <3> QED
      BY <3>1
  <2>6. /\ s \in Registers /\ s.usb_cmd = r2.usb_cmd /\ s.crcr = r2.crcr
        /\ s.dcbaap = r2.dcbaap /\ s.config = r2.config /\ s.erst_size = r2.erst_size
        /\ s.notification_enable = r2.notification_enable
        /\ s.erstba = r2.erstba /\ s.erdp.ptr = r2.erdp.ptr /\ s.iman = r2.iman
        /\ s.usb_status = r2.usb_status
    BY <2>4, <2>5 DEF Registers
  <2>7. q2 = [q1 EXCEPT ![c] = r2]
    BY <1>1 DEF r2
  <2>8. q2[c] = r2 /\ q2 \in [Controllers -> Registers]
        /\ \A e \in Controllers \ {c} : q2[e] = regs[e]
    BY <1>1, <2>2, <2>4, <2>7
  <2> HIDE DEF q2
  <2>9. regs' = [q2 EXCEPT ![c] = s]
    BY <2>1, <2>8
  <2> HIDE DEF s
  <2>10. /\ regs'[c] = s /\ regs' \in [Controllers -> Registers]
         /\ \A e \in Controllers \ {c} : regs'[e] = regs[e]
    BY <2>6, <2>8, <2>9
  <2> HIDE DEF r
  <2>11. /\ s.usb_cmd = r.usb_cmd /\ s.crcr = r.crcr /\ s.dcbaap = r.dcbaap
         /\ s.config = r.config /\ s.erst_size = r.erst_size /\ s.erstba = r.erstba
         /\ s.notification_enable = r.notification_enable
         /\ s.erdp.ptr = r.erdp.ptr /\ r.iman \subseteq s.iman
         /\ s.usb_status = r.usb_status \cup {"event_interrupt"}
    BY <2>2, <2>4, <2>6
  <2> QED
    BY <2>1, <2>10, <2>11 DEF r
<1> QED
  BY <1>6, <1>7, <1>8, <1>9, <1>10

(* A step of the controller keeps the invariant.                           *)
LEMMA DeviceStep ==
  ASSUME DevicesInv, Device
  PROVE  DevicesInv'
<1> DEFINE r == regs[Driven]
           s == regs'[Driven]
<1>1. Shape /\ Found /\ DrivenOK /\ OthersUntouched /\ turn > 0 /\ turn \in Nat
  <2>1. turn # 0
    BY DEF Device, DevicesInv, DrivenOK
  <2>2. Shape /\ Found /\ DrivenOK /\ OthersUntouched
    BY DEF DevicesInv
  <2>3. turn \in Nat
    BY <2>2 DEF Shape
  <2> QED
    BY <2>1, <2>2, <2>3
<1>2. /\ UNCHANGED <<pciVars, mmioVars, ctl, pc, acc, dma, turn>>
      /\ \/ HcHalt(Driven) \/ HcRun(Driven) \/ HcReset(Driven) \/ HcReady(Driven)
         \/ HcPort(Driven) \/ HcEvent(Driven)
  BY DEF Device, Hardware, Driven
<1>3. Stays /\ machine' = machine /\ command' = command
  BY <1>2 DEF Stays, pciVars
<1>4. Found' /\ DrivenOK' /\ Driven' = Driven /\ Controllers' = Controllers
  BY <1>1, <1>3, StaysFound
<1>5. Driven \in Controllers /\ r \in Registers
  BY <1>1, DrivenTyped
<1>6. /\ \A m : Begun(m)' = Begun(m)
      /\ \A j : Have(j)' = Have(j)
  BY <1>2 DEF Begun, Have
<1>7. CASE HcReset(Driven)
  <2>1. /\ "reset" \in r.usb_cmd /\ regs' = [regs EXCEPT ![Driven] = ResetRegs]
        /\ fresh' = fresh \cup {Driven}
    BY <1>7 DEF HcReset
  <2>2. /\ regs' \in [Controllers -> Registers] /\ s = ResetRegs
        /\ \A e \in Controllers \ {Driven} : regs'[e] = regs[e]
    BY <1>1, <1>5, <2>1, RegistersTyped DEF Shape
  <2>3. /\ s.usb_cmd = {} /\ s.usb_status = {"halted", "not_ready"}
    BY <2>2 DEF ResetRegs
  <2>4. pc = "resetting" \/ (pc = "reset" /\ Begun("reset") /\ acc.write)
    BY <1>1, <2>1 DEF DevicesInv, Halted, Begun
  <2>5. Shape'
    <3>1. fresh' \subseteq Controllers'
      BY <1>1, <1>4, <1>5, <2>1 DEF Shape
    <3> QED
      BY <1>1, <1>2, <1>3, <1>4, <2>2, <3>1 DEF Shape
  <2>6. OthersUntouched'
    BY <1>1, <1>2, <1>4, <2>1, <2>2 DEF OthersUntouched
  <2>7. Halted'
    <3>1. pc \notin {"start"} \cup Setup /\ Driven \in fresh'
      BY <2>1, <2>4 DEF Setup, BehindCommandRing, BehindSlots, BehindContexts,
        BehindRing, BehindEnable, BehindEventMemory, BehindEventRing, BehindEventCell, Started
    <3>2. ~Begun("stop") /\ ~Begun("start")
      BY <2>4 DEF Begun
    <3> QED
      BY <1>2, <1>4, <1>6, <2>3, <2>4, <3>1, <3>2 DEF Halted
  <2>8. OpValue'
    <3>1. OpValue
      BY DEF DevicesInv
    <3>2. pc \in OpModifies => acc.write /\ pc = "reset"
      BY <2>4 DEF OpModifies, Modifies, RuntimeModifies
    <3> QED
      BY <1>2, <1>3, <1>4, <1>6, <3>1, <3>2 DEF OpValue
  <2>9. RuntimeValue'
    BY <1>2, <1>6 DEF DevicesInv, RuntimeValue
  <2>10. Made'
    BY <1>2, <1>3, <1>4 DEF DevicesInv, Made
  <2>11. SetUp'
    <3>1. pc' \in {"resetting", "reset"}
      BY <1>2, <2>4
    <3>2. /\ ~Begun("slots")' /\ ~Begun("ring")' /\ ~Begun("enable")'
          /\ ~Begun("event ring")' /\ ~Begun("start")'
      BY <3>1 DEF Begun
    <3>3. /\ pc' \notin BehindSlots /\ pc' \notin BehindRing /\ pc' \notin BehindEnable
          /\ pc' \notin BehindEventRing /\ pc' \notin Started
      BY <3>1 DEF Setup, BehindCommandRing, BehindSlots, BehindContexts,
        BehindRing, BehindEnable, BehindEventMemory, BehindEventRing, BehindEventCell, Started
    <3> QED
      BY <3>2, <3>3 DEF SetUp
  <2> QED
    BY <1>4, <2>5, <2>6, <2>7, <2>8, <2>9, <2>10, <2>11 DEF DevicesInv
<1>8. CASE HcHalt(Driven) \/ HcRun(Driven) \/ HcReady(Driven) \/ HcPort(Driven) \/ HcEvent(Driven)
  <2>1. /\ fresh' = fresh /\ regs' \in [Controllers -> Registers]
        /\ \A e \in Controllers \ {Driven} : regs'[e] = regs[e]
        /\ s.usb_cmd = r.usb_cmd /\ s.crcr = r.crcr /\ s.dcbaap = r.dcbaap
        /\ s.config = r.config /\ s.erst_size = r.erst_size /\ s.erstba = r.erstba
        /\ s.notification_enable = r.notification_enable
        /\ s.erdp.ptr = r.erdp.ptr /\ r.iman \subseteq s.iman
        /\ "halted" \in r.usb_status /\ "run" \notin r.usb_cmd => "halted" \in s.usb_status
        /\ "event_interrupt" \in s.usb_status =>
             "event_interrupt" \in r.usb_status \/ "halted" \notin r.usb_status
    BY <1>1, <1>5, <1>8, ControllerMoves
  <2>2. regs'[Driven'] = s
    BY <1>4
  <2> HIDE DEF s
  <2>3. Shape'
    BY <1>1, <1>2, <1>3, <1>4, <2>1 DEF Shape
  <2>4. OthersUntouched'
    BY <1>1, <1>2, <1>4, <2>1 DEF OthersUntouched
  <2>5. Halted'
    <3>1. /\ pc \in {"halting", "panic"} \/ Begun("stop") => "run" \notin r.usb_cmd
          /\ pc \in {"reset", "resetting", "start"} \cup Setup /\ ~Begun("start") =>
               "run" \notin r.usb_cmd /\ "halted" \in r.usb_status
          /\ "reset" \in r.usb_cmd => pc = "resetting" \/ Begun("reset")
          /\ pc = "resetting" \/ Begun("reset") =>
               "reset" \in r.usb_cmd
                 \/ (Driven \in fresh /\ "event_interrupt" \notin r.usb_status)
          /\ pc \in {"start"} \cup Setup =>
               Driven \in fresh /\ ("event_interrupt" \notin r.usb_status \/ Begun("start"))
          /\ turn = 1 /\ (pc \in {"stop", "halting"} \/ (pc = "reset" /\ ~Begun("reset"))) =>
               fresh = {}
      BY <1>1 DEF DevicesInv, Halted
    <3>2. Begun("reset") => pc = "reset" /\ ~Begun("start")
      BY DEF Begun
    <3>3. pc = "resetting" => ~Begun("start")
      BY DEF Begun
    <3> HIDE DEF r
    <3>4. pc = "resetting" \/ Begun("reset") =>
            "reset" \in s.usb_cmd
              \/ (Driven \in fresh /\ "event_interrupt" \notin s.usb_status)
      BY <2>1, <3>1, <3>2, <3>3
    <3>5. pc \in {"start"} \cup Setup =>
            Driven \in fresh /\ ("event_interrupt" \notin s.usb_status \/ Begun("start"))
      BY <2>1, <3>1
    <3> QED
      BY <1>2, <1>4, <1>6, <2>1, <2>2, <3>1, <3>4, <3>5 DEF Halted
  <2>6. OpValue'
    <3>1. OpValue
      BY DEF DevicesInv
    <3> QED
      BY <1>2, <1>3, <1>4, <1>6, <2>1, <2>2, <3>1 DEF OpValue
  <2>7. RuntimeValue'
    BY <1>2, <1>6 DEF DevicesInv, RuntimeValue
  <2>8. Made'
    BY <1>2, <1>3, <1>4 DEF DevicesInv, Made
  <2>9. SetUp'
    <3>1. SetUp
      BY DEF DevicesInv
    <3> QED
      BY <1>2, <1>3, <1>4, <1>6, <2>1, <2>2, <3>1 DEF SetUp
  <2> QED
    BY <1>4, <2>3, <2>4, <2>5, <2>6, <2>7, <2>8, <2>9 DEF DevicesInv
<1> QED
  BY <1>2, <1>7, <1>8

-----------------------------------------------------------------------------
(* The modifies (PciValue::modify, pci.rs:516-521).  Where a modify stands *)
(* and what it can reach.                                                  *)
LEMMA ModifyContext ==
  ASSUME DevicesInv, pc \in Modifies
  PROVE  /\ turn > 0 /\ turn \in Nat /\ Shape /\ Found /\ DrivenOK
         /\ machine \in Machines /\ Driven \in Controllers /\ regs[Driven] \in Registers
         /\ machine[Driven].xhci \in [runtimePage : Nat, slots : Nat, scratchpads : Nat,
                                      crcrReadable : BOOLEAN]
         /\ ctl.controller[1].loc = Driven
         /\ Reach(PageOf(BlockOf(pc))) \subseteq {Driven}
         /\ IF pc \in RuntimeModifies THEN BlockOf(pc) = RuntimeBlock
            ELSE pc \in OpModifies /\ BlockOf(pc) = OpBlock
         /\ acc \in [at : 1..Len(BlockOf(pc)), value : Registers, write : BOOLEAN]
<1>1. turn > 0 /\ turn \in Nat /\ Shape /\ Found /\ DrivenOK
  BY BringUpDrives DEF Modifies, RuntimeModifies
<1>2. Reach(PageOf(BlockOf(pc))) \subseteq {Driven}
  BY <1>1, ReachDriven
<1>3. IF pc \in RuntimeModifies THEN BlockOf(pc) = RuntimeBlock
      ELSE pc \in OpModifies /\ BlockOf(pc) = OpBlock
  BY DEF OpModifies, BlockOf
<1>4. acc \in [at : 1..Len(BlockOf(pc)), value : Registers, write : BOOLEAN]
  BY <1>1 DEF Shape
<1> QED
  BY <1>1, <1>2, <1>3, <1>4, DrivenTyped

(* To the next dword of a block, with or without a new value.              *)
LEMMA NextDword ==
  ASSUME NEW n \in Nat, NEW a \in [at : 1..n, value : Registers, write : BOOLEAN], a.at < n,
         NEW v \in Registers
  PROVE  LET b == [a EXCEPT !.at = @ + 1, !.value = v]
             c == [a EXCEPT !.at = @ + 1] IN
         /\ b \in [at : 1..n, value : Registers, write : BOOLEAN]
         /\ b.at = a.at + 1 /\ b.value = v /\ b.write = a.write
         /\ c \in [at : 1..n, value : Registers, write : BOOLEAN]
         /\ c.at = a.at + 1 /\ c.value = a.value /\ c.write = a.write
<1> DEFINE k == a.at + 1
<1>1. k \in 1..n
  <2>1. a.at \in 1..n
    OBVIOUS
  <2> QED
    BY <2>1
<1> DEFINE b == [a EXCEPT !.at = k, !.value = v]
           c == [a EXCEPT !.at = k]
<1> HIDE DEF k
<1>2. /\ b \in [at : 1..n, value : Registers, write : BOOLEAN]
      /\ b.at = k /\ b.value = v /\ b.write = a.write
  BY <1>1
<1>3. /\ c \in [at : 1..n, value : Registers, write : BOOLEAN]
      /\ c.at = k /\ c.value = a.value /\ c.write = a.write
  BY <1>1
<1> QED
  BY <1>2, <1>3, Zenon DEF k

(* The value in hand after one read of an operational register, and after  *)
(* one of a runtime register.                                              *)
LEMMA OpDwordRead ==
  ASSUME DevicesInv, ReadDword, pc \in OpModifies
  PROVE  LET r == regs[Driven] IN
         \E v \in Registers :
           /\ IF acc.at < 6
              THEN /\ acc' \in [at : 1..6, value : Registers, write : BOOLEAN]
                   /\ acc'.at = acc.at + 1 /\ acc'.value = v /\ ~acc'.write
              ELSE acc' = [at |-> 1, value |-> Closure(pc, v), write |-> TRUE]
           /\ v.usb_cmd = IF acc.at = 1 THEN r.usb_cmd ELSE acc.value.usb_cmd
           /\ v.usb_status = IF acc.at = 2 THEN r.usb_status ELSE acc.value.usb_status
           /\ machine[Driven].xhci.crcrReadable =>
                v.crcr = IF acc.at = 4 THEN r.crcr ELSE acc.value.crcr
           /\ v.dcbaap = IF acc.at = 5 THEN r.dcbaap ELSE acc.value.dcbaap
           /\ v.config = IF acc.at = 6 THEN r.config ELSE acc.value.config
           /\ v.notification_enable =
               IF acc.at = 3 THEN r.notification_enable ELSE acc.value.notification_enable
<1> DEFINE r == regs[Driven]
           d == OpBlock[acc.at]
           x == ReadOf(Driven, d)
           v == [acc.value EXCEPT ![d] = x]
<1>1. pc \in Modifies /\ pc \notin RuntimeModifies
  BY DEF OpModifies
<1>2. /\ r \in Registers /\ Reach(PageOf(BlockOf(pc))) \subseteq {Driven}
      /\ BlockOf(pc) = OpBlock /\ Len(OpBlock) = 6 /\ ~acc.write
      /\ acc \in [at : 1..6, value : Registers, write : BOOLEAN]
      /\ machine[Driven].xhci.crcrReadable \in BOOLEAN
  BY <1>1, ModifyContext, BlockDwords DEF ReadDword
<1>3. acc' = IF acc.at < 6 THEN [acc EXCEPT !.at = @ + 1, !.value = v]
             ELSE [at |-> 1, value |-> Closure(pc, v), write |-> TRUE]
  BY <1>2 DEF ReadDword
<1>5. /\ x = IF d = "crcr" /\ ~machine[Driven].xhci.crcrReadable THEN NoBlock ELSE r[d]
      /\ NoBlock \in Blocks
  BY DEF ReadOf, Blocks
<1>6. \/ acc.at = 1 /\ d = "usb_cmd"
      \/ acc.at = 2 /\ d = "usb_status"
      \/ acc.at = 3 /\ d = "notification_enable"
      \/ acc.at = 4 /\ d = "crcr"
      \/ acc.at = 5 /\ d = "dcbaap"
      \/ acc.at = 6 /\ d = "config"
  BY <1>2, BlockDwords
<1> HIDE DEF d, x
<1>7. v \in Registers
  BY <1>2, <1>5, <1>6 DEF Registers
<1>8. /\ v.usb_cmd = IF acc.at = 1 THEN r.usb_cmd ELSE acc.value.usb_cmd
      /\ v.usb_status = IF acc.at = 2 THEN r.usb_status ELSE acc.value.usb_status
      /\ machine[Driven].xhci.crcrReadable =>
           v.crcr = IF acc.at = 4 THEN r.crcr ELSE acc.value.crcr
      /\ v.dcbaap = IF acc.at = 5 THEN r.dcbaap ELSE acc.value.dcbaap
      /\ v.config = IF acc.at = 6 THEN r.config ELSE acc.value.config
      /\ v.notification_enable =
          IF acc.at = 3 THEN r.notification_enable ELSE acc.value.notification_enable
  BY <1>2, <1>5, <1>6 DEF Registers
<1> HIDE DEF v
<1>9. ASSUME acc.at < 6
      PROVE
        /\ [acc EXCEPT !.at = @ + 1, !.value = v]
             \in [at : 1..6, value : Registers, write : BOOLEAN]
        /\ [acc EXCEPT !.at = @ + 1, !.value = v].at = acc.at + 1
        /\ [acc EXCEPT !.at = @ + 1, !.value = v].value = v
        /\ ~[acc EXCEPT !.at = @ + 1, !.value = v].write
  <2>1. 6 \in Nat
    OBVIOUS
  <2>2. acc \in [at : 1..6, value : Registers, write : BOOLEAN]
    BY <1>2
  <2> QED
    BY <1>2, <1>7, <1>9, <2>1, <2>2, NextDword, Zenon
<1> QED
  BY <1>3, <1>7, <1>8, <1>9

LEMMA RuntimeDwordRead ==
  ASSUME DevicesInv, ReadDword, pc \in RuntimeModifies
  PROVE  LET r == regs[Driven] IN
         \E v \in Registers :
           /\ IF acc.at < 4
              THEN /\ acc' \in [at : 1..4, value : Registers, write : BOOLEAN]
                   /\ acc'.at = acc.at + 1 /\ acc'.value = v /\ ~acc'.write
              ELSE acc' = [at |-> 1, value |-> Closure(pc, v), write |-> TRUE]
           /\ v.iman = IF acc.at = 1 THEN r.iman ELSE acc.value.iman
<1> DEFINE r == regs[Driven]
           d == RuntimeBlock[acc.at]
           x == ReadOf(Driven, d)
           v == [acc.value EXCEPT ![d] = x]
<1>1. pc \in Modifies
  BY DEF Modifies
<1>2. /\ r \in Registers /\ Reach(PageOf(BlockOf(pc))) \subseteq {Driven}
      /\ BlockOf(pc) = RuntimeBlock /\ Len(RuntimeBlock) = 4 /\ ~acc.write
      /\ acc \in [at : 1..4, value : Registers, write : BOOLEAN]
  BY <1>1, ModifyContext, BlockDwords DEF ReadDword
<1>3. acc' = IF acc.at < 4 THEN [acc EXCEPT !.at = @ + 1, !.value = v]
             ELSE [at |-> 1, value |-> Closure(pc, v), write |-> TRUE]
  BY <1>2 DEF ReadDword
<1>5. \/ acc.at = 1 /\ d = "iman"
      \/ acc.at = 2 /\ d = "erst_size"
      \/ acc.at = 3 /\ d = "erstba"
      \/ acc.at = 4 /\ d = "erdp"
  BY <1>2, BlockDwords
<1>6. x = r[d]
  BY <1>5 DEF ReadOf
<1> HIDE DEF d, x
<1>7. v \in Registers
  BY <1>2, <1>5, <1>6 DEF Registers
<1>8. v.iman = IF acc.at = 1 THEN r.iman ELSE acc.value.iman
  BY <1>2, <1>5, <1>6 DEF Registers
<1> HIDE DEF v
<1>9. ASSUME acc.at < 4
      PROVE
        /\ [acc EXCEPT !.at = @ + 1, !.value = v]
             \in [at : 1..4, value : Registers, write : BOOLEAN]
        /\ [acc EXCEPT !.at = @ + 1, !.value = v].at = acc.at + 1
        /\ [acc EXCEPT !.at = @ + 1, !.value = v].value = v
        /\ ~[acc EXCEPT !.at = @ + 1, !.value = v].write
  <2>1. 4 \in Nat
    OBVIOUS
  <2>2. acc \in [at : 1..4, value : Registers, write : BOOLEAN]
    BY <1>2
  <2> QED
    BY <1>2, <1>7, <1>9, <2>1, <2>2, NextDword, Zenon
<1> QED
  BY <1>3, <1>7, <1>8, <1>9

(* What the closures make of a value (controller.rs:68-158, 159-169,       *)
(* ring.rs:150-157).                                                       *)
LEMMA ClosureTyped ==
  ASSUME DevicesInv, pc \in Modifies, NEW v \in Registers
  PROVE  LET w == Closure(pc, v) IN
         /\ w \in Registers
         /\ w.usb_cmd = IF pc = "stop" THEN v.usb_cmd \ {"run"}
                        ELSE IF pc = "reset" THEN v.usb_cmd \cup {"reset"}
                        ELSE IF pc = "start" THEN v.usb_cmd \cup {"run", "int_enable"}
                        ELSE v.usb_cmd
         /\ pc # "ack status" => w.usb_status = v.usb_status
         /\ w.crcr = IF pc = "ring" THEN ctl.commandRing[1] ELSE v.crcr
         /\ w.dcbaap = IF pc = "slots" THEN Dcbaa ELSE v.dcbaap
         /\ w.config = IF pc = "slots" THEN machine[Driven].xhci.slots ELSE v.config
         /\ w.notification_enable = IF pc = "slots" THEN AllNotifications ELSE v.notification_enable
         /\ w.iman = IF pc = "enable" THEN v.iman \cup {"enable"}
                     ELSE IF pc = "ack pending" THEN v.iman \cup {"pending"}
                     ELSE v.iman
         /\ pc = "event ring" =>
              w.erst_size = 1 /\ w.erstba = Table(turn) /\ w.erdp.ptr = Segment(turn)
<1> DEFINE w == Closure(pc, v)
<1>1. /\ turn \in Nat /\ Shape /\ machine[Driven].xhci.slots \in Nat
      /\ ctl.controller[1].loc = Driven
  BY ModifyContext
<1>2. /\ Dcbaa \in Blocks /\ Table(turn) \in Blocks /\ Segment(turn) \in Blocks
  BY <1>1 DEF Dcbaa, Table, Segment, Blocks, BlockUses
<1>3. CASE pc = "stop"
  <2>1. w = [v EXCEPT !.usb_cmd = @ \ {"run"}]
    BY <1>3 DEF Closure
  <2> HIDE DEF w
  <2> QED
    BY <1>3, <2>1 DEF Registers, w
<1>4. CASE pc = "reset"
  <2>1. w = [v EXCEPT !.usb_cmd = @ \cup {"reset"}]
    BY <1>4 DEF Closure
  <2> HIDE DEF w
  <2> QED
    BY <1>4, <2>1 DEF Registers, w
<1>5. CASE pc = "slots"
  <2>1. w = [v EXCEPT !.config = machine[Driven].xhci.slots,
                      !.notification_enable = AllNotifications, !.dcbaap = Dcbaa]
    BY <1>1, <1>5 DEF Closure
  <2> HIDE DEF w
  <2> QED
    BY <1>1, <1>2, <1>5, <2>1 DEF Registers, w
<1>6. CASE pc = "ring"
  <2>1. w = [v EXCEPT !.crcr = ctl.commandRing[1]]
    BY <1>6 DEF Closure
  <2>2. ctl.commandRing[1] \in Blocks
    <3>1. ctl.commandRing \in Seq(Blocks)
      BY <1>1 DEF Shape
    <3>2. pc \in BehindCommandRing \ Started
      BY <1>6 DEF Setup, BehindCommandRing, BehindSlots, BehindContexts,
        BehindRing, BehindEnable, BehindEventMemory, BehindEventRing, BehindEventCell, Started
    <3>3. ctl.commandRing # <<>>
      BY <1>1, <3>2 DEF Shape, None
    <3> QED
      BY <3>1, <3>3
  <2> HIDE DEF w
  <2> QED
    BY <1>6, <2>1, <2>2 DEF Registers, w
<1>7. CASE pc = "enable"
  <2>1. w = [v EXCEPT !.iman = @ \cup {"enable"}]
    BY <1>7 DEF Closure
  <2> HIDE DEF w
  <2> QED
    BY <1>7, <2>1 DEF Registers, w
<1>8. CASE pc = "ack status"
  <2>1. w = [v EXCEPT !.usb_status = @ \cup {"event_interrupt"}]
    BY <1>8 DEF Closure
  <2> HIDE DEF w
  <2> QED
    BY <1>8, <2>1 DEF Registers, StatusW1C, w
<1>9. CASE pc = "ack pending"
  <2>1. w = [v EXCEPT !.iman = @ \cup {"pending"}]
    BY <1>9 DEF Closure
  <2> HIDE DEF w
  <2> QED
    BY <1>9, <2>1 DEF Registers, w
<1>10. CASE pc = "event ring"
  <2>1. w = [v EXCEPT !.erst_size = 1, !.erdp = [ptr |-> Segment(turn), busy |-> TRUE],
                      !.erstba = Table(turn)]
    BY <1>10 DEF Closure
  <2> DEFINE e == [ptr |-> Segment(turn), busy |-> TRUE]
  <2>2. e \in [ptr : Blocks, busy : BOOLEAN] /\ e.ptr = Segment(turn)
    BY <1>2
  <2> HIDE DEF w, e
  <2>3. w = [v EXCEPT !.erst_size = 1, !.erdp = e, !.erstba = Table(turn)]
    BY <2>1 DEF e
  <2>4. w \in Registers
    BY <1>2, <2>2, <2>3 DEF Registers
  <2>5. /\ w.usb_cmd = v.usb_cmd /\ w.usb_status = v.usb_status /\ w.crcr = v.crcr
        /\ w.dcbaap = v.dcbaap /\ w.config = v.config /\ w.iman = v.iman
        /\ w.notification_enable = v.notification_enable
        /\ w.erst_size = 1 /\ w.erstba = Table(turn) /\ w.erdp = e
    BY <2>3 DEF Registers
  <2> QED
    BY <1>10, <2>2, <2>4, <2>5 DEF w
<1>11. CASE pc = "start"
  <2>1. w = [v EXCEPT !.usb_cmd = @ \cup {"run", "int_enable"}]
    BY <1>11 DEF Closure
  <2> HIDE DEF w
  <2> QED
    BY <1>11, <2>1 DEF Registers, w
<1> QED
  BY <1>3, <1>4, <1>5, <1>6, <1>7, <1>8, <1>9, <1>10, <1>11 DEF Modifies, RuntimeModifies

(* What the registers show while a modify reads them.                      *)
LEMMA WhileReading ==
  ASSUME DevicesInv, pc \in OpModifies, ~acc.write
  PROVE  LET r == regs[Driven] IN
         /\ "reset" \notin r.usb_cmd
         /\ pc # "stop" => "run" \notin r.usb_cmd
         /\ pc = "start" => "event_interrupt" \notin r.usb_status
<1>1. turn > 0 /\ Halted
  BY ModifyContext DEF DevicesInv, OpModifies
<1>2. \A m : ~Begun(m)
  BY DEF Begun
<1>3. pc \in {"stop", "reset", "slots", "ring", "ack status", "start"}
  BY DEF OpModifies, Modifies, RuntimeModifies
<1>4. pc = "stop" \/ pc \in {"reset", "resetting", "start"} \cup Setup
  BY <1>3 DEF Setup, BehindCommandRing, BehindSlots, BehindContexts,
    BehindRing, BehindEnable, BehindEventMemory, BehindEventRing, BehindEventCell, Started
<1> QED
  BY <1>1, <1>2, <1>3, <1>4 DEF Halted

(* A read of an operational register keeps what is known of the value.     *)
LEMMA OpValueRead ==
  ASSUME DevicesInv, ReadDword, UNCHANGED pciVars, pc \in OpModifies
  PROVE  /\ acc' \in [at : 1..6, value : Registers, write : BOOLEAN]
         /\ acc'.write => acc'.at = 1
         /\ OpValue' /\ RuntimeValue'
<1> DEFINE r == regs[Driven]
           x == machine[Driven].xhci
           known(v) ==
             /\ "reset" \notin v.usb_cmd
             /\ pc # "stop" => "run" \notin v.usb_cmd
             /\ acc.at >= 2 /\ pc = "start" => "event_interrupt" \notin v.usb_status
             /\ acc.at >= 4 /\ x.crcrReadable => v.crcr = r.crcr
             /\ acc.at >= 5 => v.dcbaap = r.dcbaap
             /\ acc.at >= 6 => v.config = r.config
             /\ acc.at >= 3 => v.notification_enable = r.notification_enable
<1>1. pc \in Modifies /\ pc \notin RuntimeModifies
  BY DEF OpModifies
<1>2. /\ acc \in [at : 1..6, value : Registers, write : BOOLEAN] /\ ~acc.write
      /\ OpValue /\ UNCHANGED <<regs, ctl, pc, machine, turn>>
  BY <1>1, ModifyContext, BlockDwords DEF ReadDword, DevicesInv, pciVars
<1>3. PICK v \in Registers :
        /\ IF acc.at < 6
           THEN /\ acc' \in [at : 1..6, value : Registers, write : BOOLEAN]
                /\ acc'.at = acc.at + 1 /\ acc'.value = v /\ ~acc'.write
           ELSE acc' = [at |-> 1, value |-> Closure(pc, v), write |-> TRUE]
        /\ v.usb_cmd = IF acc.at = 1 THEN r.usb_cmd ELSE acc.value.usb_cmd
        /\ v.usb_status = IF acc.at = 2 THEN r.usb_status ELSE acc.value.usb_status
        /\ x.crcrReadable => v.crcr = IF acc.at = 4 THEN r.crcr ELSE acc.value.crcr
        /\ v.dcbaap = IF acc.at = 5 THEN r.dcbaap ELSE acc.value.dcbaap
        /\ v.config = IF acc.at = 6 THEN r.config ELSE acc.value.config
        /\ v.notification_enable =
            IF acc.at = 3 THEN r.notification_enable ELSE acc.value.notification_enable
  BY OpDwordRead
<1>4. known(v)
  <2>1. /\ acc.at # 1 => "reset" \notin acc.value.usb_cmd
        /\ acc.at # 1 /\ pc # "stop" => "run" \notin acc.value.usb_cmd
        /\ acc.at > 2 /\ pc = "start" => "event_interrupt" \notin acc.value.usb_status
        /\ acc.at > 3 => acc.value.notification_enable = r.notification_enable
        /\ acc.at > 4 /\ x.crcrReadable => acc.value.crcr = r.crcr
        /\ acc.at > 5 => acc.value.dcbaap = r.dcbaap
    BY <1>2 DEF OpValue, Have
  <2> HIDE DEF r, x
  <2>2. acc.at \in 1..6
    BY <1>2
  <2> QED
    BY <1>3, <2>1, <2>2, WhileReading, <1>2 DEF r
<1>5. Driven' = Driven /\ RuntimeValue'
  BY <1>1, <1>2 DEF Driven, RuntimeValue
<1>6. CASE acc.at < 6
  <2>1. /\ acc' \in [at : 1..6, value : Registers, write : BOOLEAN]
        /\ acc'.at = acc.at + 1 /\ acc'.value = v /\ ~acc'.write
    BY <1>3, <1>6
  <2>2. /\ Have(2)' => acc.at >= 2
        /\ Have(3)' => acc.at >= 3
        /\ Have(4)' => acc.at >= 4
        /\ Have(5)' => acc.at >= 5
        /\ Have(6)' => acc.at >= 6
    BY <1>2, <2>1 DEF Have
  <2>3. /\ "reset" \notin v.usb_cmd
        /\ pc # "stop" => "run" \notin v.usb_cmd
        /\ Have(2)' /\ pc = "start" => "event_interrupt" \notin v.usb_status
        /\ Have(4)' /\ x.crcrReadable => v.crcr = r.crcr
        /\ Have(5)' => v.dcbaap = r.dcbaap
        /\ Have(6)' => v.config = r.config
        /\ Have(3)' => v.notification_enable = r.notification_enable
    BY <1>4, <2>2
  <2>4. OpValue'
    BY <1>2, <1>5, <2>1, <2>3 DEF OpValue
  <2> QED
    BY <1>5, <2>1, <2>4
<1>7. CASE ~(acc.at < 6)
  <2> DEFINE w == Closure(pc, v)
  <2>1. acc' = [at |-> 1, value |-> w, write |-> TRUE] /\ acc.at = 6
    BY <1>2, <1>3, <1>7
  <2>2. /\ w \in Registers
        /\ w.usb_cmd = IF pc = "stop" THEN v.usb_cmd \ {"run"}
                       ELSE IF pc = "reset" THEN v.usb_cmd \cup {"reset"}
                       ELSE IF pc = "start" THEN v.usb_cmd \cup {"run", "int_enable"}
                       ELSE v.usb_cmd
        /\ pc # "ack status" => w.usb_status = v.usb_status
        /\ w.crcr = IF pc = "ring" THEN ctl.commandRing[1] ELSE v.crcr
        /\ w.dcbaap = IF pc = "slots" THEN Dcbaa ELSE v.dcbaap
        /\ w.config = IF pc = "slots" THEN x.slots ELSE v.config
        /\ w.notification_enable = IF pc = "slots" THEN AllNotifications ELSE v.notification_enable
    BY <1>1, ClosureTyped
  <2> HIDE DEF w
  <2>3. /\ acc' \in [at : 1..6, value : Registers, write : BOOLEAN]
        /\ acc'.at = 1 /\ acc'.value = w /\ acc'.write
    <3>1. 1 \in 1..6
      OBVIOUS
    <3> QED
      BY <2>1, <2>2, <3>1
  <2>4. /\ "reset" \notin v.usb_cmd
        /\ pc # "stop" => "run" \notin v.usb_cmd
        /\ pc = "start" => "event_interrupt" \notin v.usb_status
        /\ x.crcrReadable => v.crcr = r.crcr
        /\ v.dcbaap = r.dcbaap /\ v.config = r.config
        /\ v.notification_enable = r.notification_enable
    BY <1>4, <2>1
  <2> HIDE DEF r
  <2>5. /\ "reset" \in w.usb_cmd <=> pc = "reset"
        /\ pc # "start" => "run" \notin w.usb_cmd
        /\ pc = "start" => {"run", "int_enable"} \subseteq w.usb_cmd
        /\ pc = "start" => "event_interrupt" \notin w.usb_status
    <3>1. CASE pc = "stop"
      BY <2>2, <2>4, <3>1
    <3>2. CASE pc = "reset"
      BY <2>2, <2>4, <3>2
    <3>3. CASE pc = "start"
      BY <2>2, <2>4, <3>3
    <3>4. CASE pc \notin {"stop", "reset", "start"}
      BY <2>2, <2>4, <3>4
    <3> QED
      BY <3>1, <3>2, <3>3, <3>4
  <2>6. /\ pc = "slots" => w.dcbaap = Dcbaa /\ w.config = x.slots
        /\ pc = "slots" => w.notification_enable = AllNotifications
        /\ pc = "ring" => w.crcr = ctl.commandRing[1]
        /\ pc # "ring" /\ x.crcrReadable => w.crcr = r.crcr
        /\ pc # "slots" => w.dcbaap = r.dcbaap /\ w.config = r.config
        /\ pc # "slots" => w.notification_enable = r.notification_enable
    BY <2>2, <2>4
  <2>7. OpValue'
    BY <1>2, <1>5, <2>3, <2>5, <2>6 DEF OpValue, r
  <2> QED
    BY <1>5, <2>3, <2>7
<1> QED
  BY <1>6, <1>7

(* A read of a runtime register likewise.                                  *)
LEMMA RuntimeValueRead ==
  ASSUME DevicesInv, ReadDword, UNCHANGED pciVars, pc \in RuntimeModifies
  PROVE  /\ acc' \in [at : 1..4, value : Registers, write : BOOLEAN]
         /\ acc'.write => acc'.at = 1
         /\ OpValue' /\ RuntimeValue'
<1> DEFINE r == regs[Driven]
<1>1. pc \in Modifies /\ pc \notin OpModifies
  BY DEF Modifies, OpModifies
<1>2. /\ acc \in [at : 1..4, value : Registers, write : BOOLEAN] /\ ~acc.write
      /\ RuntimeValue /\ SetUp /\ turn \in Nat
      /\ UNCHANGED <<regs, ctl, pc, machine, turn>>
  BY <1>1, ModifyContext, BlockDwords DEF ReadDword, DevicesInv, pciVars
<1>3. PICK v \in Registers :
        /\ IF acc.at < 4
           THEN /\ acc' \in [at : 1..4, value : Registers, write : BOOLEAN]
                /\ acc'.at = acc.at + 1 /\ acc'.value = v /\ ~acc'.write
           ELSE acc' = [at |-> 1, value |-> Closure(pc, v), write |-> TRUE]
        /\ v.iman = IF acc.at = 1 THEN r.iman ELSE acc.value.iman
  BY RuntimeDwordRead
<1>4. turn = 1 /\ pc # "enable" => "enable" \in v.iman
  <2>1. turn = 1 /\ pc # "enable" /\ acc.at # 1 => "enable" \in acc.value.iman
    <3>1. acc.at # 1 => Have(1)
      BY <1>2 DEF Have
    <3> QED
      BY <1>2, <3>1 DEF RuntimeValue
  <2>2. pc # "enable" => pc \in BehindEnable
    BY DEF RuntimeModifies, Setup, BehindCommandRing, BehindSlots, BehindContexts,
      BehindRing, BehindEnable, BehindEventMemory, BehindEventRing, BehindEventCell, Started
  <2>3. turn = 1 /\ pc # "enable" => "enable" \in r.iman
    BY <1>2, <2>2 DEF SetUp
  <2> HIDE DEF r
  <2> QED
    BY <1>3, <2>1, <2>3
<1>5. OpValue'
  BY <1>1, <1>2 DEF OpValue
<1>6. CASE acc.at < 4
  <2>1. /\ acc' \in [at : 1..4, value : Registers, write : BOOLEAN]
        /\ acc'.at = acc.at + 1 /\ acc'.value = v /\ ~acc'.write
    BY <1>3, <1>6
  <2>2. RuntimeValue'
    BY <1>2, <1>4, <2>1 DEF RuntimeValue
  <2> QED
    BY <1>5, <2>1, <2>2
<1>7. CASE ~(acc.at < 4)
  <2> DEFINE w == Closure(pc, v)
  <2>1. acc' = [at |-> 1, value |-> w, write |-> TRUE]
    BY <1>3, <1>7
  <2>2. /\ w \in Registers
        /\ w.iman = IF pc = "enable" THEN v.iman \cup {"enable"}
                    ELSE IF pc = "ack pending" THEN v.iman \cup {"pending"}
                    ELSE v.iman
        /\ pc = "event ring" =>
             w.erst_size = 1 /\ w.erstba = Table(turn) /\ w.erdp.ptr = Segment(turn)
    BY <1>1, ClosureTyped
  <2> HIDE DEF w
  <2>3. /\ acc' \in [at : 1..4, value : Registers, write : BOOLEAN]
        /\ acc'.at = 1 /\ acc'.value = w /\ acc'.write
    <3>1. 1 \in 1..4
      OBVIOUS
    <3> QED
      BY <2>1, <2>2, <3>1
  <2>4. turn = 1 => "enable" \in w.iman
    BY <1>4, <2>2
  <2>5. RuntimeValue'
    BY <1>2, <2>2, <2>3, <2>4 DEF RuntimeValue
  <2> QED
    BY <1>5, <2>3, <2>5
<1> QED
  BY <1>6, <1>7

(* A read keeps the invariant.                                             *)
LEMMA ReadDwordStep ==
  ASSUME DevicesInv, ReadDword, UNCHANGED <<pciVars, mmioVars>>
  PROVE  DevicesInv'
<1>1. /\ pc \in Modifies /\ ~acc.write
      /\ UNCHANGED <<regs, fresh, ctl, pc, dma, turn, machine, command>>
  BY DEF ReadDword, pciVars
<1>2. turn > 0 /\ Shape /\ Found /\ DrivenOK /\ OthersUntouched
  BY <1>1, ModifyContext DEF DevicesInv
<1>3. /\ acc' \in [at : 1..Len(BlockOf(pc)), value : Registers, write : BOOLEAN]
      /\ acc'.write => acc'.at = 1
      /\ OpValue' /\ RuntimeValue'
  <2>1. CASE pc \in OpModifies
    <3>1. BlockOf(pc) = OpBlock
      BY <2>1 DEF BlockOf, OpModifies
    <3> QED
      BY <2>1, <3>1, OpValueRead, BlockDwords
  <2>2. CASE pc \in RuntimeModifies
    <3>1. BlockOf(pc) = RuntimeBlock
      BY <2>2 DEF BlockOf
    <3> QED
      BY <2>2, <3>1, RuntimeValueRead, BlockDwords
  <2> QED
    BY <1>1, <2>1, <2>2 DEF OpModifies
<1>4. Stays
  BY <1>1 DEF Stays
<1>5. Found' /\ DrivenOK' /\ Driven' = Driven /\ Controllers' = Controllers
  BY <1>2, <1>4, StaysFound
<1>6. \A m : ~Begun(m) /\ ~Begun(m)'
  BY <1>1, <1>3 DEF Begun
<1>7. Shape'
  BY <1>1, <1>2, <1>3, <1>5 DEF Shape
<1>8. OthersUntouched'
  BY <1>1, <1>2, <1>5 DEF OthersUntouched
<1>9. Halted'
  BY <1>1, <1>5, <1>6 DEF DevicesInv, Halted
<1>10. Made'
  BY <1>1, <1>5 DEF DevicesInv, Made
<1>11. SetUp'
  BY <1>1, <1>5, <1>6 DEF DevicesInv, SetUp
<1> QED
  BY <1>3, <1>5, <1>7, <1>8, <1>9, <1>10, <1>11 DEF DevicesInv

(* What one write of an operational register does to the controller's      *)
(* registers, unless it is lost in a reset; and one of a runtime register. *)
LEMMA OpDwordWritten ==
  ASSUME DevicesInv, WriteDword, pc \in OpModifies
  PROVE  LET r == regs[Driven]
             s == regs'[Driven]
             v == acc.value IN
         /\ regs' \in [Controllers -> Registers]
         /\ \A e \in Controllers \ {Driven} : regs'[e] = regs[e]
         /\ \/ s = r /\ "reset" \in r.usb_cmd
            \/ /\ s.usb_cmd = IF acc.at = 1 THEN v.usb_cmd \cup (r.usb_cmd \cap {"reset"})
                              ELSE r.usb_cmd
               /\ acc.at = 1 => s.usb_status \in {r.usb_status, r.usb_status \cup {"not_ready"}}
               /\ acc.at # 1 => s.usb_status = IF acc.at = 2
                                               THEN r.usb_status \ (v.usb_status \cap StatusW1C)
                                               ELSE r.usb_status
               /\ s.crcr = IF acc.at = 4 THEN v.crcr ELSE r.crcr
               /\ s.dcbaap = IF acc.at = 5 THEN v.dcbaap ELSE r.dcbaap
               /\ s.config = IF acc.at = 6 THEN v.config ELSE r.config
               /\ s.notification_enable =
                   IF acc.at = 3 THEN v.notification_enable ELSE r.notification_enable
               /\ s.iman = r.iman /\ s.erst_size = r.erst_size
               /\ s.erstba = r.erstba /\ s.erdp = r.erdp
<1> DEFINE r == regs[Driven]
           v == acc.value
           d == OpBlock[acc.at]
           q == WriteOf(r, d, v[d])
<1>1. pc \in Modifies /\ pc \notin RuntimeModifies
  BY DEF OpModifies
<1>2. /\ r \in Registers /\ Reach(PageOf(BlockOf(pc))) \subseteq {Driven}
      /\ BlockOf(pc) = OpBlock /\ Len(OpBlock) = 6 /\ Driven \in Controllers
      /\ acc \in [at : 1..6, value : Registers, write : BOOLEAN]
      /\ regs \in [Controllers -> Registers]
  BY <1>1, ModifyContext, BlockDwords DEF Shape
<1>3. \/ regs' = [regs EXCEPT ![Driven] = q]
      \/ "reset" \in r.usb_cmd /\ regs' = regs
  BY <1>2 DEF WriteDword
<1>4. v \in Registers /\ acc.at \in 1..6
  BY <1>2
<1>5. /\ q \in Registers
      /\ q.usb_cmd = IF acc.at = 1 THEN v.usb_cmd \cup (r.usb_cmd \cap {"reset"})
                     ELSE r.usb_cmd
      /\ acc.at = 1 => q.usb_status \in {r.usb_status, r.usb_status \cup {"not_ready"}}
      /\ acc.at # 1 => q.usb_status = IF acc.at = 2
                                      THEN r.usb_status \ (v.usb_status \cap StatusW1C)
                                      ELSE r.usb_status
      /\ q.crcr = IF acc.at = 4 THEN v.crcr ELSE r.crcr
      /\ q.dcbaap = IF acc.at = 5 THEN v.dcbaap ELSE r.dcbaap
      /\ q.config = IF acc.at = 6 THEN v.config ELSE r.config
      /\ q.notification_enable =
          IF acc.at = 3 THEN v.notification_enable ELSE r.notification_enable
      /\ q.iman = r.iman /\ q.erst_size = r.erst_size
      /\ q.erstba = r.erstba /\ q.erdp = r.erdp
  <2> HIDE DEF v
  <2>1. CASE acc.at = 1
    <3> DEFINE st == IF "reset" \in v.usb_cmd THEN r.usb_status \cup {"not_ready"}
                     ELSE r.usb_status
               cmd == v.usb_cmd \cup (r.usb_cmd \cap {"reset"})
    <3>1. q = [r EXCEPT !.usb_cmd = cmd, !.usb_status = st]
      BY <2>1, BlockDwords DEF WriteOf
    <3>2. /\ st \in SUBSET (StatusW1C \cup {"halted", "not_ready"})
          /\ st \in {r.usb_status, r.usb_status \cup {"not_ready"}}
      BY <1>2 DEF Registers
    <3>3. cmd \in SUBSET {"run", "int_enable", "reset"}
      BY <1>2, <1>4 DEF Registers
    <3> HIDE DEF q, st, cmd
    <3>4. /\ q \in Registers /\ q.usb_cmd = cmd /\ q.usb_status = st
          /\ q.crcr = r.crcr /\ q.dcbaap = r.dcbaap /\ q.config = r.config
          /\ q.notification_enable = r.notification_enable
          /\ q.iman = r.iman /\ q.erst_size = r.erst_size
          /\ q.erstba = r.erstba /\ q.erdp = r.erdp
      BY <1>2, <3>1, <3>2, <3>3 DEF Registers
    <3> QED
      BY <2>1, <3>2, <3>4 DEF cmd
  <2>2. CASE acc.at = 2
    <3> DEFINE st == r.usb_status \ (v.usb_status \cap StatusW1C)
    <3>1. q = [r EXCEPT !.usb_status = st]
      BY <2>2, BlockDwords DEF WriteOf
    <3>2. st \in SUBSET (StatusW1C \cup {"halted", "not_ready"})
      BY <1>2 DEF Registers
    <3> HIDE DEF q, st
    <3>3. q \in Registers /\ q.usb_status = st
      BY <1>2, <3>1, <3>2 DEF Registers
    <3> QED
      BY <1>2, <2>2, <3>1, <3>3 DEF Registers, st
  <2>3. CASE acc.at = 3
    <3>1. q = [r EXCEPT !.notification_enable = v.notification_enable]
      BY <2>3, BlockDwords DEF WriteOf
    <3> HIDE DEF q
    <3> QED
      BY <1>2, <1>4, <2>3, <3>1 DEF Registers
  <2>4. CASE acc.at = 4
    <3>1. q = [r EXCEPT !.crcr = v.crcr]
      BY <2>4, BlockDwords DEF WriteOf
    <3> HIDE DEF q
    <3> QED
      BY <1>2, <1>4, <2>4, <3>1 DEF Registers
  <2>5. CASE acc.at = 5
    <3>1. q = [r EXCEPT !.dcbaap = v.dcbaap]
      BY <2>5, BlockDwords DEF WriteOf
    <3> HIDE DEF q
    <3> QED
      BY <1>2, <1>4, <2>5, <3>1 DEF Registers
  <2>6. CASE acc.at = 6
    <3>1. q = [r EXCEPT !.config = v.config]
      BY <2>6, BlockDwords DEF WriteOf
    <3> HIDE DEF q
    <3> QED
      BY <1>2, <1>4, <2>6, <3>1 DEF Registers
  <2> QED
    BY <1>4, <2>1, <2>2, <2>3, <2>4, <2>5, <2>6
<1> HIDE DEF q, v
<1>6. CASE regs' = [regs EXCEPT ![Driven] = q]
  <2>1. /\ regs'[Driven] = q /\ regs' \in [Controllers -> Registers]
        /\ \A e \in Controllers \ {Driven} : regs'[e] = regs[e]
    BY <1>2, <1>5, <1>6
  <2> QED
    BY <1>5, <2>1 DEF v
<1>7. CASE "reset" \in r.usb_cmd /\ regs' = regs
  BY <1>2, <1>7
<1> QED
  BY <1>3, <1>6, <1>7

LEMMA RuntimeDwordWritten ==
  ASSUME DevicesInv, WriteDword, pc \in RuntimeModifies
  PROVE  LET r == regs[Driven]
             s == regs'[Driven]
             v == acc.value IN
         /\ regs' \in [Controllers -> Registers]
         /\ \A e \in Controllers \ {Driven} : regs'[e] = regs[e]
         /\ \/ s = r /\ "reset" \in r.usb_cmd
            \/ /\ acc.at = 1 => ("enable" \in s.iman <=> "enable" \in v.iman)
               /\ acc.at # 1 => s.iman = r.iman
               /\ s.erst_size = IF acc.at = 2 THEN v.erst_size ELSE r.erst_size
               /\ s.erstba = IF acc.at = 3 THEN v.erstba ELSE r.erstba
               /\ s.erdp.ptr = IF acc.at = 4 THEN v.erdp.ptr ELSE r.erdp.ptr
               /\ s.usb_cmd = r.usb_cmd /\ s.usb_status = r.usb_status
               /\ s.crcr = r.crcr /\ s.dcbaap = r.dcbaap /\ s.config = r.config
               /\ s.notification_enable = r.notification_enable
<1> DEFINE r == regs[Driven]
           v == acc.value
           d == RuntimeBlock[acc.at]
           q == WriteOf(r, d, v[d])
<1>1. pc \in Modifies
  BY DEF Modifies
<1>2. /\ r \in Registers /\ Reach(PageOf(BlockOf(pc))) \subseteq {Driven}
      /\ BlockOf(pc) = RuntimeBlock /\ Len(RuntimeBlock) = 4 /\ Driven \in Controllers
      /\ acc \in [at : 1..4, value : Registers, write : BOOLEAN]
      /\ regs \in [Controllers -> Registers]
  BY <1>1, ModifyContext, BlockDwords DEF Shape
<1>3. \/ regs' = [regs EXCEPT ![Driven] = q]
      \/ "reset" \in r.usb_cmd /\ regs' = regs
  BY <1>2 DEF WriteDword
<1>4. v \in Registers /\ acc.at \in 1..4
  BY <1>2
<1>5. /\ q \in Registers
      /\ acc.at = 1 => ("enable" \in q.iman <=> "enable" \in v.iman)
      /\ acc.at # 1 => q.iman = r.iman
      /\ q.erst_size = IF acc.at = 2 THEN v.erst_size ELSE r.erst_size
      /\ q.erstba = IF acc.at = 3 THEN v.erstba ELSE r.erstba
      /\ q.erdp.ptr = IF acc.at = 4 THEN v.erdp.ptr ELSE r.erdp.ptr
      /\ q.usb_cmd = r.usb_cmd /\ q.usb_status = r.usb_status
      /\ q.crcr = r.crcr /\ q.dcbaap = r.dcbaap /\ q.config = r.config
      /\ q.notification_enable = r.notification_enable
  <2> HIDE DEF v
  <2>1. CASE acc.at = 1
    <3> DEFINE im == (v.iman \cap {"enable"}) \cup ((r.iman \ v.iman) \cap {"pending"})
    <3>1. q = [r EXCEPT !.iman = im]
      BY <2>1, BlockDwords DEF WriteOf
    <3>2. im \in SUBSET {"pending", "enable"} /\ ("enable" \in im <=> "enable" \in v.iman)
      OBVIOUS
    <3> HIDE DEF q, im
    <3> QED
      BY <1>2, <2>1, <3>1, <3>2 DEF Registers
  <2>2. CASE acc.at = 2
    <3>1. q = [r EXCEPT !.erst_size = v.erst_size]
      BY <2>2, BlockDwords DEF WriteOf
    <3> HIDE DEF q
    <3> QED
      BY <1>2, <1>4, <2>2, <3>1 DEF Registers
  <2>3. CASE acc.at = 3
    <3>1. q = [r EXCEPT !.erstba = v.erstba]
      BY <2>3, BlockDwords DEF WriteOf
    <3> HIDE DEF q
    <3> QED
      BY <1>2, <1>4, <2>3, <3>1 DEF Registers
  <2>4. CASE acc.at = 4
    <3> DEFINE e == [ptr |-> v.erdp.ptr, busy |-> r.erdp.busy /\ ~v.erdp.busy]
    <3>1. q = [r EXCEPT !.erdp = e]
      BY <2>4, BlockDwords DEF WriteOf
    <3>2. v.erdp.ptr \in Blocks
      BY <1>4 DEF Registers
    <3>3. e \in [ptr : Blocks, busy : BOOLEAN] /\ e.ptr = v.erdp.ptr
      BY <3>2
    <3> HIDE DEF q, e
    <3> QED
      BY <1>2, <2>4, <3>1, <3>3 DEF Registers
  <2> QED
    BY <1>4, <2>1, <2>2, <2>3, <2>4
<1> HIDE DEF q, v
<1>6. CASE regs' = [regs EXCEPT ![Driven] = q]
  <2>1. /\ regs'[Driven] = q /\ regs' \in [Controllers -> Registers]
        /\ \A e \in Controllers \ {Driven} : regs'[e] = regs[e]
    BY <1>2, <1>5, <1>6
  <2> QED
    BY <1>5, <2>1 DEF v
<1>7. CASE "reset" \in r.usb_cmd /\ regs' = regs
  BY <1>2, <1>7
<1> QED
  BY <1>3, <1>6, <1>7

(* A write of an operational register keeps the invariant.                 *)
LEMMA OpWriteStep ==
  ASSUME DevicesInv, WriteDword, UNCHANGED <<pciVars, mmioVars>>, pc \in OpModifies
  PROVE  DevicesInv'
<1> DEFINE r == regs[Driven]
           s == regs'[Driven]
           v == acc.value
           x == machine[Driven].xhci
           status(p) == "event_interrupt" \in p.usb_status
<1>1. /\ turn > 0 /\ turn \in Nat /\ Shape /\ Found /\ DrivenOK /\ OthersUntouched
      /\ Driven \in Controllers /\ acc.write
      /\ acc \in [at : 1..6, value : Registers, write : BOOLEAN]
      /\ BlockOf(pc) = OpBlock /\ Len(OpBlock) = 6
  <2>1. pc \in Modifies /\ pc \notin RuntimeModifies
    BY DEF OpModifies
  <2> QED
    BY <2>1, ModifyContext, BlockDwords DEF DevicesInv, WriteDword
<1>2. UNCHANGED <<fresh, ctl, dma, turn, machine, command>>
  BY DEF WriteDword, pciVars
<1>3. pc \in {"stop", "reset", "slots", "ring", "ack status", "start"}
  BY DEF OpModifies, Modifies, RuntimeModifies
<1>4. IF acc.at < 6 THEN acc' = [acc EXCEPT !.at = @ + 1] /\ pc' = pc ELSE Goto(After(pc))
  BY <1>1 DEF WriteDword
<1>5. pc # "scan" /\ pc' # "scan"
  BY <1>3, <1>4, AfterEach DEF Goto
<1>6. Found' /\ DrivenOK' /\ Driven' = Driven /\ Controllers' = Controllers
  <2>1. Stays
    BY <1>2, <1>5 DEF Stays
  <2> QED
    BY <1>1, <2>1, StaysFound
<1>7. /\ regs' \in [Controllers -> Registers]
      /\ \A e \in Controllers \ {Driven} : regs'[e] = regs[e]
      /\ \/ s = r /\ "reset" \in r.usb_cmd
         \/ /\ s.usb_cmd = IF acc.at = 1 THEN v.usb_cmd \cup (r.usb_cmd \cap {"reset"})
                           ELSE r.usb_cmd
            /\ acc.at = 1 => s.usb_status \in {r.usb_status, r.usb_status \cup {"not_ready"}}
            /\ acc.at # 1 => s.usb_status = IF acc.at = 2
                                            THEN r.usb_status \ (v.usb_status \cap StatusW1C)
                                            ELSE r.usb_status
            /\ s.crcr = IF acc.at = 4 THEN v.crcr ELSE r.crcr
            /\ s.dcbaap = IF acc.at = 5 THEN v.dcbaap ELSE r.dcbaap
            /\ s.config = IF acc.at = 6 THEN v.config ELSE r.config
            /\ s.notification_enable =
                IF acc.at = 3 THEN v.notification_enable ELSE r.notification_enable
            /\ s.iman = r.iman /\ s.erst_size = r.erst_size
            /\ s.erstba = r.erstba /\ s.erdp = r.erdp
  BY OpDwordWritten
<1>8. OthersUntouched'
  BY <1>1, <1>2, <1>6, <1>7 DEF OthersUntouched
<1>9. acc.at \in 1..6
  BY <1>1
<1>10. /\ acc.at = 1 => ("reset" \in v.usb_cmd <=> pc = "reset")
       /\ acc.at = 1 /\ pc # "start" => "run" \notin v.usb_cmd
       /\ acc.at = 1 /\ pc = "start" => "int_enable" \in v.usb_cmd
       /\ pc = "slots" => v.dcbaap = Dcbaa /\ v.config = x.slots
       /\ pc = "slots" => v.notification_enable = AllNotifications
       /\ pc = "ring" => v.crcr = ctl.commandRing[1]
       /\ pc \notin {"reset", "ring"} /\ acc.at <= 4 /\ x.crcrReadable => v.crcr = r.crcr
       /\ pc \notin {"reset", "slots"} /\ acc.at <= 5 => v.dcbaap = r.dcbaap
       /\ pc \notin {"reset", "slots"} => v.config = r.config
       /\ pc \notin {"reset", "slots"} /\ acc.at <= 3 =>
            v.notification_enable = r.notification_enable
  <2>1. OpValue
    BY DEF DevicesInv
  <2>2. /\ Have(1) <=> acc.at = 1
        /\ Have(3) <=> acc.at <= 3
        /\ Have(4) <=> acc.at <= 4
        /\ Have(5) <=> acc.at <= 5
        /\ Have(6)
    BY <1>1, <1>9 DEF Have
  <2> QED
    BY <1>1, <2>1, <2>2 DEF OpValue
<1>11. /\ pc = "stop" /\ acc.at > 1 => "run" \notin r.usb_cmd
       /\ pc \in {"reset"} \cup Setup => "run" \notin r.usb_cmd /\ "halted" \in r.usb_status
       /\ "reset" \in r.usb_cmd => pc = "reset" /\ acc.at > 1
       /\ pc = "reset" /\ acc.at > 1 => "reset" \in r.usb_cmd \/ (Driven \in fresh /\ ~status(r))
       /\ pc \in {"start"} \cup Setup => Driven \in fresh
       /\ pc \in Setup => ~status(r)
       /\ turn = 1 /\ pc = "stop" => fresh = {}
  <2>1. \A m : Begun(m) <=> pc = m /\ acc.at > 1
    BY <1>1 DEF Begun
  <2>2. pc \in Setup => pc # "start"
    BY DEF Setup, BehindCommandRing, BehindSlots, BehindContexts,
      BehindRing, BehindEnable, BehindEventMemory, BehindEventRing, BehindEventCell, Started
  <2> QED
    BY <1>1, <1>3, <2>1, <2>2 DEF DevicesInv, Halted
<1>12. "halted" \in r.usb_status => "halted" \in s.usb_status
  BY <1>7 DEF StatusW1C
<1>13. status(s) => status(r)
  BY <1>7
<1> HIDE DEF r, s, v, x, status
<1>14. /\ "reset" \in s.usb_cmd => pc = "reset"
       /\ acc.at = 1 /\ pc = "reset" => "reset" \in s.usb_cmd
       /\ acc.at > 1 => s.usb_cmd = r.usb_cmd
       /\ acc.at = 1 /\ pc # "start" => "run" \notin s.usb_cmd
       /\ acc.at = 1 /\ pc = "start" => "int_enable" \in s.usb_cmd
  BY <1>7, <1>9, <1>10, <1>11
<1>15. pc # "reset" =>
         /\ s.crcr = IF acc.at = 4 THEN v.crcr ELSE r.crcr
         /\ s.dcbaap = IF acc.at = 5 THEN v.dcbaap ELSE r.dcbaap
         /\ s.config = IF acc.at = 6 THEN v.config ELSE r.config
         /\ s.notification_enable =
             IF acc.at = 3 THEN v.notification_enable ELSE r.notification_enable
         /\ s.iman = r.iman /\ s.erst_size = r.erst_size
         /\ s.erstba = r.erstba /\ s.erdp = r.erdp
  BY <1>7, <1>11
<1>16. Made /\ SetUp
  BY DEF DevicesInv
<1>17. turn = 1 =>
         /\ pc \in BehindSlots => s.dcbaap = Dcbaa /\ s.config = x.slots
         /\ pc \in BehindSlots => s.notification_enable = AllNotifications
         /\ pc = "slots" /\ acc.at >= 5 => s.dcbaap = Dcbaa
         /\ pc = "slots" /\ acc.at = 6 => s.config = x.slots
         /\ pc = "slots" /\ acc.at >= 3 => s.notification_enable = AllNotifications
         /\ pc \in BehindRing /\ x.crcrReadable => s.crcr = ctl.commandRing[1]
         /\ pc = "ring" /\ acc.at >= 4 /\ x.crcrReadable => s.crcr = ctl.commandRing[1]
         /\ pc \in BehindEnable => "enable" \in s.iman
         /\ pc \in BehindEventRing =>
              s.erst_size = 1 /\ s.erstba = Table(1) /\ s.erdp.ptr = Segment(1)
         /\ pc = "start" => "int_enable" \in s.usb_cmd
  <2>1. turn = 1 =>
          /\ pc \in BehindSlots => r.dcbaap = Dcbaa /\ r.config = x.slots
          /\ pc \in BehindSlots => r.notification_enable = AllNotifications
          /\ pc = "slots" /\ acc.at > 3 => r.notification_enable = AllNotifications
          /\ pc = "slots" /\ acc.at > 5 => r.dcbaap = Dcbaa
          /\ pc \in BehindRing /\ x.crcrReadable => r.crcr = ctl.commandRing[1]
          /\ pc = "ring" /\ acc.at > 4 /\ x.crcrReadable => r.crcr = ctl.commandRing[1]
          /\ pc \in BehindEnable => "enable" \in r.iman
          /\ pc \in BehindEventRing =>
               r.erst_size = 1 /\ r.erstba = Table(1) /\ r.erdp.ptr = Segment(1)
          /\ pc = "start" /\ acc.at > 1 => "int_enable" \in r.usb_cmd
    <3>1. /\ pc = "slots" /\ acc.at > 3 => Begun("slots") /\ acc.at > 3
          /\ pc = "slots" /\ acc.at > 5 => Begun("slots") /\ acc.at > 5
          /\ pc = "ring" /\ acc.at > 4 => Begun("ring") /\ acc.at > 4
          /\ pc = "start" /\ acc.at > 1 => Begun("start")
      BY <1>1, <1>9 DEF Begun
    <3> QED
      BY <1>16, <3>1, ZenonT(30) DEF SetUp, r, x
  <2>2. /\ pc \in BehindSlots => pc \notin {"reset", "slots"}
        /\ pc \in BehindRing => pc \notin {"reset", "slots", "ring"}
        /\ pc \in BehindEnable => pc # "reset"
        /\ pc \in BehindEventRing => pc # "reset"
    BY DEF Setup, BehindCommandRing, BehindSlots, BehindContexts,
      BehindRing, BehindEnable, BehindEventMemory, BehindEventRing, BehindEventCell, Started
  <2>3. \/ acc.at = 1 \/ acc.at = 2 \/ acc.at = 3
        \/ acc.at = 4 \/ acc.at = 5 \/ acc.at = 6
    BY <1>9
  <2>4. turn = 1 =>
          /\ pc \in BehindSlots => s.dcbaap = Dcbaa /\ s.config = x.slots
          /\ pc \in BehindSlots => s.notification_enable = AllNotifications
          /\ pc = "slots" /\ acc.at >= 5 => s.dcbaap = Dcbaa
          /\ pc = "slots" /\ acc.at = 6 => s.config = x.slots
          /\ pc = "slots" /\ acc.at >= 3 => s.notification_enable = AllNotifications
    BY <1>10, <1>15, <2>1, <2>2, <2>3
  <2>5. turn = 1 =>
          /\ pc \in BehindRing /\ x.crcrReadable => s.crcr = ctl.commandRing[1]
          /\ pc = "ring" /\ acc.at >= 4 /\ x.crcrReadable => s.crcr = ctl.commandRing[1]
    BY <1>10, <1>15, <2>1, <2>2, <2>3
  <2>6. turn = 1 =>
          /\ pc \in BehindEnable => "enable" \in s.iman
          /\ pc \in BehindEventRing =>
               s.erst_size = 1 /\ s.erstba = Table(1) /\ s.erdp.ptr = Segment(1)
    BY <1>15, <2>1, <2>2
  <2>7. turn = 1 => (pc = "start" => "int_enable" \in s.usb_cmd)
    BY <1>14, <2>1, <2>3
  <2> QED
    BY <2>4, <2>5, <2>6, <2>7
<1>18. CASE acc.at < 6
  <2>1. /\ pc' = pc /\ acc' \in [at : 1..6, value : Registers, write : BOOLEAN]
        /\ acc'.at = acc.at + 1 /\ acc'.value = v /\ acc'.write
    <3>1. 6 \in Nat /\ v \in Registers
      BY <1>1 DEF v
    <3>2. pc' = pc /\ acc' = [acc EXCEPT !.at = @ + 1]
      BY <1>4, <1>18
    <3>3. LET c == [acc EXCEPT !.at = @ + 1] IN
          /\ c \in [at : 1..6, value : Registers, write : BOOLEAN]
          /\ c.at = acc.at + 1 /\ c.value = acc.value /\ c.write = acc.write
      BY <1>1, <1>18, <3>1, NextDword, Zenon
    <3> QED
      BY <1>1, <3>2, <3>3, Zenon DEF v
  <2>2. \A m : Begun(m)' <=> pc = m
    BY <1>9, <2>1 DEF Begun
  <2>3. Shape'
    BY <1>1, <1>2, <1>6, <1>7, <2>1 DEF Shape
  <2>4. Halted'
    <3>1. pc = "stop" => "run" \notin s.usb_cmd
      BY <1>9, <1>11, <1>14
    <3>2. pc \in {"reset"} \cup Setup => "run" \notin s.usb_cmd /\ "halted" \in s.usb_status
      <4>1. pc \in Setup => pc # "start"
        BY DEF Setup, BehindCommandRing, BehindSlots, BehindContexts,
          BehindRing, BehindEnable, BehindEventMemory, BehindEventRing, BehindEventCell, Started
      <4> QED
        BY <1>9, <1>11, <1>12, <1>14, <4>1
    <3>3. pc = "reset" => "reset" \in s.usb_cmd \/ (Driven \in fresh /\ ~status(s))
      BY <1>9, <1>11, <1>13, <1>14
    <3>4. pc \in Setup => ~status(s)
      BY <1>11, <1>13
    <3> QED
      BY <1>2, <1>3, <1>6, <1>11, <1>14, <2>1, <2>2, <3>1, <3>2, <3>3, <3>4 DEF Halted, s, status
  <2>5. OpValue'
    <3>1. OpValue
      BY DEF DevicesInv
    <3>2. /\ ~Have(1)'
          /\ Have(2)' => Have(2)
          /\ Have(3)' => Have(3) /\ acc.at # 3
          /\ Have(4)' => Have(4) /\ acc.at # 4
          /\ Have(5)' => Have(5) /\ acc.at # 5
          /\ Have(6)' => Have(6) /\ acc.at # 6
      BY <1>1, <1>9, <2>1 DEF Have
    <3>3. /\ pc = "start" /\ Have(2) => ~status(v)
          /\ pc = "slots" => v.dcbaap = Dcbaa /\ v.config = x.slots
          /\ pc = "slots" => v.notification_enable = AllNotifications
          /\ pc = "ring" => v.crcr = ctl.commandRing[1]
          /\ pc \notin {"reset", "ring"} /\ Have(4) /\ x.crcrReadable => v.crcr = r.crcr
          /\ pc \notin {"reset", "slots"} /\ Have(5) => v.dcbaap = r.dcbaap
          /\ pc \notin {"reset", "slots"} /\ Have(6) => v.config = r.config
          /\ pc \notin {"reset", "slots"} /\ Have(3) =>
               v.notification_enable = r.notification_enable
      BY <1>1, <3>1 DEF OpValue, r, v, x, status
    <3> QED
      BY <1>2, <1>6, <1>15, <2>1, <3>2, <3>3 DEF OpValue, s, x, status
  <2>6. RuntimeValue'
    BY <2>1 DEF RuntimeValue, OpModifies
  <2>7. Made'
    BY <1>2, <1>6, <1>16, <2>1 DEF Made
  <2>8. SetUp'
    <3>1. pc \notin Started
      BY <1>3 DEF Started
    <3>2. /\ acc'.at > 5 => acc.at >= 5
          /\ acc'.at > 4 => acc.at >= 4
          /\ acc'.at > 3 => acc.at >= 3
      BY <1>9, <2>1
    <3>3. pc \notin {"enable", "event ring"}
      BY <1>3
    <3> QED
      BY <1>2, <1>6, <1>17, <2>1, <2>2, <3>1, <3>2, <3>3 DEF SetUp, s, x
  <2> QED
    BY <1>6, <1>8, <2>3, <2>4, <2>5, <2>6, <2>7, <2>8 DEF DevicesInv
<1>19. CASE acc.at = 6
  <2>1. Goto(After(pc))
    BY <1>4, <1>19
  <2>2. \/ pc = "stop" /\ pc' = "halting"
        \/ pc = "reset" /\ pc' = "resetting"
        \/ pc = "slots" /\ pc' = "contexts"
        \/ pc = "ring" /\ pc' = "enable"
        \/ pc = "ack status" /\ pc' = "ack pending"
        \/ pc = "start" /\ pc' = "starting"
    BY <1>3, <2>1, AfterEach DEF Goto
  <2>3. /\ \A m : ~Begun(m)'
        /\ OpValue' /\ RuntimeValue'
        /\ pc' \in Modifies =>
             acc' \in [at : 1..Len(BlockOf(pc')), value : Registers, write : BOOLEAN]
    BY <2>1, GotoBegins
  <2>4. /\ pc' \in {"scan", "frames", "panic"} \cup {Program[i] : i \in 1..Len(Program)}
        /\ pc' \in BehindCommandRing \ Started => pc \in BehindCommandRing \ Started
    <3>1. pc' \in BehindCommandRing \ Started => pc \in BehindCommandRing \ Started
      BY <2>2 DEF Setup, BehindCommandRing, BehindSlots, BehindContexts,
        BehindRing, BehindEnable, BehindEventMemory, BehindEventRing, BehindEventCell, Started
    <3> QED
      BY <2>2, <3>1, ProgramNames
  <2>5. Shape'
    BY <1>1, <1>2, <1>6, <1>7, <2>3, <2>4 DEF Shape
  <2>6. s.usb_cmd = r.usb_cmd
    BY <1>14, <1>19
  <2>7. Halted'
    <3>1. /\ pc' \in {"start"} \cup Setup => pc \in Setup
          /\ pc' \notin {"reset", "start", "panic", "stop"}
      BY <2>2 DEF Setup, BehindCommandRing, BehindSlots, BehindContexts,
        BehindRing, BehindEnable, BehindEventMemory, BehindEventRing, BehindEventCell, Started
    <3>2. pc \in Setup => pc # "start"
      BY DEF Setup, BehindCommandRing, BehindSlots, BehindContexts,
        BehindRing, BehindEnable, BehindEventMemory, BehindEventRing, BehindEventCell, Started
    <3>3. pc' = "halting" => "run" \notin s.usb_cmd
      BY <1>11, <1>19, <2>2, <2>6
    <3>4. pc' \in {"resetting"} \cup Setup => "run" \notin s.usb_cmd /\ "halted" \in s.usb_status
      BY <1>11, <1>12, <2>2, <2>6, <3>1
    <3>5. /\ "reset" \in s.usb_cmd => pc' = "resetting"
          /\ pc' = "resetting" =>
               "reset" \in s.usb_cmd \/ (Driven \in fresh /\ ~status(s))
      <4>1. pc' = "resetting" => pc = "reset"
        BY <2>2
      <4>2. pc = "reset" => pc' = "resetting"
        BY <2>2
      <4>3. acc.at > 1
        BY <1>19
      <4> QED
        BY <1>11, <1>13, <2>6, <4>1, <4>2, <4>3
    <3>6. pc' \in Setup => Driven \in fresh /\ ~status(s)
      BY <1>11, <1>13, <3>1
    <3>7. turn = 1 /\ pc' = "halting" => fresh = {}
      BY <1>11, <2>2
    <3> QED
      BY <1>2, <1>6, <2>3, <3>1, <3>3, <3>4, <3>5, <3>6, <3>7 DEF Halted, s, status
  <2>8. Made'
    <3>1. /\ pc' \in BehindCommandRing <=> pc \in BehindCommandRing
          /\ pc' \in BehindContexts <=> pc \in BehindContexts
          /\ pc' \in BehindEventMemory <=> pc \in BehindEventMemory
          /\ pc' \in BehindEventCell <=> pc \in BehindEventCell
          /\ pc # "panic" /\ pc' # "panic"
      BY <2>2 DEF Setup, BehindCommandRing, BehindSlots, BehindContexts,
        BehindRing, BehindEnable, BehindEventMemory, BehindEventRing, BehindEventCell, Started
    <3> QED
      BY <1>2, <1>6, <1>16, <3>1 DEF Made
  <2>9. SetUp'
    <3>1. /\ pc' \in BehindSlots => pc \in BehindSlots \/ pc = "slots"
          /\ pc' \in BehindRing => pc \in BehindRing \/ pc = "ring"
          /\ pc' \in BehindEnable => pc \in BehindEnable
          /\ pc' \in BehindEventRing => pc \in BehindEventRing
          /\ pc' \in Started => pc = "start"
      BY <2>2 DEF Setup, BehindCommandRing, BehindSlots, BehindContexts,
        BehindRing, BehindEnable, BehindEventMemory, BehindEventRing, BehindEventCell, Started
    <3>2. acc.at >= 5 /\ acc.at >= 4 /\ acc.at >= 3
      BY <1>19
    <3> QED
      BY <1>2, <1>6, <1>17, <1>19, <2>3, <3>1, <3>2 DEF SetUp, s, x
  <2> QED
    BY <1>6, <1>8, <2>3, <2>5, <2>7, <2>8, <2>9 DEF DevicesInv
<1> QED
  BY <1>9, <1>18, <1>19

(* A write of a runtime register keeps the invariant.                      *)
LEMMA RuntimeWriteStep ==
  ASSUME DevicesInv, WriteDword, UNCHANGED <<pciVars, mmioVars>>, pc \in RuntimeModifies
  PROVE  DevicesInv'
<1> DEFINE r == regs[Driven]
           s == regs'[Driven]
           v == acc.value
           x == machine[Driven].xhci
<1>1. /\ turn > 0 /\ turn \in Nat /\ Shape /\ Found /\ DrivenOK /\ OthersUntouched
      /\ Driven \in Controllers /\ acc.write
      /\ acc \in [at : 1..4, value : Registers, write : BOOLEAN]
      /\ BlockOf(pc) = RuntimeBlock /\ Len(RuntimeBlock) = 4
  <2>1. pc \in Modifies
    BY DEF Modifies
  <2> QED
    BY <2>1, ModifyContext, BlockDwords DEF DevicesInv, WriteDword
<1>2. UNCHANGED <<fresh, ctl, dma, turn, machine, command>>
  BY DEF WriteDword, pciVars
<1>3. pc \in {"enable", "ack pending", "event ring"}
  BY DEF RuntimeModifies
<1>4. IF acc.at < 4 THEN acc' = [acc EXCEPT !.at = @ + 1] /\ pc' = pc ELSE Goto(After(pc))
  BY <1>1 DEF WriteDword
<1>5. pc # "scan" /\ pc' # "scan"
  BY <1>3, <1>4, AfterEach DEF Goto
<1>6. Found' /\ DrivenOK' /\ Driven' = Driven /\ Controllers' = Controllers
  <2>1. Stays
    BY <1>2, <1>5 DEF Stays
  <2> QED
    BY <1>1, <2>1, StaysFound
<1>7. /\ regs' \in [Controllers -> Registers]
      /\ \A e \in Controllers \ {Driven} : regs'[e] = regs[e]
      /\ \/ s = r /\ "reset" \in r.usb_cmd
         \/ /\ acc.at = 1 => ("enable" \in s.iman <=> "enable" \in v.iman)
            /\ acc.at # 1 => s.iman = r.iman
            /\ s.erst_size = IF acc.at = 2 THEN v.erst_size ELSE r.erst_size
            /\ s.erstba = IF acc.at = 3 THEN v.erstba ELSE r.erstba
            /\ s.erdp.ptr = IF acc.at = 4 THEN v.erdp.ptr ELSE r.erdp.ptr
            /\ s.usb_cmd = r.usb_cmd /\ s.usb_status = r.usb_status
            /\ s.crcr = r.crcr /\ s.dcbaap = r.dcbaap /\ s.config = r.config
            /\ s.notification_enable = r.notification_enable
  BY RuntimeDwordWritten
<1>8. OthersUntouched'
  BY <1>1, <1>2, <1>6, <1>7 DEF OthersUntouched
<1>9. acc.at \in 1..4
  BY <1>1
<1>10. turn = 1 =>
         /\ acc.at = 1 => "enable" \in v.iman
         /\ pc = "event ring" =>
              v.erst_size = 1 /\ v.erstba = Table(1) /\ v.erdp.ptr = Segment(1)
  <2>1. RuntimeValue
    BY DEF DevicesInv
  <2>2. Have(1) <=> acc.at = 1
    BY <1>1, <1>9 DEF Have
  <2> QED
    BY <1>1, <2>1, <2>2 DEF RuntimeValue
<1>11. pc \in Setup /\ pc \notin {"stop", "reset", "start"} /\ pc \in BehindRing /\ pc \in BehindSlots
  BY <1>3 DEF Setup, BehindCommandRing, BehindSlots, BehindContexts,
    BehindRing, BehindEnable, BehindEventMemory, BehindEventRing, BehindEventCell, Started
<1>12. /\ "run" \notin r.usb_cmd /\ "reset" \notin r.usb_cmd /\ "halted" \in r.usb_status
       /\ Driven \in fresh /\ "event_interrupt" \notin r.usb_status
  <2>1. ~Begun("start") /\ ~Begun("reset") /\ pc # "resetting"
    BY <1>3 DEF Begun
  <2> QED
    BY <1>1, <1>11, <2>1 DEF DevicesInv, Halted
<1> HIDE DEF r, s, v, x
<1>13. /\ s.usb_cmd = r.usb_cmd /\ s.usb_status = r.usb_status
       /\ s.crcr = r.crcr /\ s.dcbaap = r.dcbaap /\ s.config = r.config
       /\ s.notification_enable = r.notification_enable
       /\ acc.at = 1 => ("enable" \in s.iman <=> "enable" \in v.iman)
       /\ acc.at # 1 => s.iman = r.iman
       /\ s.erst_size = IF acc.at = 2 THEN v.erst_size ELSE r.erst_size
       /\ s.erstba = IF acc.at = 3 THEN v.erstba ELSE r.erstba
       /\ s.erdp.ptr = IF acc.at = 4 THEN v.erdp.ptr ELSE r.erdp.ptr
  BY <1>7, <1>12
<1>14. Made /\ SetUp
  BY DEF DevicesInv
<1>15. turn = 1 =>
         /\ s.dcbaap = Dcbaa /\ s.config = x.slots
         /\ s.notification_enable = AllNotifications
         /\ x.crcrReadable => s.crcr = ctl.commandRing[1]
         /\ "enable" \in s.iman
         /\ pc = "event ring" /\ acc.at >= 2 => s.erst_size = 1
         /\ pc = "event ring" /\ acc.at >= 3 => s.erstba = Table(1)
         /\ pc = "event ring" /\ acc.at >= 4 => s.erdp.ptr = Segment(1)
  <2>1. /\ pc = "enable" /\ acc.at # 1 => Begun("enable")
        /\ pc # "enable" => pc \in BehindEnable
        /\ pc = "event ring" /\ acc.at > 2 => Begun("event ring") /\ acc.at > 2
        /\ pc = "event ring" /\ acc.at > 3 => Begun("event ring") /\ acc.at > 3
    <3>1. pc # "enable" => pc \in BehindEnable
      BY <1>3 DEF Setup, BehindCommandRing, BehindSlots, BehindContexts,
        BehindRing, BehindEnable, BehindEventMemory, BehindEventRing, BehindEventCell, Started
    <3>2. /\ acc.at # 1 => acc.at > 1
          /\ acc.at > 2 => acc.at > 1
          /\ acc.at > 3 => acc.at > 1
      BY <1>9
    <3> QED
      BY <1>1, <3>1, <3>2, Zenon DEF Begun
  <2>2. turn = 1 =>
          /\ r.dcbaap = Dcbaa /\ r.config = x.slots
          /\ r.notification_enable = AllNotifications
          /\ x.crcrReadable => r.crcr = ctl.commandRing[1]
          /\ acc.at # 1 => "enable" \in r.iman
          /\ pc = "event ring" /\ acc.at > 2 => r.erst_size = 1
          /\ pc = "event ring" /\ acc.at > 3 => r.erstba = Table(1)
    BY <1>11, <1>14, <2>1, ZenonT(30) DEF SetUp, r, x
  <2>3. /\ acc.at >= 2 => acc.at = 2 \/ (acc.at > 2 /\ acc.at # 2)
        /\ acc.at >= 3 => acc.at = 3 \/ (acc.at > 3 /\ acc.at # 3)
        /\ acc.at >= 4 => acc.at = 4
    BY <1>9
  <2>4. turn = 1 =>
          /\ s.dcbaap = Dcbaa /\ s.config = x.slots
          /\ s.notification_enable = AllNotifications
          /\ x.crcrReadable => s.crcr = ctl.commandRing[1]
          /\ "enable" \in s.iman
    BY <1>10, <1>13, <2>2
  <2>5. turn = 1 /\ pc = "event ring" /\ acc.at >= 2 => s.erst_size = 1
    BY <1>10, <1>13, <2>2, <2>3, Zenon
  <2>6. turn = 1 /\ pc = "event ring" /\ acc.at >= 3 => s.erstba = Table(1)
    BY <1>10, <1>13, <2>2, <2>3, Zenon
  <2>7. turn = 1 /\ pc = "event ring" /\ acc.at >= 4 => s.erdp.ptr = Segment(1)
    BY <1>10, <1>13, <2>2, <2>3, Zenon
  <2> QED
    BY <2>4, <2>5, <2>6, <2>7
<1>16. CASE acc.at < 4
  <2>1. /\ pc' = pc /\ acc' \in [at : 1..4, value : Registers, write : BOOLEAN]
        /\ acc'.at = acc.at + 1 /\ acc'.value = v /\ acc'.write
    <3>1. 4 \in Nat /\ v \in Registers
      BY <1>1 DEF v
    <3>2. pc' = pc /\ acc' = [acc EXCEPT !.at = @ + 1]
      BY <1>4, <1>16
    <3>3. LET c == [acc EXCEPT !.at = @ + 1] IN
          /\ c \in [at : 1..4, value : Registers, write : BOOLEAN]
          /\ c.at = acc.at + 1 /\ c.value = acc.value /\ c.write = acc.write
      BY <1>1, <1>16, <3>1, NextDword, Zenon
    <3> QED
      BY <1>1, <3>2, <3>3, Zenon DEF v
  <2>2. \A m : Begun(m)' <=> pc = m
    BY <1>9, <2>1 DEF Begun
  <2>3. Shape'
    BY <1>1, <1>2, <1>6, <1>7, <2>1 DEF Shape
  <2>4. Halted'
    BY <1>2, <1>3, <1>6, <1>11, <1>12, <1>13, <2>1, <2>2 DEF Halted, s
  <2>5. OpValue'
    BY <2>1 DEF OpValue, OpModifies
  <2>6. RuntimeValue'
    <3>1. ~Have(1)'
      BY <1>9, <2>1 DEF Have
    <3> QED
      BY <1>2, <1>10, <2>1, <3>1 DEF RuntimeValue
  <2>7. Made'
    BY <1>2, <1>6, <1>14, <2>1 DEF Made
  <2>8. SetUp'
    <3>1. pc \notin Started /\ pc \notin BehindEventRing
      BY <1>3 DEF Setup, BehindCommandRing, BehindSlots, BehindContexts,
        BehindRing, BehindEnable, BehindEventMemory, BehindEventRing, BehindEventCell, Started
    <3>2. /\ acc'.at > 2 => acc.at >= 2
          /\ acc'.at > 3 => acc.at >= 3
      BY <1>9, <2>1
    <3> QED
      BY <1>2, <1>3, <1>6, <1>15, <2>1, <2>2, <3>1, <3>2 DEF SetUp, s, x
  <2> QED
    BY <1>6, <1>8, <2>3, <2>4, <2>5, <2>6, <2>7, <2>8 DEF DevicesInv
<1>17. CASE acc.at = 4
  <2>1. Goto(After(pc))
    BY <1>4, <1>17
  <2>2. \/ pc = "enable" /\ pc' = "ack status"
        \/ pc = "ack pending" /\ pc' = "event memory"
        \/ pc = "event ring" /\ pc' = "event cell"
    BY <1>3, <2>1, AfterEach DEF Goto
  <2>3. /\ \A m : ~Begun(m)'
        /\ OpValue' /\ RuntimeValue'
        /\ pc' \in Modifies =>
             acc' \in [at : 1..Len(BlockOf(pc')), value : Registers, write : BOOLEAN]
    BY <2>1, GotoBegins
  <2>4. /\ pc' \in {"scan", "frames", "panic"} \cup {Program[i] : i \in 1..Len(Program)}
        /\ pc \in BehindCommandRing \ Started
    <3>1. pc \in BehindCommandRing \ Started
      BY <1>3 DEF Setup, BehindCommandRing, BehindSlots, BehindContexts,
        BehindRing, BehindEnable, BehindEventMemory, BehindEventRing, BehindEventCell, Started
    <3> QED
      BY <2>2, <3>1, ProgramNames
  <2>5. Shape'
    BY <1>1, <1>2, <1>6, <1>7, <2>3, <2>4 DEF Shape
  <2>6. Halted'
    <3>1. pc' \notin {"reset", "resetting", "start", "panic", "stop", "halting"}
      BY <2>2
    <3> QED
      BY <1>2, <1>6, <1>12, <1>13, <2>3, <3>1 DEF Halted, s
  <2>7. Made'
    <3>1. /\ pc' \in BehindCommandRing <=> pc \in BehindCommandRing
          /\ pc' \in BehindContexts <=> pc \in BehindContexts
          /\ pc' \in BehindEventMemory <=> pc \in BehindEventMemory
          /\ pc' \in BehindEventCell <=> pc \in BehindEventCell
          /\ pc # "panic" /\ pc' # "panic"
      BY <2>2 DEF Setup, BehindCommandRing, BehindSlots, BehindContexts,
        BehindRing, BehindEnable, BehindEventMemory, BehindEventRing, BehindEventCell, Started
    <3> QED
      BY <1>2, <1>6, <1>14, <3>1 DEF Made
  <2>8. SetUp'
    <3>1. /\ pc' \in BehindEventRing => pc = "event ring"
          /\ pc' \notin Started
      BY <2>2 DEF Setup, BehindCommandRing, BehindSlots, BehindContexts,
        BehindRing, BehindEnable, BehindEventMemory, BehindEventRing, BehindEventCell, Started
    <3>2. acc.at >= 2 /\ acc.at >= 3 /\ acc.at >= 4
      BY <1>17
    <3> QED
      BY <1>2, <1>6, <1>15, <2>3, <3>1, <3>2 DEF SetUp, s, x
  <2> QED
    BY <1>6, <1>8, <2>3, <2>5, <2>6, <2>7, <2>8 DEF DevicesInv
<1> QED
  BY <1>9, <1>16, <1>17

LEMMA WriteDwordStep ==
  ASSUME DevicesInv, WriteDword, UNCHANGED <<pciVars, mmioVars>>
  PROVE  DevicesInv'
BY OpWriteStep, RuntimeWriteStep DEF WriteDword, OpModifies

(* A step of the bring-up keeps the invariant.                             *)
LEMMA BringUpStep ==
  ASSUME DevicesInv, BringUp
  PROVE  DevicesInv'
<1>1. Driver /\ UNCHANGED <<pciVars, mmioVars>>
  BY DEF BringUp
<1> QED
  BY <1>1, AccessFaultsStep, ReadDwordStep, WriteDwordStep, SpinStep, InitCommandRingStep,
     FillDcbaaStep, AllocEventRingStep, StoreEventRingStep, ReadPortsStep DEF Driver

-----------------------------------------------------------------------------
(* The scan and the head of the loop.  A new iterator is where its         *)
(* invariant says (pci.rs:334-343).                                        *)
LEMMA NewIterExact ==
  DOMAIN buses \subseteq Locations /\ iter = NewIter => IterExact
<1> SUFFICES ASSUME DOMAIN buses \subseteq Locations, iter = NewIter
             PROVE  IterExact
  OBVIOUS
<1>1. /\ iter.b = 0 /\ iter.d = 0 /\ iter.f = 0 /\ iter.yielded = <<>>
      /\ iter = [b |-> 0, d |-> 0, f |-> 0, yielded |-> <<>>]
  BY DEF NewIter
<1>2. /\ 0 \in 0..NumBuses /\ 0 \in 0..NumDevices /\ 0 \in 0..NumFunctions
      /\ <<>> \in Seq(Locations)
  BY BusesAssumption
<1>3. iter \in [b : 0..NumBuses, d : 0..NumDevices, f : 0..NumFunctions,
                yielded : Seq(Locations)]
  BY <1>1, <1>2
<1>4. Settled(iter) /\ Ascending
  BY <1>1 DEF Settled, Ascending
<1>5. Yielded = {}
  BY <1>1 DEF Yielded
<1>6. \A l \in DOMAIN buses : ~Before(l, <<0, 0, 0>>)
  BY LocationParts DEF Before
<1> QED
  BY <1>1, <1>3, <1>4, <1>5, <1>6 DEF IterExact

LEMMA TableLocations ==
  TableExact => DOMAIN buses \subseteq Locations /\ DOMAIN buses \subseteq DOMAIN machine
BY DevicesAssumption DEF TableExact, Reachable

(* Before the first controller is found, the driver's part of the          *)
(* invariant says nothing but that its variables are as they were.         *)
LEMMA NothingDriven ==
  ASSUME DevicesInv, turn = 0,
         UNCHANGED <<regs, fresh, ctl, turn, machine, mmioVars>>,
         pc' \in {"scan", "next"}, Shape', Found'
  PROVE  DevicesInv'
<1>1. DrivenOK /\ OthersUntouched
  BY DEF DevicesInv
<1>2. DrivenOK'
  BY <1>1 DEF DrivenOK, mmioVars
<1>3. OthersUntouched'
  BY <1>1 DEF OthersUntouched, Controllers
<1>4. pc' \notin Modifies
  BY DEF Modifies, RuntimeModifies
<1>5. OpValue' /\ RuntimeValue'
  BY <1>4 DEF OpValue, RuntimeValue, OpModifies
<1>6. Halted'
  BY DEF Halted
<1>7. Made' /\ SetUp'
  BY DEF Made, SetUp
<1> QED
  BY <1>2, <1>3, <1>5, <1>6, <1>7 DEF DevicesInv

(* The scan keeps the invariant.                                           *)
LEMMA ScanKeeps ==
  ASSUME DevicesInv, Scan
  PROVE  DevicesInv'
<1>1. /\ Shape /\ Found /\ TableExact /\ MmioInv /\ pc = "scan" /\ iter = NewIter
      /\ UNCHANGED <<regs, fresh, ctl, turn, mmioVars>>
  BY DEF Scan, DevicesInv, Found
<1>2. turn = 0
  BY <1>1, ScanDrivesNothing
<1>3. MmioInv'
  BY <1>1 DEF mmioVars, MmioInv, WindowsApart, WindowsMapped
<1>4. CASE ScanDone
  <2>1. Goto("next") /\ UNCHANGED <<machine, command, buses, scanPos, iter>>
    BY <1>4 DEF Scan, pciVars
  <2>2. pc' = "next" /\ pc' \notin Modifies /\ pc' \notin BehindCommandRing \ Started
    BY <2>1 DEF Goto, Modifies, RuntimeModifies,
      Setup, BehindCommandRing, BehindSlots, BehindContexts,
      BehindRing, BehindEnable, BehindEventMemory, BehindEventRing, BehindEventCell, Started
  <2>3. TableExact'
    BY <1>1, <2>1 DEF TableExact, Reachable, Scanned, FunctionExact
  <2>4. IterExact'
    BY <1>1, <2>1 DEF Found, IterExact, Settled, DevicePresent, Ascending, Before, Yielded
  <2>5. ScanDone' /\ turn' = Cardinality(Controllers' \cap Yielded')
    BY <1>1, <1>4, <2>1 DEF Found, ScanDone, Controllers, Yielded
  <2>6. Found'
    BY <1>3, <2>2, <2>3, <2>4, <2>5 DEF Found
  <2>7. pc' \in {"scan", "frames", "panic"} \cup {Program[i] : i \in 1..Len(Program)}
    BY <2>2, ProgramNames
  <2>8. Shape'
    BY <1>1, <2>1, <2>2, <2>7 DEF Shape, Controllers
  <2> QED
    BY <1>1, <1>2, <2>1, <2>2, <2>6, <2>8, NothingDriven
<1>5. CASE ~ScanDone
  <2>1. ScanDevice /\ UNCHANGED <<machine, command, iter, pc, acc>>
    BY <1>5 DEF Scan, ScanDevice
  <2>2. TableExact'
    BY <1>1, <2>1, ScanStep
  <2>3. DOMAIN buses' \subseteq Locations
    BY <2>2, DevicesAssumption DEF TableExact, Reachable
  <2>4. IterExact'
    <3>1. (DOMAIN buses \subseteq Locations /\ iter = NewIter => IterExact)'
      BY NewIterExact, PTL
    <3> QED
      BY <1>1, <2>1, <2>3, <3>1 DEF NewIter
  <2>5. turn' = Cardinality(Controllers' \cap Yielded')
    BY <1>1, <2>1 DEF Found, Controllers, Yielded
  <2>6. Found'
    BY <1>1, <1>3, <2>1, <2>2, <2>4, <2>5 DEF Found, NewIter
  <2>7. Shape'
    BY <1>1, <2>1 DEF Shape, Controllers
  <2> QED
    BY <1>1, <1>2, <2>1, <2>6, <2>7, NothingDriven
<1> QED
  BY <1>4, <1>5

(* The function that the loop comes to next, as the table knows it         *)
(* (main.rs:177-182).                                                      *)
LEMMA UpcomingFunction ==
  ASSUME DevicesInv, pc = "next", ~IterDone, AdvanceIter, UNCHANGED <<machine, buses, scanPos>>
  PROVE  LET loc == Upcoming.loc IN
         /\ TableExact' /\ IterExact' /\ ScanDone' /\ Controllers' = Controllers
         /\ Yielded \subseteq Yielded'
         /\ loc = None \/ buses[loc].class # <<12, 3, 48>> =>
              Controllers \cap Yielded' = Controllers \cap Yielded
         /\ loc # None /\ buses[loc].class = <<12, 3, 48>> =>
              /\ loc \in Controllers /\ loc \notin Yielded
              /\ Controllers \cap Yielded' = (Controllers \cap Yielded) \cup {loc}
              /\ buses[loc].bars[0] = RegionBase(machine[loc], 0)
              /\ buses[loc].bars[0] # None
<1> DEFINE loc == Upcoming.loc
<1>1. Found /\ TableExact /\ IterExact /\ ScanDone /\ machine \in Machines
  BY DEF DevicesInv, Found, TableExact
<1>2. DOMAIN buses \subseteq Locations /\ DOMAIN buses \subseteq DOMAIN machine
  BY <1>1, TableLocations
<1>3. /\ IterExact'
      /\ loc # None => /\ loc \in DOMAIN buses /\ loc \notin Yielded
                       /\ Yielded' = Yielded \cup {loc}
      /\ loc = None => Yielded' = Yielded
  BY <1>1, <1>2, IterStep
<1>4. TableExact' /\ ScanDone' /\ Controllers' = Controllers
  BY <1>1 DEF TableExact, Reachable, Scanned, FunctionExact, ScanDone, Controllers
<1> HIDE DEF loc
<1>5. ASSUME NEW l \in DOMAIN buses
      PROVE  /\ l \in DOMAIN machine /\ FunctionExact(l)
             /\ l \in Controllers <=> buses[l].class = <<12, 3, 48>>
  <2>1. l \in DOMAIN machine /\ FunctionExact(l)
    BY <1>1, <1>2 DEF TableExact
  <2> QED
    BY <2>1 DEF FunctionExact, Controllers, ControllersOf
<1>6. loc = None \/ buses[loc].class # <<12, 3, 48>> =>
        Controllers \cap Yielded' = Controllers \cap Yielded
  BY <1>3, <1>5
<1>7. ASSUME loc # None, buses[loc].class = <<12, 3, 48>>
      PROVE  /\ loc \in Controllers /\ loc \notin Yielded
             /\ Controllers \cap Yielded' = (Controllers \cap Yielded) \cup {loc}
             /\ buses[loc].bars[0] = RegionBase(machine[loc], 0)
             /\ buses[loc].bars[0] # None
  <2>1. loc \in Controllers /\ loc \notin Yielded /\ FunctionExact(loc)
    BY <1>3, <1>5, <1>7
  <2>2. Controllers \cap Yielded' = (Controllers \cap Yielded) \cup {loc}
    BY <1>3, <1>7, <2>1
  <2>3. machine[loc].bars[0].kind \in {"mem32", "mem64"}
    BY <1>1, <2>1, ControllerOK
  <2>4. 0 \in 0..5 /\ 0 < BarCount(machine[loc])
    BY DEF BarCount
  <2>5. buses[loc].bars[0] = RegionBase(machine[loc], 0)
    <3>1. machine[loc].bars[0].kind \notin {"none", "high"}
      BY <2>3
    <3> QED
      BY <2>1, <2>4, <3>1 DEF FunctionExact
  <2>6. RegionBase(machine[loc], 0) # None
    BY DEF RegionBase, None
  <2> QED
    BY <2>1, <2>2, <2>5, <2>6
<1>8. Yielded \subseteq Yielded'
  BY <1>3
<1> QED
  BY <1>3, <1>4, <1>6, <1>7, <1>8 DEF loc

(* To pass over a function, or to leave the loop, keeps the invariant.     *)
LEMMA PassOverKeeps ==
  ASSUME DevicesInv, pc = "next", TableExact', IterExact', MmioInv', ScanDone',
         Yielded \subseteq Yielded', Controllers \cap Yielded' = Controllers \cap Yielded,
         UNCHANGED <<machine, command, mmioVars, regs, fresh, ctl, dma, turn>>,
         pc' \in {"next", "frames"}
  PROVE  DevicesInv'
<1>1. /\ Shape /\ Found /\ DrivenOK /\ OthersUntouched /\ Halted /\ Made /\ SetUp
      /\ Controllers' = Controllers /\ Driven' = Driven
  BY DEF DevicesInv, Controllers, Driven
<1>2. /\ pc \notin Modifies /\ pc' \notin Modifies /\ pc' # "scan" /\ pc' # "panic"
      /\ pc' \notin BehindCommandRing \ Started
      /\ pc' \notin {"start"} \cup Setup /\ pc' \in Started
      /\ pc \in Started
  BY DEF Modifies, RuntimeModifies, Setup, BehindCommandRing, BehindSlots, BehindContexts,
    BehindRing, BehindEnable, BehindEventMemory, BehindEventRing, BehindEventCell, Started
<1>3. \A m : /\ Begun(m)' => m = pc'
             /\ Begun(m) => m = pc
  BY DEF Begun
<1>4. Shape'
  <2>1. pc' \in {"scan", "frames", "panic"} \cup {Program[i] : i \in 1..Len(Program)}
    BY ProgramNames
  <2> QED
    BY <1>1, <1>2, <2>1 DEF Shape
<1>5. Found'
  <2>1. turn' = Cardinality(Controllers' \cap Yielded')
    BY <1>1 DEF Found
  <2> QED
    BY <1>2, <2>1 DEF Found
<1>6. DrivenOK'
  <2>1. Driven \in Controllers \cap Yielded => Driven \in Controllers \cap Yielded'
    OBVIOUS
  <2> QED
    BY <1>1, <2>1 DEF DrivenOK, mmioVars
<1>7. OthersUntouched'
  BY <1>1 DEF OthersUntouched
<1>8. Halted'
  <2>1. turn > 0 => "reset" \notin regs[Driven].usb_cmd
    BY <1>1, <1>3 DEF Halted
  <2>2. ~Begun("stop")' /\ ~Begun("start")' /\ ~Begun("reset")'
    BY <1>3
  <2>3. pc' \notin {"halting", "panic", "reset", "resetting", "start", "stop"}
    OBVIOUS
  <2> QED
    BY <1>1, <1>2, <2>1, <2>2, <2>3 DEF Halted
<1>9. OpValue' /\ RuntimeValue'
  BY <1>2 DEF OpValue, RuntimeValue, OpModifies, Modifies
<1>10. /\ pc \in BehindCommandRing /\ pc \in BehindContexts /\ pc \in BehindEventMemory
       /\ pc \in BehindEventCell /\ pc \in BehindSlots /\ pc \in BehindRing
       /\ pc \in BehindEnable /\ pc \in BehindEventRing
       /\ pc' \in BehindCommandRing /\ pc' \in BehindContexts /\ pc' \in BehindEventMemory
       /\ pc' \in BehindEventCell /\ pc' \in BehindSlots /\ pc' \in BehindRing
       /\ pc' \in BehindEnable /\ pc' \in BehindEventRing
  BY DEF Setup, BehindCommandRing, BehindSlots, BehindContexts,
    BehindRing, BehindEnable, BehindEventMemory, BehindEventRing, BehindEventCell, Started
<1>11. Made'
  BY <1>1, <1>10 DEF Made
<1>12. SetUp'
  BY <1>1, <1>2, <1>10 DEF SetUp
<1> QED
  BY <1>4, <1>5, <1>6, <1>7, <1>8, <1>9, <1>11, <1>12 DEF DevicesInv

(* To enter the bring-up keeps the invariant (main.rs:181-199).            *)
LEMMA EnterKeeps ==
  ASSUME DevicesInv, pc = "next", TableExact', IterExact', ScanDone',
         NEW loc \in Controllers, loc \notin Yielded, Yielded \subseteq Yielded',
         Controllers \cap Yielded' = (Controllers \cap Yielded) \cup {loc},
         UNCHANGED machine, enable_mmio_and_bus_master(loc),
         map_mmio_region(BarFrame(machine[loc]), 0, WindowSize), EnterBringUp(loc, nextVirt)
  PROVE  DevicesInv'
<1>1. /\ Shape /\ Found /\ DrivenOK /\ OthersUntouched /\ Halted /\ MmioInv
      /\ turn \in Nat /\ nextVirt \in Nat /\ machine \in Machines
      /\ turn = Cardinality(Controllers \cap Yielded)
      /\ loc \in DOMAIN machine /\ loc \in Locations /\ Controllers' = Controllers
  <2>1. /\ Shape /\ Found /\ DrivenOK /\ OthersUntouched /\ Halted /\ MmioInv
        /\ turn \in Nat /\ nextVirt \in Nat /\ machine \in Machines
        /\ turn = Cardinality(Controllers \cap Yielded)
    BY DEF DevicesInv, Found, MmioInv, TableExact, Shape
  <2> QED
    BY <2>1, ControllerOK DEF Controllers
<1>2. /\ UNCHANGED <<regs, fresh>> /\ turn' = turn + 1 /\ Goto("stop")
      /\ IF ctl.controller = None
         THEN /\ ctl' = [ctl EXCEPT !.controller = <<[loc |-> loc, page |-> nextVirt]>>]
              /\ dma' = dma \cup {Dcbaa, <<"scratchpads", 1>>}
         ELSE UNCHANGED <<ctl, dma>>
  BY DEF EnterBringUp
<1>3. /\ pc' = "stop" /\ pc' \in Modifies
      /\ \A m : ~Begun(m)'
      /\ OpValue' /\ RuntimeValue'
      /\ pc' \in Modifies =>
           acc' \in [at : 1..Len(BlockOf(pc')), value : Registers, write : BOOLEAN]
  BY <1>2, GotoBegins DEF Modifies
<1>4. MmioInv'
  <2>1. BarFrame(machine[loc]) \in Nat
    BY <1>1, FrameIsNatural
  <2>2. 0 \in 0..(PageSize - 1) /\ WindowSize \in Nat \ {0}
    BY PageSizeAssumption, WindowAssumption
  <2> QED
    BY <1>1, <2>1, <2>2, CallMmioInv
<1>5. /\ nextVirt' = nextVirt + WindowPages
      /\ windows' = windows \cup
           {[page |-> nextVirt, pages |-> WindowPages, frame |-> BarFrame(machine[loc])]}
  BY DEF map_mmio_region, WindowPages
<1>6. turn' = Cardinality(Controllers' \cap Yielded')
  <2>1. IsFiniteSet(Controllers \cap Yielded)
    <3>1. Controllers \subseteq Locations
      BY <1>1, ControllerOK
    <3>2. Controllers \cap Yielded \subseteq Locations
      BY <3>1
    <3> QED
      BY <3>2, LocationsFinite, FS_Subset
  <2>2. loc \notin Controllers \cap Yielded
    OBVIOUS
  <2>3. Cardinality((Controllers \cap Yielded) \cup {loc}) = Cardinality(Controllers \cap Yielded) + 1
    BY <2>1, <2>2, FS_AddElement
  <2> QED
    BY <1>1, <1>2, <2>3
<1>7. command' \in [DOMAIN machine' -> [enabled : SUBSET {"io", "memory", "master"},
                                        errors : SUBSET {"abort"}]]
      /\ "memory" \in command'[loc].enabled
      /\ \A l \in DOMAIN machine : "memory" \in command[l].enabled => "memory" \in command'[l].enabled
  <2> DEFINE T == [enabled : SUBSET {"io", "memory", "master"}, errors : SUBSET {"abort"}]
             e == [enabled |-> command[loc].enabled \cup {"memory", "master"}, errors |-> {}]
  <2>1. command \in [DOMAIN machine -> T]
    BY <1>1 DEF Shape
  <2>2. command' = [command EXCEPT ![loc] = e]
    BY DEF enable_mmio_and_bus_master
  <2>3. e \in T /\ "memory" \in e.enabled
    <3>1. command[loc].enabled \in SUBSET {"io", "memory", "master"}
      BY <1>1, <2>1
    <3> QED
      BY <3>1
  <2> HIDE DEF T, e
  <2>4. /\ command' \in [DOMAIN machine -> T] /\ command'[loc] = e
        /\ \A l \in DOMAIN machine : l # loc => command'[l] = command[l]
    BY <1>1, <2>1, <2>2, <2>3
  <2> QED
    BY <1>1, <2>3, <2>4 DEF T
<1>8. ctl \in [controller : Seq([loc : Locations, page : Nat]),
               commandRing : Seq(Blocks), eventRing : Seq(Blocks),
               contexts : SUBSET Nat, scratchpads : SUBSET Nat, entry0 : Blocks]
  BY <1>1 DEF Shape
<1>9. CtlTyped'
  <2>1. [loc |-> loc, page |-> nextVirt] \in [loc : Locations, page : Nat]
    BY <1>1
  <2>2. <<[loc |-> loc, page |-> nextVirt]>> \in Seq([loc : Locations, page : Nat])
    BY <2>1
  <2> QED
    BY <1>2, <1>8, <2>2 DEF CtlTyped
<1>10. /\ pc' \notin BehindCommandRing /\ pc' \notin {"start"} \cup Setup
       /\ pc' \notin BehindContexts /\ pc' \notin BehindEventMemory /\ pc' \notin BehindEventCell
       /\ pc' \notin BehindSlots /\ pc' \notin BehindRing /\ pc' \notin BehindEnable
       /\ pc' \notin BehindEventRing /\ pc' \notin Started
  BY <1>3 DEF Setup, BehindCommandRing, BehindSlots, BehindContexts,
    BehindRing, BehindEnable, BehindEventMemory, BehindEventRing, BehindEventCell, Started
<1>11. Shape'
  <2>1. pc' \in {"scan", "frames", "panic"} \cup {Program[i] : i \in 1..Len(Program)}
    BY <1>3, ProgramNames
  <2>2. regs' \in [Controllers' -> Registers] /\ fresh' \subseteq Controllers' /\ turn' \in Nat
    BY <1>1, <1>2 DEF Shape
  <2> QED
    BY <1>3, <1>7, <1>9, <1>10, <2>1, <2>2 DEF Shape, CtlTyped
<1>12. Found'
  <2>1. turn' > 0 /\ pc' # "scan"
    BY <1>1, <1>2, <1>3
  <2> QED
    BY <1>4, <1>6, <2>1 DEF Found
<1>13. /\ Driven' = (IF turn = 0 THEN loc ELSE Driven)
       /\ ctl'.controller = <<[loc |-> Driven', page |-> 0]>>
       /\ turn > 0 => UNCHANGED <<ctl, dma>>
       /\ turn = 0 => /\ nextVirt = 0 /\ dma' = dma \cup {Dcbaa, <<"scratchpads", 1>>}
                      /\ ctl'.commandRing = None /\ ctl'.eventRing = None
                      /\ ctl'.contexts = {} /\ ctl'.scratchpads = {} /\ ctl'.entry0 = NoBlock
  <2>1. CASE turn = 0
    <3>1. /\ nextVirt = 0 /\ ctl.controller = None
          /\ ctl.commandRing = None /\ ctl.eventRing = None
          /\ ctl.contexts = {} /\ ctl.scratchpads = {} /\ ctl.entry0 = NoBlock
      BY <1>1, <2>1 DEF DrivenOK
    <3>2. ctl' = [ctl EXCEPT !.controller = <<[loc |-> loc, page |-> 0]>>]
      BY <1>2, <3>1
    <3>3. ctl'.controller = <<[loc |-> loc, page |-> 0]>>
      BY <1>8, <3>2
    <3>4. Driven' = loc
      BY <3>3 DEF Driven
    <3> QED
      BY <1>2, <1>8, <2>1, <3>1, <3>2, <3>3, <3>4
  <2>2. CASE turn # 0
    <3>1. ctl.controller = <<[loc |-> Driven, page |-> 0]>>
      BY <1>1, <2>2 DEF DrivenOK
    <3>2. ctl.controller # None
      BY <3>1 DEF None
    <3>3. UNCHANGED <<ctl, dma>>
      BY <1>2, <3>2
    <3>4. Driven' = Driven
      BY <3>3 DEF Driven
    <3> QED
      BY <2>2, <3>1, <3>3, <3>4
  <2> QED
    BY <2>1, <2>2
<1>14. DrivenOK'
  <2>1. CASE turn = 0
    <3>1. 0 + WindowPages = WindowPages /\ turn' = 1
      BY <1>2, <2>1, WindowHasPages
    <3>2. /\ Driven' = loc /\ loc \in Controllers \cap Yielded' /\ nextVirt = 0
      BY <1>13, <2>1
    <3>3. nextVirt' = WindowPages
      BY <1>5, <3>1, <3>2
    <3>4. [page |-> 0, pages |-> WindowPages, frame |-> BarFrame(machine[loc])] \in windows'
      BY <1>5, <3>2
    <3>5. /\ "memory" \in command'[Driven'].enabled /\ Driven' \in Controllers' \cap Yielded'
          /\ [page |-> 0, pages |-> WindowPages, frame |-> BarFrame(machine'[Driven'])] \in windows'
          /\ ctl'.controller = <<[loc |-> Driven', page |-> 0]>>
      BY <1>1, <1>7, <1>13, <3>2, <3>4
    <3>6. turn' # 0 /\ ~(turn' > 1)
      BY <3>1
    <3> QED
      BY <3>3, <3>5, <3>6, Zenon DEF DrivenOK
  <2>2. CASE turn # 0
    <3>1. /\ Driven' = Driven /\ Driven \in Controllers \cap Yielded
          /\ "memory" \in command[Driven].enabled
          /\ [page |-> 0, pages |-> WindowPages, frame |-> BarFrame(machine[Driven])] \in windows
      BY <1>1, <1>13, <2>2 DEF DrivenOK
    <3>2. Driven \in DOMAIN machine
      BY <3>1 DEF Controllers, ControllersOf
    <3>3. "memory" \in command'[Driven].enabled
      BY <1>7, <3>1, <3>2
    <3>4. Driven \in Controllers' \cap Yielded'
      BY <1>1, <3>1
    <3>5. [page |-> 0, pages |-> WindowPages, frame |-> BarFrame(machine[Driven])] \in windows'
      BY <1>5, <3>1
    <3>6. loc # Driven /\ turn' > 1
      BY <1>1, <1>2, <2>2, <3>1
    <3>7. \E c \in Controllers' : c # Driven'
      BY <1>1, <3>1, <3>6
    <3>8. /\ "memory" \in command'[Driven'].enabled /\ Driven' \in Controllers' \cap Yielded'
          /\ [page |-> 0, pages |-> WindowPages, frame |-> BarFrame(machine'[Driven'])] \in windows'
          /\ ctl'.controller = <<[loc |-> Driven', page |-> 0]>>
      BY <1>13, <3>1, <3>3, <3>4, <3>5
    <3>9. turn' # 0 /\ turn' # 1
      BY <1>1, <1>2, <2>2
    <3> QED
      BY <3>7, <3>8, <3>9, Zenon DEF DrivenOK
  <2> QED
    BY <2>1, <2>2
<1>15. OthersUntouched'
  <2>1. turn' # 0
    BY <1>1, <1>2
  <2>2. CASE turn = 0
    BY <1>1, <1>2, <2>1, <2>2 DEF OthersUntouched
  <2>3. CASE turn # 0
    BY <1>1, <1>2, <1>13, <2>1, <2>3 DEF OthersUntouched
  <2> QED
    BY <2>2, <2>3
<1>16. Halted'
  <2>1. "reset" \notin regs'[Driven'].usb_cmd
    <3>1. CASE turn = 0
      <4>1. regs[loc] \in {ResetRegs, FirmwareRegs}
        BY <1>1, <3>1 DEF OthersUntouched
      <4>2. "reset" \notin regs[loc].usb_cmd
        BY <4>1 DEF ResetRegs, FirmwareRegs
      <4> QED
        BY <1>2, <1>13, <3>1, <4>2
    <3>2. CASE turn # 0
      <4>1. "reset" \notin regs[Driven].usb_cmd
        BY <1>1, <3>2 DEF Halted, Begun
      <4> QED
        BY <1>2, <1>13, <3>2, <4>1
    <3> QED
      BY <3>1, <3>2
  <2>2. turn' = 1 => fresh' = {}
    <3>1. turn' = 1 => turn = 0
      BY <1>1, <1>2
    <3>2. turn = 0 => fresh = {}
      BY <1>1 DEF OthersUntouched, Shape
    <3> QED
      BY <1>2, <3>1, <3>2
  <2> QED
    BY <1>3, <1>10, <2>1, <2>2 DEF Halted
<1>17. Made'
  <2>1. turn' = 1 => turn = 0
    BY <1>1, <1>2
  <2> QED
    BY <1>10, <1>13, <2>1 DEF Made
<1>18. SetUp'
  BY <1>3, <1>10 DEF SetUp
<1> QED
  BY <1>3, <1>11, <1>12, <1>14, <1>15, <1>16, <1>17, <1>18 DEF DevicesInv

(* The head of the loop keeps the invariant.                               *)
LEMMA NextFunctionKeeps ==
  ASSUME DevicesInv, NextFunction
  PROVE  DevicesInv'
<1> DEFINE loc == Upcoming.loc
<1>1. /\ pc = "next" /\ UNCHANGED <<machine, buses, scanPos>>
      /\ Found /\ TableExact /\ IterExact /\ MmioInv /\ ScanDone
  BY DEF NextFunction, DevicesInv, Found
<1>2. CASE IterDone
  <2>1. Goto("frames") /\ UNCHANGED <<iter, command, mmioVars, regs, fresh, ctl, dma, turn>>
    BY <1>2 DEF NextFunction
  <2>2. pc' = "frames"
    BY <2>1 DEF Goto
  <2>3. TableExact'
    BY <1>1 DEF TableExact, Reachable, Scanned, FunctionExact
  <2>4. IterExact' /\ Yielded' = Yielded
    BY <1>1, <2>1 DEF IterExact, Settled, DevicePresent, Ascending, Before, Yielded
  <2>5. MmioInv'
    BY <1>1, <2>1 DEF mmioVars, MmioInv, WindowsApart, WindowsMapped
  <2>6. ScanDone'
    BY <1>1 DEF ScanDone
  <2> QED
    BY <1>1, <2>1, <2>2, <2>3, <2>4, <2>5, <2>6, PassOverKeeps
<1>3. CASE ~IterDone
  <2>1. AdvanceIter
    BY <1>3 DEF NextFunction
  <2>2. /\ TableExact' /\ IterExact' /\ ScanDone' /\ Controllers' = Controllers
        /\ Yielded \subseteq Yielded'
        /\ loc = None \/ buses[loc].class # <<12, 3, 48>> =>
             Controllers \cap Yielded' = Controllers \cap Yielded
        /\ loc # None /\ buses[loc].class = <<12, 3, 48>> =>
             /\ loc \in Controllers /\ loc \notin Yielded
             /\ Controllers \cap Yielded' = (Controllers \cap Yielded) \cup {loc}
             /\ buses[loc].bars[0] = RegionBase(machine[loc], 0)
             /\ buses[loc].bars[0] # None
    BY <1>1, <1>3, <2>1, UpcomingFunction
  <2>3. IF loc = None \/ buses[loc].class # <<12, 3, 48>>
        THEN UNCHANGED <<command, mmioVars, hcVars>>
        ELSE /\ enable_mmio_and_bus_master(loc)
             /\ LET base == buses[loc].bars[0] IN
                IF base = None THEN UNCHANGED <<mmioVars, hcVars>>
                ELSE /\ map_mmio_region(FrameOf(base), OffsetOf(base), WindowSize)
                     /\ EnterBringUp(loc, nextVirt)
    BY <1>3 DEF NextFunction
  <2> HIDE DEF loc
  <2>4. CASE loc = None \/ buses[loc].class # <<12, 3, 48>>
    <3>1. UNCHANGED <<command, mmioVars, regs, fresh, ctl, pc, dma, turn>>
      BY <2>3, <2>4 DEF hcVars
    <3>2. MmioInv'
      BY <1>1, <3>1 DEF mmioVars, MmioInv, WindowsApart, WindowsMapped
    <3> QED
      BY <1>1, <2>2, <2>4, <3>1, <3>2, PassOverKeeps
  <2>5. CASE loc # None /\ buses[loc].class = <<12, 3, 48>>
    <3> DEFINE base == RegionBase(machine[loc], 0)
    <3>1. /\ loc \in Controllers /\ enable_mmio_and_bus_master(loc)
          /\ map_mmio_region(FrameOf(base), OffsetOf(base), WindowSize)
          /\ EnterBringUp(loc, nextVirt)
      BY <2>2, <2>3, <2>5
    <3>2. OffsetOf(base) = 0 /\ FrameOf(base) = BarFrame(machine[loc])
      <4>1. machine \in Machines
        BY <1>1 DEF TableExact
      <4>2. OffsetOf(base) = 0
        BY <3>1, <4>1, ControllerOK
      <4> QED
        BY <4>2 DEF BarFrame
    <3>3. map_mmio_region(BarFrame(machine[loc]), 0, WindowSize)
      BY <3>1, <3>2
    <3> QED
      BY <1>1, <2>2, <2>5, <3>1, <3>3, EnterKeeps
  <2> QED
    BY <2>4, <2>5
<1> QED
  BY <1>2, <1>3

-----------------------------------------------------------------------------
(* The invariant.                                                          *)
LEMMA InitDevices == Init => DevicesInv
<1> SUFFICES ASSUME Init PROVE DevicesInv
  OBVIOUS
<1>1. /\ machine \in Machines
      /\ command = [l \in DOMAIN machine |-> [enabled |-> {}, errors |-> {"abort"}]]
      /\ buses = [l \in {} |-> None] /\ scanPos = <<0, 0>> /\ iter = NewIter
      /\ MmioInit
      /\ regs \in [Controllers -> {ResetRegs, FirmwareRegs}] /\ fresh = {}
      /\ ctl = [controller |-> None, commandRing |-> None, eventRing |-> None,
                contexts |-> {}, scratchpads |-> {}, entry0 |-> NoBlock]
      /\ pc = "scan" /\ acc = Idle /\ dma = {} /\ turn = 0
  BY DEF Init, PciInit, XhciInit
<1>2. /\ NumBuses \in Nat /\ NumBuses > 0 /\ NumDevices \in Nat /\ NumDevices > 0
  BY BusesAssumption
<1>3. TableExact
  <2>1. \A l \in Reachable : ~Scanned(l)
    <3>1. \A l \in Reachable : l \in Locations
      BY <1>1, DeviceOK DEF Reachable
    <3>2. \A l \in Locations : l[1] \in Nat /\ l[2] \in Nat
      BY <1>2, LocationParts
    <3> QED
      BY <1>1, <3>1, <3>2 DEF Scanned
  <2>2. DOMAIN buses = {}
    BY <1>1
  <2>3. scanPos \in (0 .. NumBuses - 1) \X (0 .. NumDevices - 1)
    BY <1>1, <1>2
  <2> QED
    BY <1>1, <2>1, <2>2, <2>3 DEF TableExact
<1>4. IterExact
  BY <1>1, <1>3, NewIterExact, TableLocations
<1>5. MmioInv /\ nextVirt = 0
  BY <1>1, InitMmioInv DEF MmioInit
<1>6. Found
  <2>1. Yielded = {}
    BY <1>1 DEF Yielded, NewIter
  <2>2. turn = Cardinality(Controllers \cap Yielded)
    BY <1>1, <2>1, FS_EmptySet
  <2> QED
    BY <1>1, <1>3, <1>4, <1>5, <2>2 DEF Found
<1>7. /\ pc \notin Modifies /\ pc \notin BehindCommandRing
  BY <1>1 DEF Modifies, RuntimeModifies,
    Setup, BehindCommandRing, BehindSlots, BehindContexts,
    BehindRing, BehindEnable, BehindEventMemory, BehindEventRing, BehindEventCell, Started
<1>8. CtlTyped
  <2>1. /\ None \in Seq([loc : Locations, page : Nat]) /\ None \in Seq(Blocks)
        /\ NoBlock \in Blocks
    BY DEF None, Blocks
  <2> QED
    BY <1>1, <2>1 DEF CtlTyped
<1>9. Shape
  <2>1. regs \in [Controllers -> Registers]
    BY <1>1, RegistersTyped
  <2>2. command \in [DOMAIN machine -> [enabled : SUBSET {"io", "memory", "master"},
                                        errors : SUBSET {"abort"}]]
    BY <1>1
  <2> QED
    BY <1>1, <1>7, <1>8, <2>1, <2>2 DEF Shape, CtlTyped
<1>10. DrivenOK /\ OthersUntouched
  BY <1>1, <1>5 DEF DrivenOK, OthersUntouched
<1>11. Halted /\ Made /\ SetUp
  BY <1>1 DEF Halted, Made, SetUp
<1>12. OpValue /\ RuntimeValue
  BY <1>7 DEF OpValue, RuntimeValue, OpModifies, Modifies
<1> QED
  BY <1>6, <1>9, <1>10, <1>11, <1>12 DEF DevicesInv

LEMMA StutterKeeps ==
  ASSUME DevicesInv, UNCHANGED vars
  PROVE  DevicesInv'
<1>1. UNCHANGED <<machine, command, buses, scanPos, iter, nextVirt, pageTable, windows,
                  regs, fresh, ctl, pc, acc, dma, turn>>
  BY DEF vars, pciVars, mmioVars, hcVars
<1>2. Driven' = Driven /\ Controllers' = Controllers /\ Yielded' = Yielded
  BY <1>1 DEF Driven, Controllers, Yielded
<1>3. /\ \A m : Begun(m)' = Begun(m)
      /\ \A j : Have(j)' = Have(j)
  BY <1>1 DEF Begun, Have
<1>4. Shape'
  BY <1>1, <1>2 DEF DevicesInv, Shape
<1>5. Found'
  <2>1. TableExact'
    BY <1>1 DEF DevicesInv, Found, TableExact, Reachable, Scanned, FunctionExact
  <2>2. IterExact'
    BY <1>1 DEF DevicesInv, Found, IterExact, Settled, DevicePresent, Ascending, Before, Yielded
  <2>3. MmioInv'
    BY <1>1 DEF DevicesInv, Found, MmioInv, WindowsApart, WindowsMapped
  <2> QED
    BY <1>1, <1>2, <2>1, <2>2, <2>3 DEF DevicesInv, Found, ScanDone, NewIter
<1>6. DrivenOK' /\ OthersUntouched'
  BY <1>1, <1>2 DEF DevicesInv, DrivenOK, OthersUntouched
<1>7. Halted'
  BY <1>1, <1>2, <1>3 DEF DevicesInv, Halted
<1>8. OpValue' /\ RuntimeValue'
  <2>1. OpValue'
    BY <1>1, <1>2 DEF DevicesInv, OpValue, Have
  <2>2. RuntimeValue'
    BY <1>1, <1>2 DEF DevicesInv, RuntimeValue, Have
  <2> QED
    BY <2>1, <2>2
<1>9. Made' /\ SetUp'
  BY <1>1, <1>2, <1>3 DEF DevicesInv, Made, SetUp
<1> QED
  BY <1>4, <1>5, <1>6, <1>7, <1>8, <1>9 DEF DevicesInv

(* DevicesInv is an invariant, whatever the machine holds and however the  *)
(* controller's steps fall between the driver's accesses (main.rs:176-227, *)
(* pci.rs, controller.rs, ring.rs, paging.rs:37-77).                       *)
THEOREM Invariance == Spec => []DevicesInv
<1>1. DevicesInv /\ [Next]_vars => DevicesInv'
  <2> SUFFICES ASSUME DevicesInv, [Next]_vars
               PROVE  DevicesInv'
    OBVIOUS
  <2>1. CASE Scan
    BY <2>1, ScanKeeps
  <2>2. CASE NextFunction
    BY <2>2, NextFunctionKeeps
  <2>3. CASE BringUp
    BY <2>3, BringUpStep
  <2>4. CASE Device
    BY <2>4, DeviceStep
  <2>5. CASE UNCHANGED vars
    BY <2>5, StutterKeeps
  <2> QED
    BY <2>1, <2>2, <2>3, <2>4, <2>5 DEF Next
<1> QED
  BY <1>1, InitDevices, PTL DEF Spec

-----------------------------------------------------------------------------
(* The properties of the run.                                              *)

(* The type invariant of KernelDevices; the bring-up is entered once for   *)
(* each controller at most (main.rs:177-199).                              *)
THEOREM TypeCorrect == Spec => []TypeOK
<1>1. DevicesInv => TypeOK
  <2> SUFFICES ASSUME DevicesInv PROVE TypeOK
    OBVIOUS
  <2>1. /\ regs \in [Controllers -> Registers] /\ fresh \subseteq Controllers
        /\ pc \in {"scan", "frames", "panic"} \cup {Program[i] : i \in 1..Len(Program)}
        /\ turn \in Nat /\ turn = Cardinality(Controllers \cap Yielded)
        /\ TableExact /\ machine \in Machines
    BY DEF DevicesInv, Shape, Found, TableExact
  <2>2. DOMAIN buses \subseteq DOMAIN machine
    BY <2>1, TableLocations
  <2>3. \A c \in Controllers : regs[c].usb_status \subseteq StatusW1C \cup {"halted", "not_ready"}
    BY <2>1 DEF Registers
  <2>4. IsFiniteSet(Controllers)
    <3>1. Controllers \subseteq Locations
      BY <2>1, ControllerOK
    <3> QED
      BY <3>1, LocationsFinite, FS_Subset
  <2>5. /\ Cardinality(Controllers \cap Yielded) <= Cardinality(Controllers)
        /\ Cardinality(Controllers) \in Nat
    <3>1. Controllers \cap Yielded \subseteq Controllers
      OBVIOUS
    <3> QED
      BY <2>4, <3>1, FS_Subset, FS_CardinalityType
  <2>6. turn \in 0..Cardinality(Controllers)
    BY <2>1, <2>5
  <2> QED
    BY <2>1, <2>2, <2>3, <2>6 DEF TypeOK
<1> QED
  BY <1>1, Invariance, PTL

(* When the loop of kernel_main asks for the next function, the table is   *)
(* that of the machine, and the iterators yield it (main.rs:177-179,       *)
(* pci.rs:156-192, 299-322, 344-432).                                      *)
THEOREM ScanIsExact == Spec => []ScanExact
<1>1. DevicesInv => ScanExact
  <2> SUFFICES ASSUME DevicesInv, pc = "next" PROVE FunctionsExact /\ IteratorsExact
    BY DEF ScanExact
  <2>1. TableExact /\ IterExact /\ ScanDone
    BY DEF DevicesInv, Found
  <2>2. DOMAIN buses \subseteq Locations
    BY <2>1, TableLocations
  <2>3. \A l \in Reachable : Scanned(l)
    <3>1. \A l \in Reachable : l \in Locations
      BY <2>1, DeviceOK DEF Reachable, TableExact
    <3>2. \A l \in Locations : l[1] < NumBuses
      BY LocationParts, BusesAssumption
    <3> QED
      BY <2>1, <3>1, <3>2 DEF ScanDone, Scanned
  <2>4. FunctionsExact
    BY <2>1, <2>3 DEF TableExact, FunctionsExact
  <2> QED
    BY <2>1, <2>2, <2>4, IterExactGivesIteratorsExact
<1> QED
  BY <1>1, Invariance, PTL

(* The windows of the controllers share no page, and every page of them    *)
(* leads where map_mmio_region was told (paging.rs:37-77).                 *)
THEOREM DeviceWindowsApart == Spec => []WindowsApart
<1>1. DevicesInv => WindowsApart
  BY DEF DevicesInv, Found, MmioInv
<1> QED
  BY <1>1, Invariance, PTL

THEOREM DeviceWindowsMapped == Spec => []WindowsMapped
<1>1. DevicesInv => WindowsMapped
  BY DEF DevicesInv, Found, MmioInv
<1> QED
  BY <1>1, Invariance, PTL

(* Every access of the bring-up faults or reaches the driver's own         *)
(* controller, which decodes memory (main.rs:181-184, paging.rs:37-77,     *)
(* pci.rs:324-333).                                                        *)
THEOREM AccessesReachTheController == Spec => []AccessReachesController
<1>1. DevicesInv => AccessReachesController
  <2> SUFFICES ASSUME DevicesInv, pc \in Modifies
               PROVE  LET k == PageOf(BlockOf(pc)) IN Faults(k) \/ Reach(k) = {Driven}
    BY DEF AccessReachesController
  <2>1. turn > 0 /\ Shape /\ Found /\ DrivenOK
    BY ModifyContext
  <2> QED
    BY <2>1, ReachDriven
<1> QED
  BY <1>1, Invariance, PTL

(* A controller that runs after its reset is set up (controller.rs:68-158, *)
(* ring.rs:31-169).                                                        *)
THEOREM RunsOnlyConfigured == Spec => []RunsConfigured
<1>1. DevicesInv => RunsConfigured
  <2> DEFINE r == regs[Driven]
             x == machine[Driven].xhci
  <2> SUFFICES ASSUME DevicesInv, turn = 1, Driven \in fresh, "run" \in r.usb_cmd
               PROVE  /\ r.dcbaap = Dcbaa /\ r.config = x.slots
                      /\ r.notification_enable = AllNotifications
                      /\ ctl.contexts = 1..x.slots
                      /\ ctl.scratchpads = 0..(x.scratchpads - 1)
                      /\ (ctl.entry0 # NoBlock) = (x.scratchpads > 0)
                      /\ r.erst_size = 1 /\ r.erstba = Table(1) /\ r.erdp.ptr = Segment(1)
                      /\ {r.dcbaap, r.erstba, r.erdp.ptr, CommandRing(1)} \subseteq dma
                      /\ "int_enable" \in r.usb_cmd /\ "enable" \in r.iman
                      /\ x.crcrReadable => r.crcr = ctl.commandRing[1]
    BY DEF RunsConfigured
  <2>1. /\ Halted /\ Made /\ SetUp
        /\ pc \in {"scan", "frames", "panic"} \cup {Program[i] : i \in 1..Len(Program)}
    BY DEF DevicesInv, Shape
  <2>2. pc # "scan"
    BY ScanDrivesNothing DEF DevicesInv, Found
  <2>3. pc \in Started \/ Begun("start")
    <3>1. /\ pc \notin {"halting", "panic", "stop"}
          /\ ~(pc \in {"reset", "resetting", "start"} \cup Setup /\ ~Begun("start"))
      <4>1. pc \notin {"halting", "panic"}
        BY <2>1 DEF Halted
      <4>2. fresh # {}
        OBVIOUS
      <4>3. pc # "stop"
        BY <2>1, <4>2 DEF Halted
      <4>4. ~(pc \in {"reset", "resetting", "start"} \cup Setup /\ ~Begun("start"))
        BY <2>1 DEF Halted
      <4> QED
        BY <4>1, <4>3, <4>4
    <3>2. pc \in {"reset", "resetting"} \cup Setup => ~Begun("start")
      BY DEF Begun, Setup, BehindCommandRing, BehindSlots, BehindContexts,
        BehindRing, BehindEnable, BehindEventMemory, BehindEventRing, BehindEventCell, Started
    <3>3. pc \in {"frames", "panic", "stop", "halting", "reset", "resetting", "command ring",
                  "slots", "contexts", "ring", "enable", "ack status", "ack pending",
                  "event memory", "event ring", "event cell", "start", "starting", "ports",
                  "next"}
      BY <2>1, <2>2, ProgramNames
    <3>4. pc \in {"halting", "panic", "stop", "reset", "resetting", "start"} \cup Setup \cup Started
      BY <3>3 DEF Setup, BehindCommandRing, BehindSlots, BehindContexts,
        BehindRing, BehindEnable, BehindEventMemory, BehindEventRing, BehindEventCell, Started
    <3> QED
      BY <3>1, <3>2, <3>4
  <2>4. /\ pc \in BehindCommandRing /\ pc \in BehindContexts /\ pc \in BehindEventMemory
        /\ pc \in BehindSlots /\ pc \in BehindRing /\ pc \in BehindEnable
        /\ pc \in BehindEventRing
    BY <2>3 DEF Begun, Setup, BehindCommandRing, BehindSlots, BehindContexts,
      BehindRing, BehindEnable, BehindEventMemory, BehindEventRing, BehindEventCell, Started
  <2>5. /\ Dcbaa \in dma /\ CommandRing(1) \in dma /\ Segment(1) \in dma /\ Table(1) \in dma
        /\ ctl.contexts = 1..x.slots /\ ctl.scratchpads = 0..(x.scratchpads - 1)
        /\ (ctl.entry0 # NoBlock) = (x.scratchpads > 0)
    BY <2>1, <2>4 DEF Made
  <2>6. /\ r.dcbaap = Dcbaa /\ r.config = x.slots
        /\ r.notification_enable = AllNotifications
        /\ r.erst_size = 1 /\ r.erstba = Table(1) /\ r.erdp.ptr = Segment(1)
        /\ "int_enable" \in r.usb_cmd /\ "enable" \in r.iman
        /\ x.crcrReadable => r.crcr = ctl.commandRing[1]
    BY <2>1, <2>3, <2>4 DEF SetUp
  <2> HIDE DEF r, x
  <2> QED
    BY <2>5, <2>6
<1> QED
  BY <1>1, Invariance, PTL

(* The steps that panic: an access behind the mapped part of the BAR, and  *)
(* more scratchpads than there are pointers for (controller.rs:132-144,    *)
(* main.rs:184, cpu_panic.rs:43-62).                                       *)
LEMMA PanicSteps ==
  ASSUME DevicesInv, [Next]_vars, pc # "panic", pc' = "panic"
  PROVE  /\ UNCHANGED <<machine, ctl>>
         /\ LET x == machine[Driven].xhci IN
            x.scratchpads > PointerSlots \/ x.runtimePage >= WindowPages
<1>1. CASE Scan
  BY <1>1 DEF Scan, Goto
<1>2. CASE NextFunction
  BY <1>2 DEF NextFunction, Goto, EnterBringUp, hcVars
<1>3. CASE BringUp /\ AccessFaults
  <2>1. Faults(PageOf(BlockOf(pc))) /\ pc \in Modifies
    BY <1>3 DEF AccessFaults
  <2>2. turn > 0 /\ Shape /\ Found /\ DrivenOK
    BY <2>1, ModifyContext
  <2>3. machine[Driven].xhci.runtimePage >= WindowPages
    BY <2>1, <2>2, ReachDriven
  <2> QED
    BY <1>3, <2>3 DEF BringUp, AccessFaults, Panic, pciVars
<1>4. CASE BringUp /\ FillDcbaa
  <2>1. machine[ctl.controller[1].loc].xhci.scratchpads > PointerSlots /\ Panic
    BY <1>4, AfterEach DEF FillDcbaa, Goto
  <2> QED
    BY <1>4, <2>1 DEF BringUp, Panic, pciVars, Driven
<1>5. CASE BringUp /\ ~AccessFaults /\ ~FillDcbaa
  <2>1. Goto(After(pc))
    BY <1>5 DEF BringUp, Driver, ReadDword, WriteDword, Spin, InitCommandRing,
      AllocEventRing, StoreEventRing, ReadPorts
  <2>2. pc \in {"stop", "halting", "reset", "resetting", "command ring", "slots", "ring",
                "enable", "ack status", "ack pending", "event memory", "event ring",
                "event cell", "start", "starting", "ports"}
    BY <1>5 DEF BringUp, Driver, ReadDword, WriteDword, Spin, InitCommandRing,
      AllocEventRing, StoreEventRing, ReadPorts, Modifies, RuntimeModifies
  <2> QED
    BY <2>1, <2>2, AfterEach DEF Goto
<1>6. CASE Device \/ UNCHANGED vars
  BY <1>6 DEF Device, Hardware, vars, hcVars
<1> QED
  BY <1>1, <1>2, <1>3, <1>4, <1>5, <1>6 DEF Next

(* Only a machine beyond the driver's limits makes it panic, and the       *)
(* driver does not go on afterwards (controller.rs:132-144, main.rs:184).  *)
THEOREM PanicsOnlyBeyondLimits == Spec => []PanicOnlyBeyondLimits
<1>1. Init => PanicOnlyBeyondLimits
  BY DEF Init, XhciInit, PanicOnlyBeyondLimits
<1>2. DevicesInv /\ PanicOnlyBeyondLimits /\ [Next]_vars => PanicOnlyBeyondLimits'
  <2> SUFFICES ASSUME DevicesInv, PanicOnlyBeyondLimits, [Next]_vars, pc' = "panic"
               PROVE  LET x == machine'[Driven'].xhci IN
                      x.scratchpads > PointerSlots \/ x.runtimePage >= WindowPages
    BY DEF PanicOnlyBeyondLimits, WindowPages
  <2>1. CASE pc = "panic"
    <3>1. UNCHANGED <<machine, ctl>>
      BY <2>1 DEF Next, Scan, NextFunction, BringUp, Driver, AccessFaults, ReadDword, WriteDword,
        Spin, InitCommandRing, FillDcbaa, AllocEventRing, StoreEventRing, ReadPorts, Modifies,
        RuntimeModifies, Device, Hardware, vars, hcVars, pciVars
    <3> QED
      BY <2>1, <3>1 DEF PanicOnlyBeyondLimits, Driven
  <2>2. CASE pc # "panic"
    BY <2>2, PanicSteps DEF Driven
  <2> QED
    BY <2>1, <2>2
<1> QED
  BY <1>1, <1>2, Invariance, PTL DEF Spec

-----------------------------------------------------------------------------
(* What changes the registers.                                             *)
LEMMA RegisterSteps ==
  ASSUME [Next]_vars
  PROVE  regs' = regs \/ Device \/ WriteDword
<1>1. CASE Scan
  BY <1>1 DEF Scan
<1>2. CASE NextFunction
  BY <1>2 DEF NextFunction, hcVars, EnterBringUp
<1>3. CASE BringUp
  BY <1>3 DEF BringUp, Driver, AccessFaults, Panic, ReadDword, Spin, InitCommandRing, FillDcbaa,
              AllocEventRing, StoreEventRing, ReadPorts
<1>4. CASE UNCHANGED vars
  BY <1>4 DEF vars, hcVars
<1> QED
  BY <1>1, <1>2, <1>3, <1>4 DEF Next

(* A controller that is resetting is the driver's, and halted.             *)
LEMMA ResetWhileHalted ==
  ASSUME DevicesInv, NEW c \in Controllers, "reset" \in regs[c].usb_cmd
  PROVE  /\ turn > 0 /\ c = Driven /\ "halted" \in regs[c].usb_status
         /\ pc = "resetting" \/ Begun("reset")
<1>1. regs[c] \notin {ResetRegs, FirmwareRegs}
  BY DEF ResetRegs, FirmwareRegs
<1>2. turn > 0 /\ c = Driven
  BY <1>1 DEF DevicesInv, OthersUntouched, Shape
<1>3. pc = "resetting" \/ Begun("reset")
  BY <1>2 DEF DevicesInv, Halted
<1>4. pc \in {"resetting", "reset"} /\ ~Begun("start")
  BY <1>3 DEF Begun
<1> QED
  BY <1>2, <1>3, <1>4 DEF DevicesInv, Halted

LEMMA HaltedModifies ==
  ASSUME DevicesInv, turn > 0, pc \in Modifies \ {"stop", "start"}
  PROVE  "halted" \in regs[Driven].usb_status
<1>1. pc \in {"reset"} \cup Setup /\ ~Begun("start")
  BY DEF Modifies, RuntimeModifies, Begun,
    Setup, BehindCommandRing, BehindSlots, BehindContexts,
    BehindRing, BehindEnable, BehindEventMemory, BehindEventRing, BehindEventCell, Started
<1> QED
  BY <1>1 DEF DevicesInv, Halted

(* A step of the controller is its reset, or leaves alone what the driver  *)
(* programs and keeps an event interrupt.                                  *)
LEMMA DeviceMoves ==
  ASSUME DevicesInv, Device
  PROVE  LET r == regs[Driven]
             s == regs'[Driven] IN
         /\ turn > 0 /\ Driven \in Controllers
         /\ \A e \in Controllers \ {Driven} : regs'[e] = regs[e]
         /\ \/ "reset" \in r.usb_cmd /\ "reset" \notin s.usb_cmd
            \/ /\ s.usb_cmd = r.usb_cmd /\ s.dcbaap = r.dcbaap /\ s.config = r.config
               /\ s.erst_size = r.erst_size /\ s.erstba = r.erstba
               /\ "event_interrupt" \in r.usb_status => "event_interrupt" \in s.usb_status
<1>1. Shape /\ Found /\ DrivenOK /\ turn > 0
  <2>1. turn # 0
    BY DEF Device, DevicesInv, DrivenOK
  <2>2. Shape /\ Found /\ DrivenOK
    BY DEF DevicesInv
  <2>3. turn \in Nat
    BY <2>2 DEF Shape
  <2> QED
    BY <2>1, <2>2, <2>3
<1>2. Driven \in Controllers
  BY <1>1, DrivenTyped
<1>3. \/ HcHalt(Driven) \/ HcRun(Driven) \/ HcReset(Driven) \/ HcReady(Driven)
      \/ HcPort(Driven) \/ HcEvent(Driven)
  BY DEF Device, Hardware, Driven
<1>4. CASE HcReset(Driven)
  <2>1. "reset" \in regs[Driven].usb_cmd /\ regs' = [regs EXCEPT ![Driven] = ResetRegs]
    BY <1>4 DEF HcReset
  <2>2. /\ regs'[Driven] = ResetRegs
        /\ \A e \in Controllers \ {Driven} : regs'[e] = regs[e]
    BY <1>1, <1>2, <2>1 DEF Shape
  <2> QED
    BY <1>1, <1>2, <2>1, <2>2 DEF ResetRegs
<1>5. CASE HcHalt(Driven) \/ HcRun(Driven) \/ HcReady(Driven) \/ HcPort(Driven) \/ HcEvent(Driven)
  BY <1>1, <1>2, <1>5, ControllerMoves
<1> QED
  BY <1>3, <1>4, <1>5

(* Where the write of a modify may change what a controller must be halted *)
(* for, and where it may take an event interrupt back.                     *)
LEMMA WriteMoves ==
  ASSUME DevicesInv, WriteDword
  PROVE  LET r == regs[Driven]
             s == regs'[Driven] IN
         /\ turn > 0 /\ Driven \in Controllers
         /\ \A e \in Controllers \ {Driven} : regs'[e] = regs[e]
         /\ \/ "halted" \in r.usb_status
            \/ /\ s.dcbaap = r.dcbaap /\ s.config = r.config
               /\ s.erst_size = r.erst_size /\ s.erstba = r.erstba
               /\ "reset" \notin s.usb_cmd
         /\ turn = 1 /\ Driven \in fresh
              /\ "event_interrupt" \in r.usb_status /\ "event_interrupt" \notin s.usb_status =>
                   pc = "ack status" \/ "reset" \in r.usb_cmd
<1> DEFINE r == regs[Driven]
           s == regs'[Driven]
           v == acc.value
<1>1. pc \in Modifies /\ acc.write /\ turn > 0 /\ Driven \in Controllers /\ Halted
  BY ModifyContext DEF WriteDword, DevicesInv
<1>2. pc \notin {"stop", "start"} => "halted" \in r.usb_status
  BY <1>1, HaltedModifies
<1>3. CASE pc \in RuntimeModifies
  <2>1. /\ \A e \in Controllers \ {Driven} : regs'[e] = regs[e]
        /\ s.usb_status = r.usb_status
    BY <1>3, RuntimeDwordWritten
  <2>2. pc \notin {"stop", "start"}
    BY <1>3 DEF RuntimeModifies
  <2> QED
    BY <1>1, <1>2, <2>1, <2>2
<1>4. CASE pc \in OpModifies
  <2>1. /\ \A e \in Controllers \ {Driven} : regs'[e] = regs[e]
        /\ \/ s = r /\ "reset" \in r.usb_cmd
           \/ /\ s.usb_cmd = IF acc.at = 1 THEN v.usb_cmd \cup (r.usb_cmd \cap {"reset"})
                             ELSE r.usb_cmd
              /\ acc.at = 1 => s.usb_status \in {r.usb_status, r.usb_status \cup {"not_ready"}}
              /\ acc.at # 1 => s.usb_status = IF acc.at = 2
                                              THEN r.usb_status \ (v.usb_status \cap StatusW1C)
                                              ELSE r.usb_status
              /\ s.dcbaap = IF acc.at = 5 THEN v.dcbaap ELSE r.dcbaap
              /\ s.config = IF acc.at = 6 THEN v.config ELSE r.config
              /\ s.erst_size = r.erst_size /\ s.erstba = r.erstba
    BY <1>4, OpDwordWritten
  <2>2. "reset" \in r.usb_cmd => "halted" \in r.usb_status /\ pc = "reset"
    <3>1. "reset" \in r.usb_cmd => pc = "resetting" \/ Begun("reset")
      BY <1>1, ResetWhileHalted
    <3>2. pc # "resetting"
      BY <1>1 DEF Modifies, RuntimeModifies
    <3> QED
      BY <1>1, <3>1, <3>2, ResetWhileHalted DEF Begun
  <2>3. /\ acc.at = 1 => ("reset" \in v.usb_cmd <=> pc = "reset")
        /\ acc.at = 2 /\ pc = "start" => "event_interrupt" \notin v.usb_status
        /\ acc.at = 5 /\ pc \in {"stop", "start"} => v.dcbaap = r.dcbaap
        /\ acc.at = 6 /\ pc \in {"stop", "start"} => v.config = r.config
    <3>1. OpValue
      BY DEF DevicesInv
    <3>2. /\ acc.at = 1 => Have(1)
          /\ acc.at = 2 => Have(2)
          /\ acc.at = 5 => Have(5)
          /\ acc.at = 6 => Have(6)
      BY <1>1 DEF Have
    <3> QED
      BY <1>1, <1>4, <3>1, <3>2 DEF OpValue
  <2>4. pc \in {"stop", "reset", "slots", "ring", "ack status", "start"}
    BY <1>4 DEF OpModifies, Modifies, RuntimeModifies
  <2>5. /\ turn = 1 /\ pc = "stop" => fresh = {}
        /\ pc \in {"slots", "ring"} => "event_interrupt" \notin r.usb_status
        /\ pc = "reset" /\ acc.at = 2 =>
             "reset" \in r.usb_cmd \/ "event_interrupt" \notin r.usb_status
    <3>1. pc \in {"slots", "ring"} => pc \in Setup /\ ~Begun("start")
      BY DEF Begun, Setup, BehindCommandRing, BehindSlots, BehindContexts,
        BehindRing, BehindEnable, BehindEventMemory, BehindEventRing, BehindEventCell, Started
    <3>2. pc = "reset" /\ acc.at = 2 => Begun("reset")
      BY <1>1 DEF Begun
    <3> QED
      BY <1>1, <3>1, <3>2 DEF Halted
  <2> HIDE DEF r, s, v
  <2>6. \/ "halted" \in r.usb_status
        \/ /\ s.dcbaap = r.dcbaap /\ s.config = r.config
           /\ s.erst_size = r.erst_size /\ s.erstba = r.erstba
           /\ "reset" \notin s.usb_cmd
    <3>1. CASE pc \in {"stop", "start"}
      BY <2>1, <2>2, <2>3, <3>1
    <3>2. CASE pc \notin {"stop", "start"}
      BY <1>2, <3>2
    <3> QED
      BY <3>1, <3>2
  <2>7. ASSUME turn = 1, Driven \in fresh, "event_interrupt" \in r.usb_status,
               "event_interrupt" \notin s.usb_status
        PROVE  pc = "ack status" \/ "reset" \in r.usb_cmd
    <3>1. \/ s = r
          \/ acc.at = 2 /\ "event_interrupt" \in v.usb_status
      BY <2>1, <2>7
    <3>2. acc.at = 2 /\ "event_interrupt" \in v.usb_status
      BY <2>7, <3>1
    <3> QED
      BY <2>3, <2>4, <2>5, <2>7, <3>2
  <2> QED
    BY <1>1, <2>1, <2>6, <2>7 DEF r, s
<1> QED
  BY <1>1, <1>3, <1>4 DEF OpModifies

(* The registers that only a halted controller may be given change only    *)
(* then, and it is reset only when halted (controller.rs:68-81,            *)
(* main.rs:199-211).                                                       *)
THEOREM OnlyConfiguredWhileHalted == Spec => ConfiguredWhileHalted
<1>1. ASSUME DevicesInv, [Next]_vars
      PROVE  \A c \in DOMAIN regs :
               /\ (\E d \in {"dcbaap", "config", "erst_size", "erstba"} : regs'[c][d] # regs[c][d])
                    => "halted" \in regs[c].usb_status
               /\ "reset" \in regs'[c].usb_cmd => "halted" \in regs[c].usb_status
  <2> SUFFICES ASSUME NEW c \in Controllers
               PROVE  /\ (\E d \in {"dcbaap", "config", "erst_size", "erstba"} :
                            regs'[c][d] # regs[c][d]) => "halted" \in regs[c].usb_status
                      /\ "reset" \in regs'[c].usb_cmd => "halted" \in regs[c].usb_status
    BY <1>1 DEF DevicesInv, Shape
  <2>1. "reset" \in regs[c].usb_cmd => "halted" \in regs[c].usb_status
    BY <1>1, ResetWhileHalted
  <2>2. CASE regs'[c] = regs[c]
    BY <2>1, <2>2
  <2>3. CASE Device /\ c = Driven
    BY <1>1, <2>1, <2>3, DeviceMoves
  <2>4. CASE WriteDword /\ c = Driven
    BY <1>1, <2>4, WriteMoves
  <2>5. c # Driven /\ (Device \/ WriteDword) => regs'[c] = regs[c]
    BY <1>1, DeviceMoves, WriteMoves
  <2> QED
    BY <1>1, <2>2, <2>3, <2>4, <2>5, RegisterSteps
<1>2. DevicesInv /\ [Next]_vars =>
        [\A c \in DOMAIN regs :
           /\ (\E d \in {"dcbaap", "config", "erst_size", "erstba"} : regs'[c][d] # regs[c][d])
                => "halted" \in regs[c].usb_status
           /\ "reset" \in regs'[c].usb_cmd => "halted" \in regs[c].usb_status]_vars
  BY <1>1
<1> QED
  BY <1>2, Invariance, PTL DEF Spec, ConfiguredWhileHalted

(* An event interrupt is taken back by ack_interrupt only, or by a reset   *)
(* (controller.rs:159-169, pci.rs:516-521).                                *)
THEOREM OnlyAcknowledgedByAck == Spec => AckOnly
<1>1. ASSUME DevicesInv, [Next]_vars
      PROVE  \A c \in fresh :
               /\ turn = 1
               /\ "event_interrupt" \in regs[c].usb_status
               /\ "event_interrupt" \notin regs'[c].usb_status
               => pc = "ack status" \/ "reset" \in regs[c].usb_cmd
  <2> SUFFICES ASSUME NEW c \in fresh, turn = 1,
                      "event_interrupt" \in regs[c].usb_status,
                      "event_interrupt" \notin regs'[c].usb_status
               PROVE  pc = "ack status" \/ "reset" \in regs[c].usb_cmd
    OBVIOUS
  <2>1. c = Driven
    BY <1>1 DEF DevicesInv, OthersUntouched, Shape
  <2>2. CASE Device
    BY <1>1, <2>1, <2>2, DeviceMoves
  <2>3. CASE WriteDword
    BY <1>1, <2>1, <2>3, WriteMoves
  <2> QED
    BY <1>1, <2>2, <2>3, RegisterSteps
<1>2. DevicesInv /\ [Next]_vars =>
        [\A c \in fresh :
           /\ turn = 1
           /\ "event_interrupt" \in regs[c].usb_status
           /\ "event_interrupt" \notin regs'[c].usb_status
           => pc = "ack status" \/ "reset" \in regs[c].usb_cmd]_vars
  BY <1>1
<1> QED
  BY <1>2, Invariance, PTL DEF Spec, AckOnly
=============================================================================
