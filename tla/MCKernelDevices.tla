-------------------------- MODULE MCKernelDevices --------------------------
(* Two buses of two devices of three functions.  The machines have a card  *)
(* with two functions, or one that answers at both numbers; a bridge, or   *)
(* an orphan at function 1; and no, one or two xHCI controllers, of which  *)
(* one has its runtime registers behind the window and one more            *)
(* scratchpads than pointers.                                              *)
EXTENDS KernelDevices

Region(kind, b2) == [kind |-> kind, base |-> <<0, 0, b2, 0>>]
High(b) == [kind |-> "high", base |-> <<b, 0, 0, 0>>]
NoRegion == Region("none", 0)

(* The BAR slots of a device, from 0 on.                                   *)
Slots(s) == [i \in 0..(Len(s) - 1) |-> s[i + 1]]

Plain(multi, bars) ==
  [multi |-> multi, bridge |-> FALSE, class |-> <<2, 0, 0>>, secondary |-> 0,
   bars |-> Slots(bars)]

Card(multi) ==
  Plain(multi, <<Region("io", 9), Region("mem32", 8), NoRegion,
                 Region("mem32", 7), Region("mem64", 6), High(1)>>)
Bridge ==
  [multi |-> FALSE, bridge |-> TRUE, class |-> <<6, 4, 0>>, secondary |-> 1,
   bars |-> Slots(<<Region("mem32", 5), Region("mem32", 4)>>)]
Xhci(b2, runtimePage, scratchpads, crcrReadable) ==
  [multi |-> FALSE, bridge |-> FALSE, class |-> <<12, 3, 48>>, secondary |-> 0,
   bars |-> Slots(<<Region("mem64", b2), High(1), NoRegion, NoRegion, NoRegion, NoRegion>>),
   xhci |-> [runtimePage |-> runtimePage, slots |-> 2,
             scratchpads |-> scratchpads, crcrReadable |-> crcrReadable]]

Machine(f1, f2, f3) == [l \in DOMAIN f1 \cup DOMAIN f2 \cup DOMAIN f3 |->
  IF l \in DOMAIN f1 THEN f1[l] ELSE IF l \in DOMAIN f2 THEN f2[l] ELSE f3[l]]
Slot(l, dev) == [x \in {l} |-> dev]
Empty == [x \in {} |-> 0]

Twin(multi) == Machine(Slot(<<0, 0, 0>>, Card(multi)), Slot(<<0, 0, 2>>, Card(FALSE)), Empty)
Seconds == {Slot(<<0, 1, 0>>, Bridge), Slot(<<0, 1, 1>>, Card(FALSE))}

MCMachines ==
  {Machine(Twin(m), s, Empty) : m \in BOOLEAN, s \in Seconds}
    \cup {Machine(Twin(TRUE), s, Slot(<<1, 1, 0>>, Xhci(32, 2, n, r))) :
            s \in Seconds, n \in {0, 2}, r \in BOOLEAN}
    \cup {Machine(Slot(<<0, 1, 0>>, Xhci(32, 1, 1, TRUE)),
                  Slot(<<1, 0, 0>>, Xhci(48, 2, 0, TRUE)), Empty),
          Slot(<<1, 0, 0>>, Xhci(32, 4, 0, TRUE)),
          Slot(<<1, 0, 0>>, Xhci(32, 3, 3, TRUE))}
=============================================================================
