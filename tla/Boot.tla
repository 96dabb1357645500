-------------------------------- MODULE Boot --------------------------------
(* The kernel's only thread from _start to the frame loop (main.rs), next  *)
(* to the interrupts: the two interrupt controllers, the timer with its    *)
(* handler and wait_ms (time.rs), the keyboard with its handler (ps2.rs),  *)
(* any other interrupt with catch_all_irq, and the panic handler.  An      *)
(* interrupt may be taken between any two steps of the thread, and devices *)
(* act between any two steps of a handler.                                 *)
EXTENDS Framebuffer

CONSTANTS
  OtherIrqs,     \* interrupt lines besides timer and keyboard that are used
  Waits,         \* the arguments wait_ms is called with, 50 and 1 in the code
  Horizon,       \* bound: TICKS and the edges are counted up to here
  MaxKeys,       \* bound on the scan codes sent
  Framebuffers,  \* what the boot loader may report: sets of at most one
  Texts,         \* what a frame may print
  TextOrigin     \* 5: where draw_string begins

ASSUME BootAssumption ==
  /\ OtherIrqs \subseteq 3..15
  /\ Horizon \in Nat /\ Waits \subseteq 0..(Horizon - 2)
  /\ MaxKeys \in Nat

(* A row of the framebuffer has room for its pixels, and a text consists   *)
(* of line breaks and bytes, of which each has a glyph.                    *)
ASSUME ScreenAssumption ==
  /\ TextOrigin \in Nat
  /\ Texts \subseteq Seq(DOMAIN Font \cup {NewLine})
  /\ \A f \in Framebuffers : \A g \in f :
       /\ g.width \in Nat /\ g.height \in Nat /\ g.pitch \in Nat
       /\ g.bpp = 32 => 4 * g.width <= g.pitch

VARIABLES
  pc,        \* the thread's step
  flag,      \* the interrupt flag of the CPU
  stack,     \* the handlers that run, the innermost last
  idt,       \* IDT loaded
  pic,       \* the interrupt controllers: mask, requests, in service
  obf,       \* the keyboard controller's output buffer is full (external)
  keys,      \* scan codes sent, waiting in the keyboard, and counted
  cells,     \* the Once cells that have been initialised
  pit,       \* the timer's divisor: clocks per tick
  ticks,     \* TICKS since wait_ms loaded it, up to Horizon
  edges,     \* timer edges since then, up to Horizon (external)
  wait,      \* the argument of the wait_ms in progress
  fb,        \* the framebuffer of the boot loader, at most one (external)
  text,      \* TEXT_OUT_BUFFER
  screen,    \* what the framebuffer's memory shows
  deaf       \* the keyboard's edge was lost when the PICs were initialised

picVars == <<flag, stack, idt, pic>>
keyVars == <<obf, keys, deaf>>
timeVars == <<pit, ticks, edges, wait>>
drawVars == <<fb, text, screen>>
vars == <<pc, picVars, keyVars, cells, timeVars, drawVars>>

Timer == 0
Keyboard == 1
Cascade == 2
Irqs == {Timer, Keyboard} \cup OtherIrqs

UpTo(n) == IF n < Horizon THEN n ELSE Horizon

-----------------------------------------------------------------------------
(* The interrupt controllers (external).  Requests are edges; a line of    *)
(* the slave is in service at the slave and at line 2 of the master.       *)

LineAtMaster(r) == IF r >= 8 THEN Cascade ELSE r

Lowest(S) == CHOOSE r \in S : \A s \in S : r <= s
EoiMaster(p) ==
  LET S == p.isr \cap 0..7 IN IF S = {} THEN p ELSE [p EXCEPT !.isr = @ \ {Lowest(S)}]
EoiSlave(p) ==
  LET S == p.isr \cap 8..15 IN IF S = {} THEN p ELSE [p EXCEPT !.isr = @ \ {Lowest(S)}]

Deliverable(r) ==
  /\ r \in pic.irr /\ r \notin pic.mask /\ LineAtMaster(r) \notin pic.mask
  /\ \A s \in pic.isr \cap 0..7 : LineAtMaster(r) < s
  /\ \A s \in pic.isr \cap 8..15 : r < 8 \/ r < s

-----------------------------------------------------------------------------
(* The devices (external).                                                 *)

TimerEdge ==
  /\ pic' = [pic EXCEPT !.irr = @ \cup {Timer}]
  /\ edges' = IF pc = "waiting" THEN UpTo(edges + 1) ELSE 0
  /\ UNCHANGED <<pc, flag, stack, idt, keyVars, cells, pit, ticks, wait, drawVars>>

OtherEdge(r) ==
  /\ r \notin pic.irr
  /\ pic' = [pic EXCEPT !.irr = @ \cup {r}]
  /\ UNCHANGED <<pc, flag, stack, idt, keyVars, cells, timeVars, drawVars>>

KeyPress ==
  /\ keys.sent < MaxKeys
  /\ keys' = [keys EXCEPT !.sent = @ + 1, !.queue = @ + 1]
  /\ UNCHANGED <<pc, picVars, obf, deaf, cells, timeVars, drawVars>>

(* The next scan code goes into the empty output buffer, which raises the  *)
(* keyboard's line; the line falls when the buffer is read.                *)
KeyFill ==
  /\ keys.queue > 0 /\ ~obf
  /\ obf' = TRUE
  /\ keys' = [keys EXCEPT !.queue = @ - 1]
  /\ pic' = [pic EXCEPT !.irr = @ \cup {Keyboard}]
  /\ UNCHANGED <<pc, flag, stack, idt, deaf, cells, timeVars, drawVars>>

-----------------------------------------------------------------------------
(* The interrupt handlers.  Their gates are interrupt gates: the CPU       *)
(* clears the interrupt flag on entry and restores it on return.           *)

(* Mutation of FirstStep: catch_all_irq writes to the master only.         *)
FirstStepMasterOnly(r) ==
  CASE r = Timer -> "tick" [] r = Keyboard -> "status" [] OTHER -> "eoi master"

FirstStep(r) ==
  CASE r = Timer -> "tick" [] r = Keyboard -> "status" [] OTHER -> "eoi slave"

Interrupt(r) ==
  /\ flag /\ idt /\ Deliverable(r)
  /\ flag' = FALSE
  /\ stack' = Append(stack, [irq |-> r, at |-> FirstStep(r)])
  /\ pic' = [pic EXCEPT !.irr = @ \ {r}, !.isr = @ \cup {r, LineAtMaster(r)}]
  /\ UNCHANGED <<pc, idt, keyVars, cells, timeVars, drawVars>>

Running == stack # <<>> /\ pc # "panicked"
Handler == stack[Len(stack)]
Proceed(x) == stack' = [stack EXCEPT ![Len(stack)].at = x]

(* panic_handler: interrupts off, then halt for good.                      *)
Panic == pc' = "panicked" /\ flag' = FALSE

(* irq0_handler *)
Tick ==
  /\ Running /\ Handler.at = "tick"
  /\ ticks' = IF pc = "waiting" THEN UpTo(ticks + 1) ELSE 0
  /\ Proceed("eoi master")
  /\ UNCHANGED <<pc, flag, idt, pic, keyVars, cells, pit, edges, wait, drawVars>>

(* keyboard_handler: it takes a scan code only if the status says there is *)
(* one, and unwraps the counter's cell.                                    *)
KeyStatus ==
  /\ Running /\ Handler.at = "status"
  /\ Proceed(IF obf THEN "data" ELSE "eoi slave")
  /\ UNCHANGED <<pc, flag, idt, pic, keyVars, cells, timeVars, drawVars>>

(* Mutation of KeyData: port 0x60 is not read.                             *)
KeyDataUnread ==
  /\ Running /\ Handler.at = "data"
  /\ Proceed("count")
  /\ UNCHANGED <<pc, flag, idt, pic, keyVars, cells, timeVars, drawVars>>

KeyData ==
  /\ Running /\ Handler.at = "data"
  /\ obf' = FALSE
  /\ Proceed("count")
  /\ UNCHANGED <<pc, flag, idt, pic, keys, deaf, cells, timeVars, drawVars>>

(* Mutation of KeyCount: a key counts twice, for its make and its break.   *)
KeyCountTwice ==
  /\ Running /\ Handler.at = "count"
  /\ IF "keys" \in cells
     THEN /\ keys' = [keys EXCEPT !.counted = @ + 2]
          /\ Proceed("eoi slave")
          /\ UNCHANGED <<pc, flag>>
     ELSE Panic /\ UNCHANGED <<keys, stack>>
  /\ UNCHANGED <<idt, pic, obf, deaf, cells, timeVars, drawVars>>

(* Mutation of KeyCount: it unwraps the mapper's cell, a later one.        *)
KeyCountMapper ==
  /\ Running /\ Handler.at = "count"
  /\ IF "mapper" \in cells
     THEN /\ keys' = [keys EXCEPT !.counted = @ + 1]
          /\ Proceed("eoi slave")
          /\ UNCHANGED <<pc, flag>>
     ELSE Panic /\ UNCHANGED <<keys, stack>>
  /\ UNCHANGED <<idt, pic, obf, deaf, cells, timeVars, drawVars>>

KeyCount ==
  /\ Running /\ Handler.at = "count"
  /\ IF "keys" \in cells
     THEN /\ keys' = [keys EXCEPT !.counted = @ + 1]
          /\ Proceed("eoi slave")
          /\ UNCHANGED <<pc, flag>>
     ELSE Panic /\ UNCHANGED <<keys, stack>>
  /\ UNCHANGED <<idt, pic, obf, deaf, cells, timeVars, drawVars>>

(* The end of interrupt commands; catch_all_irq and keyboard_handler send  *)
(* both.  The return from the handler goes with the last one.              *)
SendEoiSlave ==
  /\ Running /\ Handler.at = "eoi slave"
  /\ pic' = EoiSlave(pic)
  /\ Proceed("eoi master")
  /\ UNCHANGED <<pc, flag, idt, keyVars, cells, timeVars, drawVars>>

(* Mutation of SendEoiMaster: outb(0x20, 0x20) is forgotten.               *)
SendEoiMasterForgotten ==
  /\ Running /\ Handler.at = "eoi master"
  /\ stack' = SubSeq(stack, 1, Len(stack) - 1)
  /\ flag' = TRUE
  /\ UNCHANGED <<pc, idt, pic, keyVars, cells, timeVars, drawVars>>

(* Mutation of SendEoiMaster: a plain return, which restores no flag.      *)
SendEoiMasterRet ==
  /\ Running /\ Handler.at = "eoi master"
  /\ pic' = EoiMaster(pic)
  /\ stack' = SubSeq(stack, 1, Len(stack) - 1)
  /\ UNCHANGED <<pc, flag, idt, keyVars, cells, timeVars, drawVars>>

SendEoiMaster ==
  /\ Running /\ Handler.at = "eoi master"
  /\ pic' = EoiMaster(pic)
  /\ stack' = SubSeq(stack, 1, Len(stack) - 1)
  /\ flag' = TRUE
  /\ UNCHANGED <<pc, idt, keyVars, cells, timeVars, drawVars>>

HandlerStep ==
  Tick \/ KeyStatus \/ KeyData \/ KeyCount \/ SendEoiSlave \/ SendEoiMaster

-----------------------------------------------------------------------------
(* The thread.  It runs while no handler does.                             *)

From(x) == pc = x /\ stack = <<>>

(* kernel_stack_init: cli, pic_remap, IDT.load.  The first word of the     *)
(* initialisation clears requests, services and masks; a line that is high *)
(* already gives no edge afterwards.                                       *)
Cli ==
  /\ From("cli")
  /\ pc' = "remap" /\ flag' = FALSE
  /\ UNCHANGED <<stack, idt, pic, keyVars, cells, timeVars, drawVars>>

pic_remap ==
  /\ From("remap")
  /\ pc' = "mask"
  /\ pic' = [mask |-> {}, irr |-> {}, isr |-> {}]
  /\ deaf' = obf
  /\ UNCHANGED <<flag, stack, idt, obf, keys, cells, timeVars, drawVars>>

(* Mutation of PicMasks: 0xF9, which masks the timer.                      *)
PicMasksNoTimer ==
  /\ From("mask")
  /\ pc' = "idt" /\ pic' = [pic EXCEPT !.mask = {0} \cup 3..7]
  /\ UNCHANGED <<flag, stack, idt, keyVars, cells, timeVars, drawVars>>

(* Master mask 0xF8, slave mask 0.                                         *)
PicMasks ==
  /\ From("mask")
  /\ pc' = "idt" /\ pic' = [pic EXCEPT !.mask = 3..7]
  /\ UNCHANGED <<flag, stack, idt, keyVars, cells, timeVars, drawVars>>

LoadIdt ==
  /\ From("idt")
  /\ pc' = "pit" /\ idt' = TRUE
  /\ UNCHANGED <<flag, stack, pic, keyVars, cells, timeVars, drawVars>>

(* kernel_main up to its loop.  pit_init keeps 16 bits of the divisor.     *)
PIT_FREQUENCY == 1193182
pit_divisor(hz) == (PIT_FREQUENCY \div hz) % 65536

pit_init ==
  /\ From("pit")
  /\ pc' = "sti" /\ pit' = pit_divisor(1000)
  /\ UNCHANGED <<picVars, keyVars, cells, ticks, edges, wait, drawVars>>

Sti ==
  /\ From("sti")
  /\ pc' = "framebuffer" /\ flag' = TRUE
  /\ UNCHANGED <<stack, idt, pic, keyVars, cells, timeVars, drawVars>>

InitFramebuffer ==
  /\ From("framebuffer")
  /\ \E f \in Framebuffers :
       /\ fb' = f
       /\ CASE f = {} -> pc' = "text" /\ UNCHANGED <<flag, cells, screen>>
            [] \E g \in f : g.bpp # 32 -> Panic /\ UNCHANGED <<cells, screen>>
            [] OTHER -> /\ pc' = "text" /\ cells' = cells \cup {"render"}
                        /\ UNCHANGED <<flag, screen>>
  /\ UNCHANGED <<stack, idt, pic, keyVars, timeVars, text>>

InitCell(x, cell, next) ==
  /\ From(x)
  /\ pc' = next /\ cells' = cells \cup {cell}
  /\ UNCHANGED <<picVars, keyVars, timeVars, drawVars>>

(* The device part of kernel_main, of which the waits and the panics       *)
(* matter here.  wait_ms loads TICKS, and spins until TICKS has reached    *)
(* the target.                                                             *)
CallWait ==
  /\ From("devices")
  /\ \E ms \in Waits : wait' = ms
  /\ pc' = "waiting" /\ ticks' = 0 /\ edges' = 0
  /\ UNCHANGED <<picVars, keyVars, cells, pit, drawVars>>

(* Mutation of ReturnFromWait: the loop ends one tick early.               *)
ReturnFromWaitEarly ==
  /\ From("waiting")
  /\ ticks + 1 >= wait
  /\ pc' = "devices" /\ ticks' = 0 /\ edges' = 0 /\ wait' = 0
  /\ UNCHANGED <<picVars, keyVars, cells, pit, drawVars>>

ReturnFromWait ==
  /\ From("waiting")
  /\ ticks >= wait
  /\ pc' = "devices" /\ ticks' = 0 /\ edges' = 0 /\ wait' = 0
  /\ UNCHANGED <<picVars, keyVars, cells, pit, drawVars>>

(* An index past the scratchpad array, or a page fault behind the mapped   *)
(* window: PanicOnlyBeyondLimits of KernelDevices says of which machines.  *)
(* The handler of the fault does not return.                               *)
DevicesPanic ==
  /\ From("devices")
  /\ Panic
  /\ UNCHANGED <<stack, idt, pic, keyVars, cells, timeVars, drawVars>>

DevicesDone ==
  /\ From("devices")
  /\ pc' = "frame"
  /\ UNCHANGED <<picVars, keyVars, cells, timeVars, drawVars>>

(* The frame loop: unwrap the framebuffer's cell; print into the text      *)
(* buffer; clear, draw the text, flip, and empty the buffer.  The tick     *)
(* counts of a frame are only printed.                                     *)
StartFrame ==
  /\ From("frame")
  /\ IF "render" \in cells THEN pc' = "print" /\ UNCHANGED flag ELSE Panic
  /\ UNCHANGED <<stack, idt, pic, keyVars, cells, timeVars, drawVars>>

write_str(s) == text' = text \o s

PrintText ==
  /\ From("print")
  /\ pc' = "draw" /\ \E t \in Texts : write_str(t)
  /\ UNCHANGED <<picVars, keyVars, cells, timeVars, fb, screen>>

Background == 1
Foreground == 2

DrawFrame ==
  /\ From("draw")
  /\ \E g \in fb :
       screen' = Flipped(g, Drawn(g, Cleared(g, NewBackbuffer(g), Background),
                                  TextOrigin, TextOrigin, text, Foreground, 1))
  /\ text' = <<>> /\ pc' = "frame end"
  /\ UNCHANGED <<picVars, keyVars, cells, timeVars, fb>>

EndFrame ==
  /\ From("frame end")
  /\ pc' = "frame"
  /\ UNCHANGED <<picVars, keyVars, cells, timeVars, drawVars>>

Thread ==
  \/ Cli \/ pic_remap \/ PicMasks \/ LoadIdt \/ pit_init \/ Sti \/ InitFramebuffer
  \/ InitCell("text", "text", "keys") \/ InitCell("keys", "keys", "mapper")
  \/ InitCell("mapper", "mapper", "devices")
  \/ CallWait \/ ReturnFromWait \/ DevicesPanic \/ DevicesDone
  \/ StartFrame \/ PrintText \/ DrawFrame \/ EndFrame

-----------------------------------------------------------------------------
(* The boot loader hands over with interrupts off and every line masked.   *)
Init ==
  /\ pc = "cli" /\ flag = FALSE /\ stack = <<>> /\ idt = FALSE
  /\ pic = [mask |-> 0..15, irr |-> {}, isr |-> {}]
  /\ obf = FALSE /\ keys = [sent |-> 0, queue |-> 0, counted |-> 0] /\ deaf = FALSE
  /\ cells = {}
  /\ pit = 65536 /\ ticks = 0 /\ edges = 0 /\ wait = 0
  /\ fb = {} /\ text = <<>> /\ screen = <<>>

Devices == TimerEdge \/ KeyPress \/ KeyFill \/ \E r \in OtherIrqs : OtherEdge(r)

Next == Thread \/ HandlerStep \/ (\E r \in Irqs : Interrupt(r)) \/ Devices

(* Handlers run to their end.  Interrupts come slower than they are        *)
(* handled, so a request whose turn comes again and again is delivered and *)
(* the thread, which every handler interrupts, goes on.  The timer ticks,  *)
(* and the keyboard sends what it has; nobody has to press a key.  The     *)
(* thread waits only finitely often: BringUpEnds of KernelDevices.         *)
Fairness ==
  /\ WF_vars(HandlerStep) /\ SF_vars(Thread)
  /\ \A r \in Irqs : SF_vars(Interrupt(r))
  /\ WF_vars(TimerEdge) /\ WF_vars(KeyFill)
  /\ SF_vars(DevicesDone)

Spec == Init /\ [][Next]_vars /\ Fairness

-----------------------------------------------------------------------------
(* Properties.                                                             *)

Steps == {"cli", "remap", "mask", "idt", "pit", "sti", "framebuffer", "text", "keys",
          "mapper", "devices", "waiting", "frame", "print", "draw", "frame end",
          "panicked"}
HandlerSteps == {"tick", "status", "data", "count", "eoi slave", "eoi master"}

HandlerRecords == [irq : Irqs, at : HandlerSteps]
PicStates ==
  [mask : SUBSET (0..15), irr : SUBSET Irqs, isr : SUBSET (Irqs \cup {Cascade})]
KeyStates == [sent : 0..MaxKeys, queue : 0..MaxKeys, counted : 0..MaxKeys]

FlagTypes ==
  flag \in BOOLEAN /\ idt \in BOOLEAN /\ obf \in BOOLEAN /\ deaf \in BOOLEAN
PicTypes == stack \in Seq(HandlerRecords) /\ pic \in PicStates
KeyTypes == keys \in KeyStates
CellTypes == cells \subseteq {"render", "text", "keys", "mapper"}
Divisors == 1 .. 65536
TimeTypes ==
  /\ pit \in Divisors /\ ticks \in 0..Horizon /\ edges \in 0..Horizon
  /\ wait \in Waits \cup {0}

TypeOK ==
  pc \in Steps /\ FlagTypes /\ PicTypes /\ KeyTypes /\ CellTypes /\ TimeTypes

(* The interrupts in service are those of the running handler, from its    *)
(* entry to its end of interrupt: no handler returns and leaves a line     *)
(* blocked, none retires another's interrupt, and none is interrupted.     *)
(* The slave's line is released first, the cascade with the master's       *)
(* (main.rs:97-102, time.rs:23-28, ps2.rs:11-23).                          *)
InService(h) ==
  IF h.irq >= 8 /\ h.at # "eoi master" THEN {h.irq, Cascade} ELSE {LineAtMaster(h.irq)}

ServiceExact ==
  /\ Len(stack) <= 1
  /\ pic.isr = UNION {InService(stack[i]) : i \in 1..Len(stack)}

(* Every scan code that was sent is waiting, in the buffer, on its way     *)
(* through the handler, or counted; none is counted twice (ps2.rs:11-17).  *)
KeysConserved ==
  keys.sent = keys.queue + keys.counted + (IF obf THEN 1 ELSE 0)
                + Cardinality({i \in 1..Len(stack) : stack[i].at = "count"})

(* Once the cells of the key counter and of the framebuffer have been      *)
(* initialised, no handler and no frame panics; only the thread does, and  *)
(* only in its device part.  Before, a key pressed between sti and         *)
(* call_once unwraps an empty cell in the handler, and without a           *)
(* framebuffer the first frame does (main.rs:165-227, 231, ps2.rs:16,      *)
(* framebuffer.rs:12).                                                     *)
PanicOnlyInDevices ==
  [][pc # "panicked" /\ pc' = "panicked" /\ {"keys", "render"} \subseteq cells
       => pc = "devices" /\ stack = <<>>]_vars

(* The screen shows the text of the frame, and only of this frame, clipped *)
(* at its edges, on the background; and every write of draw_char stays in  *)
(* the back buffer, whose rows are pitch bytes apart (main.rs:231-253,     *)
(* framebuffer.rs, font_renderer.rs:12-59).                                *)
ScreenExact ==
  pc = "frame end" =>
    \E g \in fb, t \in Texts :
      /\ DOMAIN screen \subseteq DOMAIN NewBackbuffer(g)
      /\ StringOffsets(g, TextOrigin, TextOrigin, t, 1) \subseteq DOMAIN NewBackbuffer(g)
      /\ \A x \in 0..(g.width - 1), y \in 0..(g.height - 1) :
           screen[y * pitch_u32(g) + x] =
             IF Lit(t, TextOrigin, TextOrigin, 1, x, y) THEN Foreground ELSE Background

(* wait_ms(n) lasts at least n - 1 milliseconds, but for the rounding of   *)
(* the timer's divisor: the first tick it counts may have been requested   *)
(* before it began (time.rs:11-35).                                        *)
WaitLongEnough ==
  [][pc = "waiting" /\ pc' = "devices"
       => edges * pit * 1000 >= (wait - 1) * (PIT_FREQUENCY - 1000)]_vars

(* wait_ms returns: the timer's interrupts keep coming whatever the other  *)
(* handlers do (time.rs:29-35, main.rs:97-102).                            *)
WaitReturns == pc = "waiting" ~> pc # "waiting"

(* A scan code in the keyboard's buffer is taken, unless the line was high *)
(* when the interrupt controllers were initialised or the kernel has       *)
(* panicked (ps2.rs:11-23, main.rs:367-417).                               *)
KeysTaken == obf ~> (~obf \/ deaf \/ pc = "panicked")

(* The kernel goes on drawing frames for ever, or has panicked.            *)
FramesGoOn == []<>(pc \in {"frame", "panicked"})
=============================================================================
