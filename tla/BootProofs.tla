----------------------------- MODULE BootProofs -----------------------------
(* Proofs about Boot, for every set of interrupt lines, every number of    *)
(* keys and all arguments of wait_ms: the handlers release exactly their   *)
(* own line, no key is lost or counted twice, only the device part can     *)
(* panic once the kernel is set up, wait_ms waits long enough, and the     *)
(* screen shows the text of the frame.                                     *)
EXTENDS Boot, FiniteSetTheorems, SequenceTheorems, WellFoundedInduction, TLAPS

(* The same as ServiceExact and KeysConserved, without the sets that range *)
(* over the stack: interrupts do not nest.                                 *)
ServiceFlat ==
  /\ Len(stack) <= 1
  /\ pic.isr = IF stack = <<>> THEN {} ELSE InService(stack[1])

Counting == stack # <<>> /\ stack[1].at = "count"

Buffered == IF obf THEN 1 ELSE 0
Taken == IF Counting THEN 1 ELSE 0

KeysFlat == keys.sent = keys.queue + keys.counted + Buffered + Taken

(* A handler runs with interrupts off, and takes a scan code only while    *)
(* there is one.                                                           *)
HandlerInv ==
  stack # <<>> =>
    /\ ~flag
    /\ stack[1].at = "tick" => stack[1].irq = Timer
    /\ stack[1].at = "data" => obf

(* No cell is initialised before the first one is, and the timer has its   *)
(* rate before anything waits.                                             *)
StartInv ==
  /\ pc \in {"cli", "remap", "mask", "idt", "pit", "sti", "framebuffer"} => cells = {}
  /\ pc \in {"sti", "framebuffer", "text", "keys", "mapper", "devices", "waiting"} => pit = 1193

(* TICKS is at most one ahead of the edges since wait_ms began, and the    *)
(* edges that are on their way count as ticks.                             *)
Ticking == stack # <<>> /\ stack[1].at = "tick"
Requested == IF Timer \in pic.irr THEN 1 ELSE 0
Entered == IF Ticking THEN 1 ELSE 0

WaitInv ==
  pc = "waiting" => edges = Horizon \/ ticks + Requested + Entered <= edges + 1

IInv ==
  /\ TypeOK /\ ServiceFlat /\ KeysFlat /\ HandlerInv
  /\ StartInv /\ WaitInv

-----------------------------------------------------------------------------
(* Facts about stacks of at most one handler.                              *)

(* A stack is empty or holds one handler.                                  *)
LEMMA StackCases ==
  ASSUME NEW s \in Seq(HandlerRecords), Len(s) <= 1
  PROVE  s = <<>> \/ (Len(s) = 1 /\ s # <<>> /\ s[1] \in HandlerRecords)
OBVIOUS

(* What a handler's step to x leaves on the stack.                         *)
LEMMA ProceedTo ==
  ASSUME NEW s \in Seq(HandlerRecords), Len(s) = 1, NEW x \in HandlerSteps
  PROVE  LET t == [s EXCEPT ![Len(s)].at = x] IN
         /\ t \in Seq(HandlerRecords) /\ Len(t) = 1 /\ t # <<>>
         /\ t[1].irq = s[1].irq /\ t[1].at = x
<1> DEFINE h == [s[1] EXCEPT !.at = x]
<1>1. s[1] \in HandlerRecords
  OBVIOUS
<1>2. h \in HandlerRecords /\ h.irq = s[1].irq /\ h.at = x
  BY <1>1 DEF HandlerRecords
<1> HIDE DEF h
<1> DEFINE t == [s EXCEPT ![1] = h]
<1>3. t \in Seq(HandlerRecords) /\ Len(t) = 1 /\ t[1] = h
  <2>1. 1 \in 1..Len(s)
    OBVIOUS
  <2>2. h \in HandlerRecords
    BY <1>2
  <2>3. /\ t \in Seq(HandlerRecords) /\ Len(t) = Len(s)
        /\ \A j \in 1..Len(s) : t[j] = IF j = 1 THEN h ELSE s[j]
    BY <2>1, <2>2, ExceptSeq
  <2> QED
    BY <2>1, <2>3
<1>4. t # <<>>
  BY <1>3, EmptySeq
<1>5. [s EXCEPT ![Len(s)].at = x] = t
  BY DEF h
<1> QED
  BY <1>2, <1>3, <1>4, <1>5

(* What an interrupt's entry puts on the stack.                            *)
LEMMA PushOne ==
  ASSUME NEW h \in HandlerRecords
  PROVE  LET t == Append(<<>>, h) IN
         t \in Seq(HandlerRecords) /\ Len(t) = 1 /\ t # <<>> /\ t[1] = h
OBVIOUS

(* What the return of the only handler leaves.                             *)
LEMMA PopOne ==
  ASSUME NEW s \in Seq(HandlerRecords), Len(s) = 1
  PROVE  SubSeq(s, 1, Len(s) - 1) = <<>>
OBVIOUS

(* The lines in service for a stack.                                       *)
LEMMA ServiceOfStack ==
  ASSUME NEW s \in Seq(HandlerRecords), Len(s) <= 1
  PROVE  UNION {InService(s[i]) : i \in 1..Len(s)} =
           IF s = <<>> THEN {} ELSE InService(s[1])
<1>1. CASE s = <<>>
  BY <1>1
<1>2. CASE Len(s) = 1
  <2>1. 1..1 = {1}
    OBVIOUS
  <2>2. s # <<>>
    BY <1>2, EmptySeq
  <2> QED
    BY <2>1, <2>2, <1>2
<1> QED
  BY <1>1, <1>2, StackCases

(* The handlers of a stack that hold a scan code.                          *)
LEMMA CountOfStack ==
  ASSUME NEW s \in Seq(HandlerRecords), Len(s) <= 1
  PROVE  Cardinality({i \in 1..Len(s) : s[i].at = "count"}) =
           IF s # <<>> /\ s[1].at = "count" THEN 1 ELSE 0
<1> DEFINE C == {i \in 1..Len(s) : s[i].at = "count"}
<1>1. CASE s # <<>> /\ s[1].at = "count"
  <2>1. C = {1}
    BY <1>1, StackCases
  <2> QED
    BY <2>1, <1>1, FS_Singleton
<1>2. CASE ~(s # <<>> /\ s[1].at = "count")
  <2>1. C = {}
    BY <1>2, StackCases
  <2> QED
    BY <2>1, <1>2, FS_EmptySet
<1> QED
  BY <1>1, <1>2

(* An end of interrupt takes back the only line that is in service there.  *)
LEMMA LowestOfOne ==
  ASSUME NEW r \in Int
  PROVE  Lowest({r}) = r
BY DEF Lowest
-----------------------------------------------------------------------------
(* Facts about the interrupt controllers.                                  *)

(* The lines are those of two controllers.                                 *)
LEMMA IrqRange ==
  /\ Irqs \subseteq 0..15 /\ Cascade = 2
  /\ \A r \in Irqs : LineAtMaster(r) \in 0..7
<1>1. OtherIrqs \subseteq 3..15
  BY BootAssumption
<1>2. Irqs \subseteq 0..15 /\ Cascade = 2
  BY <1>1 DEF Irqs, Timer, Keyboard, Cascade
<1> QED
  BY <1>2 DEF LineAtMaster

(* The slave's end of interrupt leaves the master's line.                  *)
LEMMA SlaveReleases ==
  ASSUME NEW p \in PicStates, NEW r \in Irqs,
         p.isr = IF r >= 8 THEN {r, Cascade} ELSE {r}
  PROVE  /\ EoiSlave(p) \in PicStates
         /\ EoiSlave(p).isr = {LineAtMaster(r)} /\ EoiSlave(p).irr = p.irr
<1>1. r \in 0..15 /\ Cascade = 2
  BY IrqRange
<1>2. CASE r >= 8
  <2>0. p.isr = {r, 2}
    BY <1>1, <1>2
  <2>1. p.isr \cap 8..15 = {r}
    <3>1. \A q \in p.isr \cap 8..15 : q = r
      BY <2>0
    <3>2. r \in p.isr \cap 8..15
      BY <1>1, <1>2, <2>0
    <3> QED
      BY <3>1, <3>2
  <2>2. Lowest(p.isr \cap 8..15) = r
    BY <1>1, <2>1, LowestOfOne
  <2>3. EoiSlave(p) = [p EXCEPT !.isr = @ \ {r}]
    BY <2>1, <2>2 DEF EoiSlave
  <2> QED
    BY <1>1, <1>2, <2>3 DEF PicStates, LineAtMaster
<1>3. CASE ~(r >= 8)
  <2>1. p.isr \cap 8..15 = {}
    BY <1>1, <1>3
  <2>2. EoiSlave(p) = p
    BY <2>1 DEF EoiSlave
  <2> QED
    BY <1>1, <1>3, <2>2 DEF LineAtMaster
<1> QED
  BY <1>2, <1>3

(* The master's end of interrupt leaves nothing in service.                *)
LEMMA MasterReleases ==
  ASSUME NEW p \in PicStates, NEW r \in Irqs, p.isr = {LineAtMaster(r)}
  PROVE  /\ EoiMaster(p) \in PicStates
         /\ EoiMaster(p).isr = {} /\ EoiMaster(p).irr = p.irr
<1> DEFINE m == LineAtMaster(r)
<1>1. m \in 0..7
  BY IrqRange
<1> HIDE DEF m
<1>2. p.isr = {m}
  BY DEF m
<1>3. p.isr \cap 0..7 = {m}
  BY <1>1, <1>2
<1>4. Lowest(p.isr \cap 0..7) = m
  BY <1>1, <1>3, LowestOfOne
<1>5. EoiMaster(p) = [p EXCEPT !.isr = @ \ {m}]
  BY <1>3, <1>4 DEF EoiMaster
<1> QED
  BY <1>2, <1>5 DEF PicStates

-----------------------------------------------------------------------------
(* The handler that runs.                                                  *)

(* There is one, and its record is the stack's first.                      *)
LEMMA RunningHandler ==
  ASSUME IInv, Running
  PROVE  /\ Len(stack) = 1 /\ stack # <<>> /\ Handler = stack[1]
         /\ stack[1] \in HandlerRecords /\ pc # "panicked" /\ ~flag
<1>1. stack \in Seq(HandlerRecords) /\ Len(stack) <= 1 /\ stack # <<>>
  BY DEF IInv, TypeOK, PicTypes, ServiceFlat, Running
<1>2. Len(stack) = 1 /\ stack[1] \in HandlerRecords
  BY <1>1, StackCases
<1> QED
  BY <1>1, <1>2 DEF Running, Handler, IInv, HandlerInv

(* What Proceed leaves.                                                    *)
LEMMA Proceeds ==
  ASSUME IInv, Running, NEW x \in HandlerSteps, Proceed(x)
  PROVE  /\ stack' \in Seq(HandlerRecords) /\ Len(stack') = 1 /\ stack' # <<>>
         /\ stack'[1].irq = stack[1].irq /\ stack'[1].at = x
<1>1. stack \in Seq(HandlerRecords)
  BY DEF IInv, TypeOK, PicTypes
<1>2. Len(stack) = 1
  BY RunningHandler
<1> QED
  BY <1>1, <1>2, ProceedTo DEF Proceed
-----------------------------------------------------------------------------
(* The invariant holds at the start and is kept by every step.             *)

(* What is assumed of the constants.                                       *)
LEMMA Bounds ==
  Horizon \in Nat /\ MaxKeys \in Nat /\ Waits \subseteq 0..(Horizon - 2)
BY BootAssumption

(* Two of three numbers that lose nothing.                                 *)
LEMMA SumBounded ==
  ASSUME NEW t \in Int, NEW a \in Int, NEW b \in Int, NEW c \in Int, NEW d \in Int,
         NEW e \in Int, c + d <= a + b, t + a + b <= e + 1
  PROVE  t + c + d <= e + 1
OBVIOUS

(* One number of at most one.                                              *)
LEMMA OneSummand ==
  ASSUME NEW c \in 0..1
  PROVE  0 + c + 0 <= 0 + 1
OBVIOUS

(* A third number of at most one.                                          *)
LEMMA OneSummandMore ==
  ASSUME NEW t \in Int, NEW c \in 0..1, NEW d \in 0..1, NEW e \in Int, t + d <= e + 1
  PROVE  t + c + d <= (e + 1) + 1
OBVIOUS

(* One count more, up to the bound.                                        *)
LEMMA OneMore ==
  ASSUME NEW n \in 0..Horizon
  PROVE  /\ UpTo(n + 1) \in 0..Horizon /\ UpTo(n + 1) <= n + 1
         /\ UpTo(n + 1) = Horizon \/ UpTo(n + 1) = n + 1
BY Bounds DEF UpTo

(* The numbers among the variables.                                        *)
LEMMA Numbers ==
  ASSUME TypeOK
  PROVE  /\ keys.sent \in Int /\ keys.queue \in Int /\ keys.counted \in Int
         /\ ticks \in 0..Horizon /\ edges \in 0..Horizon /\ ticks \in Int /\ edges \in Int
         /\ pit \in Divisors /\ wait \in Waits \cup {0}
<1>1. keys \in KeyStates /\ TimeTypes
  BY DEF TypeOK, KeyTypes
<1>2. keys.sent \in Int /\ keys.queue \in Int /\ keys.counted \in Int
  BY <1>1 DEF KeyStates
<1>3. /\ ticks \in 0..Horizon /\ edges \in 0..Horizon
      /\ pit \in Divisors /\ wait \in Waits \cup {0}
  BY <1>1 DEF TimeTypes
<1> QED
  BY <1>2, <1>3, Bounds

(* The time's types, one by one.                                           *)
LEMMA TimeTyped ==
  ASSUME pit' \in Divisors, ticks' \in 0..Horizon, edges' \in 0..Horizon,
         wait' \in Waits \cup {0}
  PROVE  TimeTypes'
BY DEF TimeTypes

(* The time's types stand when its variables stay the same.                *)
LEMMA TimeStays ==
  ASSUME TimeTypes, pit' = pit, ticks' = ticks, edges' = edges, wait' = wait
  PROVE  TimeTypes'
BY DEF TimeTypes

(* A part of the invariant stands when its variables stay the same.        *)
LEMMA Untouched ==
  ASSUME IInv
  PROVE  /\ UNCHANGED <<flag, idt, obf, deaf>> => FlagTypes'
         /\ UNCHANGED <<stack, pic>> => PicTypes' /\ ServiceFlat'
         /\ UNCHANGED keys => KeyTypes'
         /\ UNCHANGED cells => CellTypes'
         /\ UNCHANGED timeVars => TimeTypes'
         /\ UNCHANGED <<stack, obf, keys>> => KeysFlat'
         /\ UNCHANGED <<stack, flag, obf>> => HandlerInv'
         /\ UNCHANGED <<pc, cells, pit>> => StartInv'
         /\ UNCHANGED <<pc, stack, pic, ticks, edges>> => WaitInv'
<1>1. /\ UNCHANGED <<flag, idt, obf, deaf>> => FlagTypes'
      /\ UNCHANGED <<stack, pic>> => PicTypes'
      /\ UNCHANGED keys => KeyTypes'
      /\ UNCHANGED cells => CellTypes'
      /\ UNCHANGED timeVars => TimeTypes'
  <2>1. UNCHANGED <<flag, idt, obf, deaf>> => FlagTypes'
    BY Zenon DEF IInv, TypeOK, FlagTypes
  <2>2. UNCHANGED <<stack, pic>> => PicTypes'
    BY Zenon DEF IInv, TypeOK, PicTypes
  <2>3. UNCHANGED keys => KeyTypes'
    BY Zenon DEF IInv, TypeOK, KeyTypes
  <2>4. UNCHANGED cells => CellTypes'
    BY Zenon DEF IInv, TypeOK, CellTypes
  <2>5. UNCHANGED timeVars => TimeTypes'
    BY TimeStays DEF IInv, TypeOK, timeVars
  <2> QED
    BY <2>1, <2>2, <2>3, <2>4, <2>5
<1>2. UNCHANGED <<stack, pic>> => ServiceFlat'
  BY DEF IInv, ServiceFlat
<1>3. UNCHANGED <<stack, obf, keys>> => KeysFlat'
  BY DEF IInv, KeysFlat, Buffered, Taken, Counting
<1>4. UNCHANGED <<stack, flag, obf>> => HandlerInv'
  BY DEF IInv, HandlerInv
<1>5. UNCHANGED <<pc, cells, pit>> => StartInv'
  BY DEF IInv, StartInv
<1>6. UNCHANGED <<pc, stack, pic, ticks, edges>> => WaitInv'
  BY DEF IInv, WaitInv, Requested, Entered, Ticking
<1> QED
  BY <1>1, <1>2, <1>3, <1>4, <1>5, <1>6

(* What the boot loader hands over satisfies the invariant.                *)
LEMMA InitIInv == Init => IInv
<1> SUFFICES ASSUME Init PROVE IInv
  OBVIOUS
<1>1. TypeOK
  <2>1. PicTypes
    <3>1. pic \in PicStates
      BY DEF Init, PicStates
    <3>2. <<>> \in Seq(HandlerRecords)
      BY EmptySeq
    <3> QED
      BY <3>1, <3>2 DEF Init, PicTypes
  <2>2. KeyTypes
    BY Bounds DEF Init, KeyTypes, KeyStates
  <2>3. TimeTypes
    BY Bounds DEF Init, TimeTypes, Divisors
  <2>4. FlagTypes
    <3>1. flag = FALSE /\ idt = FALSE /\ obf = FALSE /\ deaf = FALSE
      BY DEF Init
    <3> QED
      BY <3>1, Zenon DEF FlagTypes
  <2> QED
    BY <2>1, <2>2, <2>3, <2>4 DEF Init, TypeOK, Steps, CellTypes
<1>2. ServiceFlat
  BY EmptySeq DEF Init, ServiceFlat
<1>3. KeysFlat
  BY DEF Init, KeysFlat, Buffered, Taken, Counting
<1> QED
  BY <1>1, <1>2, <1>3 DEF Init, IInv, HandlerInv, StartInv, WaitInv

(* An interrupt is taken with no handler running.                          *)
LEMMA InterruptKeepsIInv ==
  ASSUME IInv, NEW r \in Irqs, Interrupt(r)
  PROVE  IInv'
<1> DEFINE h == [irq |-> r, at |-> FirstStep(r)]
<1>1. stack = <<>> /\ flag
  BY DEF IInv, HandlerInv, Interrupt
<1>2. h \in HandlerRecords /\ h.irq = r /\ h.at = FirstStep(r)
  BY DEF HandlerRecords, HandlerSteps, FirstStep
<1> HIDE DEF h
<1>3. stack' \in Seq(HandlerRecords) /\ Len(stack') = 1 /\ stack' # <<>> /\ stack'[1] = h
  BY <1>1, <1>2, PushOne DEF Interrupt, h
<1>4. pic \in PicStates /\ pic.isr = {}
  BY <1>1 DEF IInv, TypeOK, PicTypes, ServiceFlat
<1>5. LineAtMaster(r) \in Irqs \cup {Cascade}
  BY DEF LineAtMaster
<1>6. /\ pic' \in PicStates /\ pic'.isr = {r, LineAtMaster(r)}
      /\ pic'.irr = pic.irr \ {r}
  BY <1>4, <1>5 DEF Interrupt, PicStates
<1>7. /\ FirstStep(r) \notin {"data", "count", "eoi master"}
      /\ FirstStep(r) = "tick" <=> r = Timer
  BY DEF FirstStep, Timer, Keyboard
<1>8. TypeOK'
  <2>1. FlagTypes'
    BY DEF IInv, TypeOK, FlagTypes, Interrupt, keyVars
  <2>2. PicTypes'
    BY <1>3, <1>6 DEF PicTypes
  <2>3. KeyTypes' /\ CellTypes'
    BY DEF IInv, TypeOK, KeyTypes, CellTypes, Interrupt, keyVars
  <2>4. TimeTypes'
    BY Untouched DEF IInv, TypeOK, Interrupt
  <2> QED
    BY <2>1, <2>2, <2>3, <2>4 DEF IInv, TypeOK, Interrupt
<1>9. ServiceFlat'
  <2>1. InService(h) = {r, LineAtMaster(r)}
    BY <1>2, <1>7 DEF InService, LineAtMaster
  <2> QED
    BY <1>3, <1>6, <2>1 DEF ServiceFlat
<1>10. KeysFlat' /\ HandlerInv'
  <2>1. ~Counting /\ ~Counting'
    BY <1>1, <1>2, <1>3, <1>7 DEF Counting
  <2>2. obf' = obf /\ keys' = keys /\ flag' = FALSE
    BY DEF Interrupt, keyVars
  <2>3. KeysFlat'
    BY <2>1, <2>2 DEF IInv, KeysFlat, Buffered, Taken
  <2>4. HandlerInv'
    BY <1>2, <1>3, <1>7, <2>2 DEF HandlerInv
  <2> QED
    BY <2>3, <2>4
<1>11. StartInv'
  BY DEF IInv, StartInv, Interrupt, timeVars
<1>12. WaitInv'
  <2>0. r \in pic.irr
    BY DEF Interrupt, Deliverable
  <2>1. pc' = pc /\ ticks' = ticks /\ edges' = edges
    BY DEF Interrupt, timeVars
  <2>2. ~Ticking /\ (Ticking' <=> r = Timer)
    BY <1>1, <1>2, <1>3, <1>7 DEF Ticking
  <2>3. Timer \in pic'.irr <=> r # Timer /\ Timer \in pic.irr
    BY <1>6
  <2>4. Requested' + Entered' <= Requested + Entered
    <3>1. CASE r = Timer
      BY <2>0, <2>2, <2>3, <3>1 DEF Requested, Entered
    <3>2. CASE r # Timer
      BY <2>2, <2>3, <3>2 DEF Requested, Entered
    <3> QED
      BY <3>1, <3>2
  <2>5. Requested \in Int /\ Entered \in Int /\ Requested' \in Int /\ Entered' \in Int
    BY DEF Requested, Entered
  <2>6. SUFFICES ASSUME pc' = "waiting", edges' # Horizon
                 PROVE  ticks' + Requested' + Entered' <= edges' + 1
    BY DEF WaitInv
  <2>7. ticks + Requested + Entered <= edges + 1
    BY <2>1, <2>6 DEF IInv, WaitInv
  <2>8. ticks \in Int /\ edges \in Int
    BY Numbers DEF IInv
  <2>9. ticks + Requested' + Entered' <= edges + 1
    BY <2>4, <2>5, <2>7, <2>8, SumBounded
  <2> QED
    BY <2>1, <2>9
<1> QED
  BY <1>8, <1>9, <1>10, <1>11, <1>12 DEF IInv

(* What is in service hangs on the line and on the end of interrupt only.  *)
LEMMA SameService ==
  ASSUME NEW g, NEW h, g.irq = h.irq,
         h.irq = 0 \/ (g.at = "eoi master" <=> h.at = "eoi master")
  PROVE  InService(g) = InService(h)
<1>1. CASE h.irq = 0
  <2>1. ~(g.irq >= 8) /\ ~(h.irq >= 8)
    BY <1>1
  <2> QED
    BY <2>1, Zenon DEF InService
<1>2. CASE g.at = "eoi master" <=> h.at = "eoi master"
  BY <1>2, Zenon DEF InService
<1> QED
  BY <1>1, <1>2

(* A step of a handler that leaves the interrupt controllers alone and     *)
(* does not go on to the master's end of interrupt keeps the service.      *)
LEMMA ProceedKeepsService ==
  ASSUME IInv, Running, NEW x \in HandlerSteps, Proceed(x), UNCHANGED pic,
         x = "eoi master" => stack[1].irq = Timer, stack[1].at # "eoi master"
  PROVE  PicTypes' /\ ServiceFlat'
<1>1. /\ Len(stack) = 1 /\ stack # <<>> /\ stack[1] \in HandlerRecords
  BY RunningHandler
<1>2. /\ stack' \in Seq(HandlerRecords) /\ Len(stack') = 1 /\ stack' # <<>>
      /\ stack'[1].irq = stack[1].irq /\ stack'[1].at = x
  BY Proceeds
<1>3. PicTypes'
  BY <1>2 DEF IInv, TypeOK, PicTypes
<1>4. InService(stack'[1]) = InService(stack[1])
  BY <1>2, SameService DEF Timer
<1> QED
  BY <1>1, <1>2, <1>3, <1>4 DEF IInv, ServiceFlat

(* A tick counts one edge at most.                                         *)
LEMMA TickKeepsIInv ==
  ASSUME IInv, Tick
  PROVE  IInv'
<1>1. /\ Len(stack) = 1 /\ stack # <<>> /\ stack[1].at = "tick"
      /\ stack[1].irq = Timer /\ Running /\ ~flag
  BY RunningHandler DEF Tick, IInv, HandlerInv
<1>2. /\ stack' \in Seq(HandlerRecords) /\ Len(stack') = 1 /\ stack' # <<>>
      /\ stack'[1].irq = stack[1].irq /\ stack'[1].at = "eoi master"
  BY <1>1, Proceeds DEF Tick, HandlerSteps
<1>3. /\ UNCHANGED <<pc, flag, idt, pic, obf, keys, deaf, cells, pit, edges, wait>>
      /\ Proceed("eoi master")
      /\ ticks' = IF pc = "waiting" THEN UpTo(ticks + 1) ELSE 0
  BY DEF Tick, keyVars
<1>4. ticks \in 0..Horizon /\ edges \in 0..Horizon
  BY Numbers DEF IInv
<1>5. PicTypes' /\ ServiceFlat'
  BY <1>1, <1>3, ProceedKeepsService DEF HandlerSteps
<1>6. TimeTypes'
  <2>1. UpTo(ticks + 1) \in 0..Horizon /\ 0 \in 0..Horizon
    BY <1>4, Bounds, OneMore
  <2>2. ticks' \in 0..Horizon /\ pit' = pit /\ edges' = edges /\ wait' = wait
    BY <1>3, <2>1
  <2>3. TimeTypes
    BY DEF IInv, TypeOK
  <2> QED
    BY <2>2, <2>3 DEF TimeTypes
<1>7. TypeOK'
  BY <1>3, <1>5, <1>6, Untouched DEF IInv, TypeOK
<1>8. KeysFlat' /\ HandlerInv'
  BY <1>1, <1>2, <1>3 DEF IInv, KeysFlat, Buffered, Taken, Counting, HandlerInv
<1>9. WaitInv'
  <2>1. Ticking /\ ~Ticking'
    BY <1>1, <1>2 DEF Ticking
  <2>2. Entered = 1 /\ Entered' = 0
    BY <2>1 DEF Entered
  <2>3. Requested' = Requested /\ Requested \in Int
    <3>1. pic' = pic
      BY <1>3
    <3> QED
      BY <3>1 DEF Requested
  <2>4. pc = "waiting" => ticks' = UpTo(ticks + 1)
    BY <1>3
  <2>5. UpTo(ticks + 1) <= ticks + 1 /\ UpTo(ticks + 1) \in Int
    BY <1>4, OneMore, Bounds
  <2>6. pc' = pc /\ edges' = edges
    BY <1>3
  <2>7. SUFFICES ASSUME pc' = "waiting", edges' # Horizon
                 PROVE  ticks' + Requested' + Entered' <= edges' + 1
    BY DEF WaitInv
  <2>8. ticks + Requested + Entered <= edges + 1
    BY <2>6, <2>7 DEF IInv, WaitInv
  <2>9. ticks \in Int /\ edges \in Int
    BY Numbers DEF IInv
  <2> QED
    BY <2>2, <2>3, <2>4, <2>5, <2>6, <2>7, <2>8, <2>9
<1> QED
  BY <1>3, <1>5, <1>7, <1>8, <1>9, Untouched DEF IInv

(* The keyboard's handler takes a scan code only if there is one.          *)
LEMMA KeyStatusKeepsIInv ==
  ASSUME IInv, KeyStatus
  PROVE  IInv'
<1> DEFINE x == IF obf THEN "data" ELSE "eoi slave"
<1>1. /\ Len(stack) = 1 /\ stack # <<>> /\ stack[1].at = "status" /\ Running /\ ~flag
  BY RunningHandler DEF KeyStatus
<1>2. x \in HandlerSteps /\ x \notin {"eoi master", "tick", "count"} /\ (x = "data" => obf)
  BY DEF HandlerSteps
<1>3. /\ UNCHANGED <<pc, flag, idt, pic, obf, keys, deaf, cells, pit, ticks, edges, wait>>
      /\ UNCHANGED timeVars /\ Proceed(x)
  BY DEF KeyStatus, keyVars, timeVars
<1> HIDE DEF x
<1>4. /\ stack' \in Seq(HandlerRecords) /\ Len(stack') = 1 /\ stack' # <<>>
      /\ stack'[1].irq = stack[1].irq /\ stack'[1].at = x
  BY <1>1, <1>2, <1>3, Proceeds
<1>5. PicTypes' /\ ServiceFlat'
  BY <1>1, <1>2, <1>3, ProceedKeepsService
<1>6. TypeOK'
  BY <1>3, <1>5, Untouched DEF IInv, TypeOK
<1>7. KeysFlat' /\ HandlerInv'
  BY <1>1, <1>2, <1>3, <1>4 DEF IInv, KeysFlat, Buffered, Taken, Counting, HandlerInv
<1>8. WaitInv'
  BY <1>1, <1>2, <1>3, <1>4 DEF IInv, WaitInv, Requested, Entered, Ticking
<1> QED
  BY <1>3, <1>5, <1>6, <1>7, <1>8, Untouched DEF IInv

(* A scan code that is read is on its way.                                 *)
LEMMA KeyDataKeepsIInv ==
  ASSUME IInv, KeyData
  PROVE  IInv'
<1>1. /\ Len(stack) = 1 /\ stack # <<>> /\ stack[1].at = "data" /\ Running /\ ~flag /\ obf
  BY RunningHandler DEF KeyData, IInv, HandlerInv
<1>2. /\ stack' \in Seq(HandlerRecords) /\ Len(stack') = 1 /\ stack' # <<>>
      /\ stack'[1].irq = stack[1].irq /\ stack'[1].at = "count"
  BY <1>1, Proceeds DEF KeyData, HandlerSteps
<1>3. /\ UNCHANGED <<pc, flag, idt, pic, keys, deaf, cells, pit, ticks, edges>>
      /\ UNCHANGED timeVars /\ Proceed("count") /\ obf' = FALSE
  BY DEF KeyData, timeVars
<1>4. PicTypes' /\ ServiceFlat'
  BY <1>1, <1>3, ProceedKeepsService DEF HandlerSteps
<1>5. FlagTypes'
  BY <1>3 DEF IInv, TypeOK, FlagTypes
<1>6. TypeOK'
  BY <1>3, <1>4, <1>5, Untouched DEF IInv, TypeOK
<1>7. KeysFlat'
  <2>1. ~Counting /\ Counting'
    BY <1>1, <1>2 DEF Counting
  <2> QED
    BY <1>1, <1>3, <2>1, Numbers DEF IInv, KeysFlat, Buffered, Taken
<1>8. HandlerInv'
  BY <1>1, <1>2, <1>3 DEF HandlerInv
<1>9. WaitInv'
  BY <1>1, <1>2, <1>3 DEF IInv, WaitInv, Requested, Entered, Ticking
<1> QED
  BY <1>3, <1>4, <1>6, <1>7, <1>8, <1>9, Untouched DEF IInv

(* The key counter's handler counts one, or panics on an empty cell.       *)
LEMMA KeyCountKeepsIInv ==
  ASSUME IInv, KeyCount
  PROVE  IInv'
<1>1. /\ Len(stack) = 1 /\ stack # <<>> /\ stack[1].at = "count" /\ Running /\ ~flag
  BY RunningHandler DEF KeyCount
<1>2. /\ idt' = idt /\ pic' = pic /\ obf' = obf /\ deaf' = deaf /\ cells' = cells
      /\ pit' = pit /\ ticks' = ticks /\ edges' = edges /\ wait' = wait
      /\ UNCHANGED timeVars
  BY DEF KeyCount, timeVars
<1>3. CASE "keys" \in cells
  <2>1. /\ keys' = [keys EXCEPT !.counted = @ + 1] /\ Proceed("eoi slave")
        /\ pc' = pc /\ flag' = flag
    BY <1>3 DEF KeyCount
  <2>2. /\ stack' \in Seq(HandlerRecords) /\ Len(stack') = 1 /\ stack' # <<>>
        /\ stack'[1].irq = stack[1].irq /\ stack'[1].at = "eoi slave"
    BY <1>1, <2>1, Proceeds DEF HandlerSteps
  <2>3. PicTypes' /\ ServiceFlat'
    BY <1>1, <1>2, <2>1, ProceedKeepsService DEF HandlerSteps
  <2>4. keys \in KeyStates /\ Counting /\ ~Counting'
    BY <1>1, <2>2 DEF IInv, TypeOK, KeyTypes, Counting
  <2>5. /\ keys'.sent = keys.sent /\ keys'.queue = keys.queue
        /\ keys'.counted = keys.counted + 1
    BY <2>1, <2>4 DEF KeyStates
  <2>6. keys.counted + 1 \in 0..MaxKeys
    <3>1. keys.sent = keys.queue + keys.counted + Buffered + 1
      BY <2>4 DEF IInv, KeysFlat, Taken
    <3>2. Buffered \in 0..1
      BY DEF Buffered
    <3>3. /\ keys.sent \in 0..MaxKeys /\ keys.queue \in 0..MaxKeys
          /\ keys.counted \in 0..MaxKeys
      BY <2>4 DEF KeyStates
    <3> QED
      BY <3>1, <3>2, <3>3, Bounds
  <2>7. KeyTypes'
    BY <2>1, <2>4, <2>6 DEF KeyStates, KeyTypes
  <2>8. TypeOK'
    BY <1>2, <2>1, <2>3, <2>7, Untouched DEF IInv, TypeOK
  <2>9. KeysFlat'
    BY <1>2, <2>4, <2>5, Numbers DEF IInv, KeysFlat, Buffered, Taken
  <2>10. HandlerInv'
    BY <1>1, <2>1, <2>2 DEF HandlerInv
  <2>11. WaitInv'
    BY <1>1, <1>2, <2>1, <2>2 DEF IInv, WaitInv, Requested, Entered, Ticking
  <2> QED
    BY <1>2, <2>1, <2>3, <2>8, <2>9, <2>10, <2>11, Untouched DEF IInv
<1>4. CASE "keys" \notin cells
  <2>1. pc' = "panicked" /\ flag' = FALSE /\ keys' = keys /\ stack' = stack
    BY <1>4 DEF KeyCount, Panic
  <2>2. FlagTypes'
    BY <1>2, <2>1 DEF IInv, TypeOK, FlagTypes
  <2>3. TypeOK'
    BY <1>2, <2>1, <2>2, Untouched DEF IInv, TypeOK, Steps
  <2>4. HandlerInv'
    BY <1>2, <2>1 DEF IInv, HandlerInv
  <2>5. StartInv' /\ WaitInv'
    BY <1>2, <1>4, <2>1 DEF StartInv, WaitInv
  <2> QED
    BY <1>2, <2>1, <2>3, <2>4, <2>5, Untouched DEF IInv
<1> QED
  BY <1>3, <1>4

(* The slave's end of interrupt.                                           *)
LEMMA SendEoiSlaveKeepsIInv ==
  ASSUME IInv, SendEoiSlave
  PROVE  IInv'
<1>1. /\ Len(stack) = 1 /\ stack # <<>> /\ stack[1].at = "eoi slave" /\ Running /\ ~flag
      /\ stack[1] \in HandlerRecords
  BY RunningHandler DEF SendEoiSlave
<1>2. /\ pc' = pc /\ flag' = flag /\ idt' = idt /\ obf' = obf /\ keys' = keys /\ deaf' = deaf
      /\ cells' = cells /\ pit' = pit /\ ticks' = ticks /\ edges' = edges
      /\ UNCHANGED timeVars /\ Proceed("eoi master") /\ pic' = EoiSlave(pic)
  BY DEF SendEoiSlave, keyVars, timeVars
<1>3. /\ stack' \in Seq(HandlerRecords) /\ Len(stack') = 1 /\ stack' # <<>>
      /\ stack'[1].irq = stack[1].irq /\ stack'[1].at = "eoi master"
  BY <1>1, <1>2, Proceeds DEF HandlerSteps
<1>4. stack[1].irq \in Irqs
  BY <1>1 DEF HandlerRecords
<1>5. pic.isr = IF stack[1].irq >= 8 THEN {stack[1].irq, Cascade} ELSE {stack[1].irq}
  BY <1>1 DEF IInv, ServiceFlat, InService, LineAtMaster
<1>6. pic \in PicStates
  BY DEF IInv, TypeOK, PicTypes
<1>7. /\ pic' \in PicStates /\ pic'.isr = {LineAtMaster(stack[1].irq)}
      /\ pic'.irr = pic.irr
  BY <1>2, <1>4, <1>5, <1>6, SlaveReleases
<1>8. TypeOK'
  <2>1. PicTypes'
    BY <1>3, <1>7 DEF PicTypes
  <2> QED
    BY <1>2, <2>1, Untouched DEF IInv, TypeOK
<1>9. ServiceFlat'
  <2>1. InService(stack'[1]) = {LineAtMaster(stack[1].irq)}
    BY <1>3, Zenon DEF InService
  <2>2. Len(stack') <= 1
    <3>1. Len(stack') = 1
      BY <1>3, Zenon
    <3> QED
      BY <3>1
  <2>3. pic'.isr = InService(stack'[1])
    BY <1>7, <2>1
  <2> QED
    BY <1>3, <2>2, <2>3, Zenon DEF ServiceFlat
<1>10. KeysFlat' /\ HandlerInv'
  BY <1>1, <1>2, <1>3 DEF IInv, KeysFlat, Buffered, Taken, Counting, HandlerInv
<1>11. WaitInv'
  BY <1>1, <1>2, <1>3, <1>7 DEF IInv, WaitInv, Requested, Entered, Ticking
<1> QED
  BY <1>2, <1>8, <1>9, <1>10, <1>11, Untouched DEF IInv

(* The master's end of interrupt, and the return.                          *)
LEMMA SendEoiMasterKeepsIInv ==
  ASSUME IInv, SendEoiMaster
  PROVE  IInv'
<1>1. /\ Len(stack) = 1 /\ stack # <<>> /\ stack[1].at = "eoi master" /\ ~flag
      /\ stack[1] \in HandlerRecords
  BY RunningHandler DEF SendEoiMaster
<1>2. /\ pc' = pc /\ flag' = TRUE /\ idt' = idt /\ obf' = obf /\ keys' = keys /\ deaf' = deaf
      /\ cells' = cells /\ pit' = pit /\ ticks' = ticks /\ edges' = edges
      /\ UNCHANGED timeVars /\ pic' = EoiMaster(pic)
  BY DEF SendEoiMaster, keyVars, timeVars
<1>3. stack' = <<>>
  <2>1. stack \in Seq(HandlerRecords)
    BY DEF IInv, TypeOK, PicTypes
  <2> QED
    BY <1>1, <2>1, PopOne DEF SendEoiMaster
<1>4. stack[1].irq \in Irqs
  BY <1>1 DEF HandlerRecords
<1>5. pic.isr = {LineAtMaster(stack[1].irq)}
  BY <1>1, Zenon DEF IInv, ServiceFlat, InService
<1>6. pic \in PicStates
  BY DEF IInv, TypeOK, PicTypes
<1>7. pic' \in PicStates /\ pic'.isr = {} /\ pic'.irr = pic.irr
  BY <1>2, <1>4, <1>5, <1>6, MasterReleases
<1>8. TypeOK'
  <2>1. PicTypes'
    BY <1>3, <1>7, EmptySeq DEF PicTypes
  <2>2. FlagTypes'
    BY <1>2 DEF IInv, TypeOK, FlagTypes
  <2> QED
    BY <1>2, <2>1, <2>2, Untouched DEF IInv, TypeOK
<1>9. ServiceFlat'
  BY <1>3, <1>7, EmptySeq DEF ServiceFlat
<1>10. KeysFlat' /\ HandlerInv'
  BY <1>1, <1>2, <1>3 DEF IInv, KeysFlat, Buffered, Taken, Counting, HandlerInv
<1>11. WaitInv'
  BY <1>1, <1>2, <1>3, <1>7 DEF IInv, WaitInv, Requested, Entered, Ticking
<1> QED
  BY <1>2, <1>8, <1>9, <1>10, <1>11, Untouched DEF IInv

-----------------------------------------------------------------------------
(* The devices' steps.                                                     *)

(* A request more is nothing in service.                                   *)
LEMMA RequestKeepsService ==
  ASSUME IInv, NEW r \in Irqs, pic' = [pic EXCEPT !.irr = @ \cup {r}], stack' = stack
  PROVE  PicTypes' /\ ServiceFlat' /\ pic'.irr = pic.irr \cup {r}
<1>1. pic \in PicStates /\ stack \in Seq(HandlerRecords)
  BY DEF IInv, TypeOK, PicTypes
<1>2. pic' \in PicStates /\ pic'.isr = pic.isr /\ pic'.irr = pic.irr \cup {r}
  BY <1>1 DEF PicStates
<1>3. PicTypes'
  BY <1>1, <1>2 DEF PicTypes
<1> QED
  BY <1>2, <1>3 DEF IInv, ServiceFlat

(* The timer's edge is counted before it can become a tick.                *)
LEMMA TimerEdgeKeepsIInv ==
  ASSUME IInv, TimerEdge
  PROVE  IInv'
<1>1. /\ pc' = pc /\ flag' = flag /\ stack' = stack /\ idt' = idt /\ obf' = obf
      /\ keys' = keys /\ deaf' = deaf /\ cells' = cells /\ pit' = pit
      /\ ticks' = ticks /\ wait' = wait /\ pic' = [pic EXCEPT !.irr = @ \cup {Timer}]
      /\ edges' = IF pc = "waiting" THEN UpTo(edges + 1) ELSE 0
  BY DEF TimerEdge, keyVars
<1>2. Timer \in Irqs
  BY DEF Irqs
<1>3. PicTypes' /\ ServiceFlat'
  BY <1>1, <1>2, RequestKeepsService
<1>4. ticks \in 0..Horizon /\ edges \in 0..Horizon /\ ticks \in Int /\ edges \in Int
  BY Numbers DEF IInv
<1>5. /\ UpTo(edges + 1) \in 0..Horizon /\ 0 \in 0..Horizon
      /\ UpTo(edges + 1) = Horizon \/ UpTo(edges + 1) = edges + 1
  BY <1>4, Bounds, OneMore
<1>6. TimeTypes'
  <2>1. edges' \in 0..Horizon /\ pit' = pit /\ ticks' = ticks /\ wait' = wait
    BY <1>1, <1>5
  <2>2. TimeTypes
    BY DEF IInv, TypeOK
  <2> QED
    BY <2>1, <2>2 DEF TimeTypes
<1>7. TypeOK'
  BY <1>1, <1>3, <1>6, Untouched DEF IInv, TypeOK
<1>8. WaitInv'
  <2>1. SUFFICES ASSUME pc' = "waiting", edges' # Horizon
                 PROVE  ticks' + Requested' + Entered' <= edges' + 1
    BY DEF WaitInv
  <2>2. edges' = edges + 1 /\ edges # Horizon
    BY <1>1, <1>4, <1>5, <2>1, Bounds DEF UpTo
  <2>3. ticks + Requested + Entered <= edges + 1
    BY <1>1, <2>1, <2>2 DEF IInv, WaitInv
  <2>4. Entered' = Entered /\ Entered \in 0..1
    BY <1>1 DEF Entered, Ticking
  <2>5. Requested \in 0..1 /\ Requested' \in 0..1
    BY DEF Requested
  <2>6. ticks + Requested' + Entered <= (edges + 1) + 1
    <3>1. ticks + Entered <= edges + 1
      BY <1>4, <2>3, <2>4, <2>5
    <3> QED
      BY <1>4, <2>4, <2>5, <3>1, OneSummandMore
  <2> QED
    BY <1>1, <2>2, <2>4, <2>6
<1> QED
  BY <1>1, <1>3, <1>7, <1>8, Untouched DEF IInv

(* Any other line's edge.                                                  *)
LEMMA OtherEdgeKeepsIInv ==
  ASSUME IInv, NEW r \in OtherIrqs, OtherEdge(r)
  PROVE  IInv'
<1>1. /\ pc' = pc /\ flag' = flag /\ stack' = stack /\ idt' = idt /\ obf' = obf
      /\ keys' = keys /\ deaf' = deaf /\ cells' = cells /\ pit' = pit
      /\ ticks' = ticks /\ edges' = edges /\ UNCHANGED timeVars
      /\ pic' = [pic EXCEPT !.irr = @ \cup {r}]
  BY DEF OtherEdge, keyVars, timeVars
<1>2. r \in Irqs /\ r # Timer
  BY BootAssumption DEF Irqs, Timer
<1>3. PicTypes' /\ ServiceFlat' /\ pic'.irr = pic.irr \cup {r}
  BY <1>1, <1>2, RequestKeepsService
<1>4. TypeOK'
  BY <1>1, <1>3, Untouched DEF IInv, TypeOK
<1>5. WaitInv'
  <2>1. Timer \in pic'.irr <=> Timer \in pic.irr
    BY <1>2, <1>3
  <2> QED
    BY <1>1, <2>1 DEF IInv, WaitInv, Requested, Entered, Ticking
<1> QED
  BY <1>1, <1>3, <1>4, <1>5, Untouched DEF IInv

(* A key is pressed.                                                       *)
LEMMA KeyPressKeepsIInv ==
  ASSUME IInv, KeyPress
  PROVE  IInv'
<1>1. /\ pc' = pc /\ flag' = flag /\ stack' = stack /\ idt' = idt /\ pic' = pic
      /\ obf' = obf /\ deaf' = deaf /\ cells' = cells /\ pit' = pit
      /\ ticks' = ticks /\ edges' = edges /\ UNCHANGED timeVars
      /\ keys.sent < MaxKeys
      /\ keys' = [keys EXCEPT !.sent = @ + 1, !.queue = @ + 1]
  BY DEF KeyPress, picVars, timeVars
<1>2. keys \in KeyStates
  BY DEF IInv, TypeOK, KeyTypes
<1>3. /\ keys'.sent = keys.sent + 1 /\ keys'.queue = keys.queue + 1
      /\ keys'.counted = keys.counted
  BY <1>1, <1>2 DEF KeyStates
<1>4. keys.sent = keys.queue + keys.counted + Buffered + Taken
  BY DEF IInv, KeysFlat
<1>5. Buffered \in 0..1 /\ Taken \in 0..1
  BY DEF Buffered, Taken
<1>6. keys.sent \in 0..MaxKeys /\ keys.queue \in 0..MaxKeys /\ keys.counted \in 0..MaxKeys
  BY <1>2 DEF KeyStates
<1>7. keys.sent + 1 \in 0..MaxKeys /\ keys.queue + 1 \in 0..MaxKeys
  BY <1>1, <1>4, <1>5, <1>6, Bounds
<1>8. KeyTypes'
  BY <1>1, <1>2, <1>7 DEF KeyStates, KeyTypes
<1>9. TypeOK'
  BY <1>1, <1>8, Untouched DEF IInv, TypeOK
<1>10. KeysFlat'
  <2>1. Buffered' = Buffered /\ Taken' = Taken
    BY <1>1 DEF Buffered, Taken, Counting
  <2> QED
    BY <1>3, <1>4, <1>5, <1>6, <2>1, Bounds DEF KeysFlat
<1> QED
  BY <1>1, <1>9, <1>10, Untouched DEF IInv

(* A scan code goes from the queue into the buffer.                        *)
LEMMA KeyFillKeepsIInv ==
  ASSUME IInv, KeyFill
  PROVE  IInv'
<1>1. /\ pc' = pc /\ flag' = flag /\ stack' = stack /\ idt' = idt
      /\ ~obf /\ obf' = TRUE /\ deaf' = deaf /\ cells' = cells /\ pit' = pit
      /\ ticks' = ticks /\ edges' = edges /\ UNCHANGED timeVars
      /\ keys.queue > 0 /\ keys' = [keys EXCEPT !.queue = @ - 1]
      /\ pic' = [pic EXCEPT !.irr = @ \cup {Keyboard}]
  BY DEF KeyFill, timeVars
<1>2. Keyboard \in Irqs /\ Keyboard # Timer
  BY DEF Irqs, Keyboard, Timer
<1>3. PicTypes' /\ ServiceFlat' /\ pic'.irr = pic.irr \cup {Keyboard}
  BY <1>1, <1>2, RequestKeepsService
<1>4. keys \in KeyStates
  BY DEF IInv, TypeOK, KeyTypes
<1>5. /\ keys'.sent = keys.sent /\ keys'.queue = keys.queue - 1
      /\ keys'.counted = keys.counted
  BY <1>1, <1>4 DEF KeyStates
<1>6. keys.queue \in 0..MaxKeys
  BY <1>4 DEF KeyStates
<1>7. KeyTypes'
  <2>1. keys.queue - 1 \in 0..MaxKeys
    BY <1>1, <1>6, Bounds
  <2> QED
    BY <1>1, <1>4, <2>1 DEF KeyStates, KeyTypes
<1>8. FlagTypes'
  BY <1>1 DEF IInv, TypeOK, FlagTypes
<1>9. TypeOK'
  BY <1>1, <1>3, <1>7, <1>8, Untouched DEF IInv, TypeOK
<1>10. KeysFlat'
  <2>1. Buffered = 0 /\ Buffered' = 1 /\ Taken' = Taken /\ Taken \in 0..1
    BY <1>1 DEF Buffered, Taken, Counting
  <2>2. keys.sent \in Int /\ keys.queue \in Int /\ keys.counted \in Int
    BY Numbers DEF IInv
  <2>3. keys.sent = keys.queue + keys.counted + Buffered + Taken
    BY DEF IInv, KeysFlat
  <2> QED
    BY <1>5, <2>1, <2>2, <2>3 DEF KeysFlat
<1>11. HandlerInv'
  BY <1>1 DEF IInv, HandlerInv
<1>12. WaitInv'
  <2>1. Timer \in pic'.irr <=> Timer \in pic.irr
    BY <1>2, <1>3
  <2> QED
    BY <1>1, <2>1 DEF IInv, WaitInv, Requested, Entered, Ticking
<1> QED
  BY <1>1, <1>3, <1>9, <1>10, <1>11, <1>12, Untouched DEF IInv

-----------------------------------------------------------------------------
(* The thread's steps.                                                     *)

(* What is left to show of a step of the thread.                           *)
LEMMA ThreadStep ==
  ASSUME IInv, stack = <<>>, stack' = <<>>, obf' = obf, keys' = keys, pc' \in Steps,
         FlagTypes', pic' \in PicStates, pic'.isr = {}, CellTypes', TimeTypes',
         StartInv', WaitInv'
  PROVE  IInv'
<1>1. PicTypes' /\ ServiceFlat'
  BY EmptySeq DEF PicTypes, ServiceFlat
<1>2. KeyTypes' /\ KeysFlat' /\ HandlerInv'
  BY Untouched DEF HandlerInv
<1> QED
  BY <1>1, <1>2 DEF IInv, TypeOK

(* The state in which the thread runs.                                     *)
LEMMA ThreadState ==
  ASSUME IInv, stack = <<>>
  PROVE  /\ pic \in PicStates /\ pic.isr = {} /\ FlagTypes /\ CellTypes /\ TimeTypes
         /\ Entered = 0 /\ Requested \in 0..1
BY DEF IInv, TypeOK, PicTypes, ServiceFlat, Entered, Ticking, Requested

(* The steps that change the interrupt flag or the controllers.            *)
LEMMA SetUpKeepsIInv ==
  ASSUME IInv, Cli \/ pic_remap \/ PicMasks \/ LoadIdt \/ Sti
  PROVE  IInv'
<1>1. /\ stack = <<>> /\ stack' = <<>> /\ obf' = obf /\ keys' = keys /\ cells' = cells
      /\ pit' = pit /\ UNCHANGED timeVars
      /\ pc \in {"cli", "remap", "mask", "idt", "sti"}
      /\ pc' \in {"remap", "mask", "idt", "pit", "framebuffer"}
      /\ pc' = "framebuffer" => pc = "sti"
  BY DEF Cli, pic_remap, PicMasks, LoadIdt, Sti, From, keyVars, timeVars
<1>2. FlagTypes
  BY DEF IInv, TypeOK
<1>3. FlagTypes'
  <2>1. CASE Cli
    <3>1. flag' = FALSE /\ idt' = idt /\ obf' = obf /\ deaf' = deaf
      BY <2>1 DEF Cli, keyVars
    <3> QED
      BY <1>2, <3>1, Zenon DEF FlagTypes
  <2>2. CASE pic_remap
    <3>1. flag' = flag /\ idt' = idt /\ obf' = obf /\ deaf' = obf
      BY <2>2 DEF pic_remap
    <3> QED
      BY <1>2, <3>1, Zenon DEF FlagTypes
  <2>3. CASE PicMasks
    <3>1. flag' = flag /\ idt' = idt /\ obf' = obf /\ deaf' = deaf
      BY <2>3 DEF PicMasks, keyVars
    <3> QED
      BY <1>2, <3>1, Zenon DEF FlagTypes
  <2>4. CASE LoadIdt
    <3>1. flag' = flag /\ idt' = TRUE /\ obf' = obf /\ deaf' = deaf
      BY <2>4 DEF LoadIdt, keyVars
    <3> QED
      BY <1>2, <3>1, Zenon DEF FlagTypes
  <2>5. CASE Sti
    <3>1. flag' = TRUE /\ idt' = idt /\ obf' = obf /\ deaf' = deaf
      BY <2>5 DEF Sti, keyVars
    <3> QED
      BY <1>2, <3>1, Zenon DEF FlagTypes
  <2> QED
    BY <2>1, <2>2, <2>3, <2>4, <2>5
<1>4. pic' \in PicStates /\ pic'.isr = {}
  <2>1. pic \in PicStates /\ pic.isr = {}
    BY <1>1, ThreadState
  <2>2. CASE Cli \/ LoadIdt \/ Sti
    BY <2>1, <2>2 DEF Cli, LoadIdt, Sti
  <2>3. CASE pic_remap
    BY <2>3 DEF pic_remap, PicStates
  <2>4. CASE PicMasks
    BY <2>1, <2>4 DEF PicMasks, PicStates
  <2> QED
    BY <2>2, <2>3, <2>4
<1>5. pc' \in Steps
  BY <1>1 DEF Steps
<1>6. StartInv'
  BY <1>1 DEF IInv, StartInv
<1>7. WaitInv'
  BY <1>1 DEF WaitInv
<1> QED
  BY <1>1, <1>3, <1>4, <1>5, <1>6, <1>7, ThreadStep, Untouched

(* The timer gets its rate.                                                *)
LEMMA pit_initKeepsIInv ==
  ASSUME IInv, pit_init
  PROVE  IInv'
<1>1. /\ stack = <<>> /\ stack' = <<>> /\ obf' = obf /\ keys' = keys /\ cells' = cells
      /\ flag' = flag /\ idt' = idt /\ deaf' = deaf /\ pic' = pic
      /\ ticks' = ticks /\ edges' = edges /\ wait' = wait
      /\ pc = "pit" /\ pc' = "sti" /\ pit' = pit_divisor(1000)
  BY DEF pit_init, From, picVars, keyVars
<1>2. pit' = 1193
  BY <1>1 DEF pit_divisor, PIT_FREQUENCY
<1>3. TimeTypes'
  <2>1. ticks' \in 0..Horizon /\ edges' \in 0..Horizon
    BY <1>1, Numbers DEF IInv
  <2>2. wait' \in Waits \cup {0}
    BY <1>1, Numbers DEF IInv
  <2>3. pit' \in Divisors
    BY <1>2 DEF Divisors
  <2> QED
    BY <2>1, <2>2, <2>3, TimeTyped
<1>4. StartInv' /\ WaitInv' /\ pc' \in Steps
  BY <1>1, <1>2 DEF IInv, StartInv, WaitInv, Steps
<1>5. pic' \in PicStates /\ pic'.isr = {}
  BY <1>1, ThreadState
<1> QED
  BY <1>1, <1>3, <1>4, <1>5, ThreadStep, Untouched

(* The framebuffer's cell is the first, or there is a panic.               *)
LEMMA InitFramebufferKeepsIInv ==
  ASSUME IInv, InitFramebuffer
  PROVE  IInv'
<1>1. /\ stack = <<>> /\ stack' = <<>> /\ obf' = obf /\ keys' = keys
      /\ idt' = idt /\ deaf' = deaf /\ pic' = pic /\ pit' = pit
      /\ UNCHANGED timeVars /\ pc = "framebuffer"
  BY DEF InitFramebuffer, From, keyVars, timeVars
<1>2. \/ pc' = "text" /\ flag' = flag /\ cells' = cells
      \/ pc' = "text" /\ flag' = flag /\ cells' = cells \cup {"render"}
      \/ pc' = "panicked" /\ flag' = FALSE /\ cells' = cells
  <2>1. PICK f \in Framebuffers :
          CASE f = {} -> pc' = "text" /\ UNCHANGED <<flag, cells, screen>>
            [] \E g \in f : g.bpp # 32 -> Panic /\ UNCHANGED <<cells, screen>>
            [] OTHER -> /\ pc' = "text" /\ cells' = cells \cup {"render"}
                        /\ UNCHANGED <<flag, screen>>
    BY DEF InitFramebuffer
  <2>2. CASE f = {}
    BY <2>1, <2>2
  <2>3. CASE f # {} /\ \E g \in f : g.bpp # 32
    BY <2>1, <2>3 DEF Panic
  <2>4. CASE f # {} /\ ~\E g \in f : g.bpp # 32
    BY <2>1, <2>4
  <2> QED
    BY <2>2, <2>3, <2>4
<1>3. cells = {} /\ pit = 1193
  BY <1>1 DEF IInv, StartInv
<1>4. FlagTypes'
  <2>1. FlagTypes
    BY <1>1, ThreadState
  <2>2. flag' = flag \/ flag' = FALSE
    BY <1>2
  <2> QED
    BY <1>1, <2>1, <2>2, Zenon DEF FlagTypes
<1>5. CellTypes' /\ pc' \in Steps
  BY <1>2, <1>3 DEF CellTypes, Steps
<1>6. StartInv' /\ WaitInv'
  BY <1>1, <1>2, <1>3 DEF StartInv, WaitInv
<1>7. pic' \in PicStates /\ pic'.isr = {}
  BY <1>1, ThreadState
<1> QED
  BY <1>1, <1>4, <1>5, <1>6, <1>7, ThreadStep, Untouched

(* The other cells.                                                        *)
LEMMA InitCellKeepsIInv ==
  ASSUME IInv, NEW x, NEW cell \in {"text", "keys", "mapper"}, NEW next,
         x \in {"text", "keys", "mapper"}, next \in {"keys", "mapper", "devices"},
         InitCell(x, cell, next)
  PROVE  IInv'
<1>1. /\ stack = <<>> /\ stack' = <<>> /\ obf' = obf /\ keys' = keys /\ flag' = flag
      /\ idt' = idt /\ deaf' = deaf /\ pic' = pic /\ pit' = pit
      /\ UNCHANGED timeVars /\ pc = x /\ pc' = next /\ cells' = cells \cup {cell}
  BY DEF InitCell, From, picVars, keyVars, timeVars
<1>2. CellTypes' /\ pc' \in Steps
  BY <1>1, ThreadState DEF CellTypes, Steps
<1>3. StartInv' /\ WaitInv'
  BY <1>1 DEF IInv, StartInv, WaitInv
<1>4. pic' \in PicStates /\ pic'.isr = {}
  BY <1>1, ThreadState
<1> QED
  BY <1>1, <1>2, <1>3, <1>4, ThreadStep, Untouched

(* wait_ms begins with no tick of its own and at most one on its way.      *)
LEMMA CallWaitKeepsIInv ==
  ASSUME IInv, CallWait
  PROVE  IInv'
<1>1. /\ stack = <<>> /\ stack' = <<>> /\ obf' = obf /\ keys' = keys /\ flag' = flag
      /\ idt' = idt /\ deaf' = deaf /\ pic' = pic /\ pit' = pit /\ cells' = cells
      /\ pc = "devices" /\ pc' = "waiting" /\ ticks' = 0 /\ edges' = 0 /\ wait' \in Waits
  BY DEF CallWait, From, picVars, keyVars
<1>2. TimeTypes'
  <2>1. pit \in Divisors
    BY Numbers DEF IInv
  <2>2. 0 \in 0..Horizon
    BY Bounds
  <2>3. ticks' \in 0..Horizon /\ edges' \in 0..Horizon
    BY <1>1, <2>2
  <2>4. wait' \in Waits \cup {0}
    BY <1>1
  <2>5. pit' \in Divisors
    <3>1. pit' = pit
      BY <1>1, Zenon
    <3> QED
      BY <2>1, <3>1
  <2> QED
    BY <2>3, <2>4, <2>5, TimeTyped
<1>3. StartInv' /\ pc' \in Steps
  BY <1>1 DEF IInv, StartInv, Steps
<1>4. WaitInv'
  <2>1. Requested' \in 0..1 /\ Entered' = 0
    BY <1>1 DEF Requested, Entered, Ticking
  <2> QED
    <3>1. 0 + Requested' + 0 <= 0 + 1
      BY <2>1, OneSummand
    <3>2. ticks' + Requested' + Entered' <= edges' + 1
      BY <1>1, <2>1, <3>1, Zenon
    <3> QED
      BY <3>2 DEF WaitInv
<1>5. pic' \in PicStates /\ pic'.isr = {}
  BY <1>1, ThreadState
<1> QED
  BY <1>1, <1>2, <1>3, <1>4, <1>5, ThreadStep, Untouched

(* wait_ms returns.                                                        *)
LEMMA ReturnFromWaitKeepsIInv ==
  ASSUME IInv, ReturnFromWait
  PROVE  IInv'
<1>1. /\ stack = <<>> /\ stack' = <<>> /\ obf' = obf /\ keys' = keys /\ flag' = flag
      /\ idt' = idt /\ deaf' = deaf /\ pic' = pic /\ pit' = pit /\ cells' = cells
      /\ pc = "waiting" /\ pc' = "devices" /\ ticks' = 0 /\ edges' = 0 /\ wait' = 0
  BY DEF ReturnFromWait, From, picVars, keyVars
<1>2. TimeTypes'
  <2>1. pit \in Divisors
    BY Numbers DEF IInv
  <2>2. 0 \in 0..Horizon
    BY Bounds
  <2>3. ticks' \in 0..Horizon /\ edges' \in 0..Horizon
    BY <1>1, <2>2
  <2>4. wait' \in Waits \cup {0}
    BY <1>1
  <2>5. pit' \in Divisors
    <3>1. pit' = pit
      BY <1>1, Zenon
    <3> QED
      BY <2>1, <3>1
  <2> QED
    BY <2>3, <2>4, <2>5, TimeTyped
<1>3. StartInv' /\ pc' \in Steps /\ WaitInv'
  BY <1>1 DEF IInv, StartInv, Steps, WaitInv
<1>4. pic' \in PicStates /\ pic'.isr = {}
  BY <1>1, ThreadState
<1> QED
  BY <1>1, <1>2, <1>3, <1>4, ThreadStep, Untouched

(* The end of the device part, which may be a panic, and the frame loop,   *)
(* which panics if it has no framebuffer.                                  *)
LEMMA FramesKeepIInv ==
  ASSUME IInv, DevicesPanic \/ DevicesDone \/ StartFrame \/ PrintText \/ DrawFrame \/ EndFrame
  PROVE  IInv'
<1>1. /\ stack = <<>> /\ stack' = <<>> /\ obf' = obf /\ keys' = keys
      /\ idt' = idt /\ deaf' = deaf /\ pic' = pic /\ cells' = cells
      /\ UNCHANGED timeVars
  BY DEF DevicesPanic, DevicesDone, StartFrame, PrintText, DrawFrame, EndFrame, From,
         picVars, keyVars, timeVars
<1>2. \/ pc' \in {"frame", "print", "draw", "frame end"} /\ flag' = flag
      \/ pc' = "panicked" /\ flag' = FALSE
  BY DEF DevicesPanic, DevicesDone, StartFrame, PrintText, DrawFrame, EndFrame, Panic, picVars
<1>3. FlagTypes'
  <2>1. FlagTypes
    BY <1>1, ThreadState
  <2>2. flag' = flag \/ flag' = FALSE
    BY <1>2
  <2> QED
    BY <1>1, <2>1, <2>2, Zenon DEF FlagTypes
<1>4. StartInv' /\ pc' \in Steps /\ WaitInv'
  <2>1. CASE pc' \in {"frame", "print", "draw", "frame end"}
    <3>1. /\ pc' \notin {"cli", "remap", "mask", "idt", "pit", "sti", "framebuffer",
                         "text", "keys", "mapper", "devices", "waiting", "panicked"}
          /\ pc' \in Steps
      BY <2>1 DEF Steps
    <3> QED
      BY <3>1 DEF StartInv, WaitInv
  <2>2. CASE pc' = "panicked"
    BY <1>1, <2>2 DEF StartInv, Steps, WaitInv
  <2> QED
    BY <1>2, <2>1, <2>2
<1>5. pic' \in PicStates /\ pic'.isr = {}
  BY <1>1, ThreadState
<1> QED
  BY <1>1, <1>3, <1>4, <1>5, ThreadStep, Untouched

-----------------------------------------------------------------------------
(* The place of a character in its text, by induction on the text.         *)

(* A set of numbers that is not empty has a least element: what holds of   *)
(* every number is shown for the least one of which it would not hold.     *)
LEMMA LeastNumber ==
  ASSUME NEW T, T \subseteq Nat, T # {}
  PROVE  \E m \in T : \A k \in T : m <= k
<1> DEFINE R == OpToRel(<, Nat)
<1>1. IsWellFoundedOn(R, Nat)
  BY NatLessThanWellFounded
<1>2. \A x, y \in Nat : x < y => <<x, y>> \in R
  BY DEF OpToRel
<1> HIDE DEF R
<1>3. \E x \in T : \A y \in T : ~(<<y, x>> \in R)
  BY <1>1, WFMin
<1>4. PICK m \in T : \A y \in T : ~(<<y, m>> \in R)
  BY <1>3
<1>5. \A y \in T : ~(y < m)
  BY <1>2, <1>4
<1> QED
  BY <1>4, <1>5

LastBreak(txt, i) ==
  CHOOSE b \in {0} \cup BreaksBefore(txt, i) : \A c \in {0} \cup BreaksBefore(txt, i) : c <= b

(* Where a line begins, and the columns that are counted from there.       *)
LEMMA LastBreakIs ==
  ASSUME NEW txt, NEW i \in Nat, NEW b \in {0} \cup BreaksBefore(txt, i),
         \A c \in {0} \cup BreaksBefore(txt, i) : c <= b
  PROVE  LastBreak(txt, i) = b /\ ColumnOf(txt, i) = i - 1 - b
<1> DEFINE B == {0} \cup BreaksBefore(txt, i)
<1>1. B \subseteq Int
  BY DEF BreaksBefore
<1>2. b \in B /\ \A c \in B : c <= b
  OBVIOUS
<1>3. ColumnOf(txt, i) = i - 1 - LastBreak(txt, i)
  BY DEF ColumnOf, LastBreak
<1> HIDE DEF B
<1> DEFINE a == CHOOSE a \in B : \A c \in B : c <= a
<1>4. a \in B /\ \A c \in B : c <= a
  BY <1>2
<1> HIDE DEF a
<1>5. a = b
  <2>1. a <= b /\ b <= a /\ a \in Int /\ b \in Int
    BY <1>1, <1>2, <1>4
  <2> QED
    BY <2>1
<1>6. LastBreak(txt, i) = a
  BY DEF a, B, LastBreak
<1> QED
  BY <1>3, <1>5, <1>6

(* The first character has no line break before it.                        *)
LEMMA FirstPlace ==
  ASSUME NEW txt
  PROVE  LineOf(txt, 1) = 0 /\ ColumnOf(txt, 1) = 0 /\ LastBreak(txt, 1) = 0
<1>1. BreaksBefore(txt, 1) = {}
  BY DEF BreaksBefore
<1>2. 0 \in {0} \cup BreaksBefore(txt, 1) /\ \A c \in {0} \cup BreaksBefore(txt, 1) : c <= 0
  BY <1>1
<1>3. ColumnOf(txt, 1) = 1 - 1 - 0 /\ LastBreak(txt, 1) = 0
  BY <1>2, LastBreakIs
<1> QED
  BY <1>1, <1>3, FS_EmptySet DEF LineOf

(* The character after a line break.                                       *)
LEMMA PlaceAfterBreak ==
  ASSUME NEW txt, NEW i \in Nat, i > 1, txt[i - 1] = NewLine
  PROVE  /\ LineOf(txt, i) = LineOf(txt, i - 1) + 1
         /\ ColumnOf(txt, i) = 0 /\ LastBreak(txt, i) = i - 1
<1>1. BreaksBefore(txt, i) = BreaksBefore(txt, i - 1) \cup {i - 1}
  BY DEF BreaksBefore
<1>2. IsFiniteSet(BreaksBefore(txt, i - 1)) /\ i - 1 \notin BreaksBefore(txt, i - 1)
  <2>1. BreaksBefore(txt, i - 1) \in SUBSET (1..(i - 2))
    BY DEF BreaksBefore
  <2> QED
    BY <2>1, FS_Interval, FS_Subset
<1>3. LineOf(txt, i) = LineOf(txt, i - 1) + 1
  BY <1>1, <1>2, FS_AddElement DEF LineOf
<1>4. /\ i - 1 \in {0} \cup BreaksBefore(txt, i)
      /\ \A c \in {0} \cup BreaksBefore(txt, i) : c <= i - 1
  BY DEF BreaksBefore
<1>5. LastBreak(txt, i) = i - 1 /\ ColumnOf(txt, i) = i - 1 - (i - 1)
  BY <1>4, LastBreakIs
<1> QED
  BY <1>3, <1>5

(* Every character has a line break before it, or the text's beginning.    *)
LEMMA LastBreakTyped ==
  ASSUME NEW txt, NEW i \in Nat \ {0}
  PROVE  LastBreak(txt, i) \in 0..(i - 1)
<1> DEFINE T == {n \in Nat \ {0} : LastBreak(txt, n) \notin 0..(n - 1)}
<1> SUFFICES ASSUME T # {} PROVE FALSE
  OBVIOUS
<1>1. PICK m \in T : \A k \in T : m <= k
  <2>1. T \subseteq Nat
    OBVIOUS
  <2> HIDE DEF T
  <2> QED
    BY <2>1, LeastNumber
<1>2. m # 1 /\ txt[m - 1] # NewLine
  BY FirstPlace, PlaceAfterBreak
<1>3. BreaksBefore(txt, m) = BreaksBefore(txt, m - 1)
  BY <1>2 DEF BreaksBefore
<1>4. LastBreak(txt, m) = LastBreak(txt, m - 1)
  BY <1>3 DEF LastBreak
<1>5. m - 1 \in Nat \ {0} /\ m - 1 \notin T
  BY <1>1, <1>2
<1> QED
  BY <1>4, <1>5

(* The character after one that is drawn.                                  *)
LEMMA PlaceAfterCharacter ==
  ASSUME NEW txt, NEW i \in Nat, i > 1, txt[i - 1] # NewLine
  PROVE  LineOf(txt, i) = LineOf(txt, i - 1) /\ ColumnOf(txt, i) = ColumnOf(txt, i - 1) + 1
<1>1. BreaksBefore(txt, i) = BreaksBefore(txt, i - 1)
  BY DEF BreaksBefore
<1>2. LastBreak(txt, i) = LastBreak(txt, i - 1) /\ LastBreak(txt, i - 1) \in 0..(i - 2)
  BY <1>1, LastBreakTyped DEF LastBreak
<1>3. /\ ColumnOf(txt, i) = i - 1 - LastBreak(txt, i)
      /\ ColumnOf(txt, i - 1) = i - 1 - 1 - LastBreak(txt, i - 1)
  BY DEF ColumnOf, LastBreak
<1> QED
  BY <1>1, <1>2, <1>3 DEF LineOf

(* Lines and columns are counted from 0.                                   *)
LEMMA PlaceTyped ==
  ASSUME NEW txt, NEW i \in Nat \ {0}
  PROVE  LineOf(txt, i) \in Nat /\ ColumnOf(txt, i) \in Nat
<1>1. BreaksBefore(txt, i) \in SUBSET (1..(i - 1))
  BY DEF BreaksBefore
<1>2. LineOf(txt, i) \in Nat
  <2>1. IsFiniteSet(1..(i - 1))
    BY FS_Interval
  <2>2. IsFiniteSet(BreaksBefore(txt, i))
    BY <1>1, <2>1, FS_Subset
  <2> QED
    BY <2>2, FS_CardinalityType DEF LineOf
<1>3. ColumnOf(txt, i) = i - 1 - LastBreak(txt, i)
  BY DEF ColumnOf, LastBreak
<1> QED
  BY <1>2, <1>3, LastBreakTyped

-----------------------------------------------------------------------------
(* The cursor of draw_string, which it moves character by character.       *)

NextCursor(txt, x0, y0, scale, i, at) ==
  IF i = 1 THEN <<x0, y0>>
  ELSE IF txt[i - 1] = NewLine THEN <<x0, at[i - 1][2] + GlyphHeight * scale>>
  ELSE <<at[i - 1][1] + GlyphWidth * scale, at[i - 1][2]>>

PlaceOf(txt, x0, y0, scale, i) ==
  <<x0 + ColumnOf(txt, i) * (GlyphWidth * scale), y0 + LineOf(txt, i) * (GlyphHeight * scale)>>

(* A place follows from the one before as the cursor does.                 *)
LEMMA PlaceFollows ==
  ASSUME NEW txt, NEW x0 \in Nat, NEW y0 \in Nat, NEW scale \in Nat,
         NEW i \in Nat \ {0}, NEW at,
         i > 1 => at[i - 1] = PlaceOf(txt, x0, y0, scale, i - 1)
  PROVE  NextCursor(txt, x0, y0, scale, i, at) = PlaceOf(txt, x0, y0, scale, i)
<1> DEFINE w == GlyphWidth * scale
           h == GlyphHeight * scale
<1>1. w \in Nat /\ h \in Nat
  BY FontAssumption
<1>2. \A k \in Nat : 0 * k = 0 /\ \A n \in Nat : (n + 1) * k = n * k + k
  OBVIOUS
<1>3. CASE i = 1
  <2>1. PlaceOf(txt, x0, y0, scale, 1) = <<x0 + 0 * w, y0 + 0 * h>>
    BY FirstPlace DEF PlaceOf
  <2> HIDE DEF w, h
  <2> QED
    BY <1>1, <1>2, <1>3, <2>1 DEF NextCursor
<1>4. CASE i > 1
  <2> DEFINE c == ColumnOf(txt, i - 1)
             l == LineOf(txt, i - 1)
  <2>1. c \in Nat /\ l \in Nat
    BY <1>4, PlaceTyped
  <2>2. at[i - 1][1] = x0 + c * w /\ at[i - 1][2] = y0 + l * h
    BY <1>4 DEF PlaceOf
  <2>3. CASE txt[i - 1] = NewLine
    <3>1. PlaceOf(txt, x0, y0, scale, i) = <<x0 + 0 * w, y0 + (l + 1) * h>>
      BY <1>4, <2>3, PlaceAfterBreak DEF PlaceOf
    <3>2. NextCursor(txt, x0, y0, scale, i, at) = <<x0, (y0 + l * h) + h>>
      BY <1>4, <2>2, <2>3 DEF NextCursor
    <3> HIDE DEF w, h, c, l
    <3>3. 0 * w = 0 /\ (l + 1) * h = l * h + h /\ l * h \in Nat
      BY <1>1, <1>2, <2>1
    <3> QED
      BY <1>1, <3>1, <3>2, <3>3
  <2>4. CASE txt[i - 1] # NewLine
    <3>1. PlaceOf(txt, x0, y0, scale, i) = <<x0 + (c + 1) * w, y0 + l * h>>
      BY <1>4, <2>4, PlaceAfterCharacter DEF PlaceOf
    <3>2. NextCursor(txt, x0, y0, scale, i, at) = <<(x0 + c * w) + w, y0 + l * h>>
      BY <1>4, <2>2, <2>4 DEF NextCursor
    <3> HIDE DEF w, h, c, l
    <3>3. (c + 1) * w = c * w + w /\ c * w \in Nat
      BY <1>1, <1>2, <2>1
    <3> QED
      BY <1>1, <3>1, <3>2, <3>3
  <2> QED
    BY <2>3, <2>4
<1> QED
  BY <1>3, <1>4

(* The recursion of the cursor has a solution, and the cursor is one.      *)
LEMMA CursorsExist ==
  ASSUME NEW txt, Len(txt) \in Nat, NEW x0 \in Nat, NEW y0 \in Nat, NEW scale \in Nat
  PROVE  Cursors(txt, x0, y0, scale) =
           [i \in 1..Len(txt) |->
              NextCursor(txt, x0, y0, scale, i, Cursors(txt, x0, y0, scale))]
<1> DEFINE at == Cursors(txt, x0, y0, scale)
           f == [i \in 1..Len(txt) |-> PlaceOf(txt, x0, y0, scale, i)]
<1>1. at = CHOOSE g : g = [i \in 1..Len(txt) |-> NextCursor(txt, x0, y0, scale, i, g)]
  BY DEF Cursors, NextCursor
<1>2. f = [i \in 1..Len(txt) |-> NextCursor(txt, x0, y0, scale, i, f)]
  <2>1. ASSUME NEW i \in 1..Len(txt)
        PROVE  NextCursor(txt, x0, y0, scale, i, f) = PlaceOf(txt, x0, y0, scale, i)
    <3>1. i > 1 => f[i - 1] = PlaceOf(txt, x0, y0, scale, i - 1)
      OBVIOUS
    <3>2. i \in Nat \ {0}
      OBVIOUS
    <3> HIDE DEF f
    <3> QED
      BY <3>1, <3>2, PlaceFollows
  <2> QED
    BY <2>1, Zenon
<1> HIDE DEF at, f
<1>3. \E g : g = [i \in 1..Len(txt) |-> NextCursor(txt, x0, y0, scale, i, g)]
  BY <1>2
<1>4. at = [i \in 1..Len(txt) |-> NextCursor(txt, x0, y0, scale, i, at)]
  BY <1>1, <1>3
<1> QED
  BY <1>4 DEF at

(* draw_string puts every character where its line and its column are.     *)
LEMMA CursorIsPlace ==
  ASSUME NEW txt, Len(txt) \in Nat, NEW x0 \in Nat, NEW y0 \in Nat, NEW scale \in Nat,
         NEW i \in 1..Len(txt)
  PROVE  Cursors(txt, x0, y0, scale)[i] = PlaceOf(txt, x0, y0, scale, i)
<1> DEFINE at == Cursors(txt, x0, y0, scale)
           T == {n \in 1..Len(txt) : at[n] # PlaceOf(txt, x0, y0, scale, n)}
<1> SUFFICES ASSUME T # {} PROVE FALSE
  OBVIOUS
<1>1. PICK m \in T : \A k \in T : m <= k
  <2>1. T \subseteq Nat
    OBVIOUS
  <2> HIDE DEF T
  <2> QED
    BY <2>1, LeastNumber
<1>2. m > 1 => at[m - 1] = PlaceOf(txt, x0, y0, scale, m - 1)
  BY <1>1
<1>3. at[m] = NextCursor(txt, x0, y0, scale, m, at)
  <2>1. m \in 1..Len(txt)
    OBVIOUS
  <2> HIDE DEF T
  <2> QED
    BY <2>1, CursorsExist
<1>4. m \in Nat \ {0}
  OBVIOUS
<1>5. NextCursor(txt, x0, y0, scale, m, at) = PlaceOf(txt, x0, y0, scale, m)
  <2> HIDE DEF T, at
  <2> QED
    BY <1>2, <1>4, PlaceFollows
<1> QED
  BY <1>3, <1>5

-----------------------------------------------------------------------------
(* The back buffer as rows that are stride elements apart.                 *)

(* A pixel's element lies in its row, and tells the pixel.                 *)
LEMMA RowMajor ==
  ASSUME NEW q \in Nat, NEW x \in Nat, NEW y \in Nat, NEW h \in Nat, x < q, y < h
  PROVE  y * q + x \in 0..(h * q - 1)
<1>1. h = y + 1 + (h - y - 1) /\ h - y - 1 \in Nat
  OBVIOUS
<1> DEFINE d == h - y - 1
<1>2. \A a \in Nat, b \in Nat : a * b \in Nat
  OBVIOUS
<1>3. y * q \in Nat /\ d * q \in Nat
  BY <1>1, <1>2
<1>4. h * q = y * q + q + d * q
  <2> HIDE DEF d
  <2>1. h = y + 1 + d /\ d \in Nat
    BY <1>1 DEF d
  <2>2. (y + 1 + d) * q = y * q + q + d * q
    BY <2>1
  <2> QED
    BY <2>1, <2>2
<1> HIDE DEF d
<1>5. h * q \in Nat
  BY <1>2
<1> QED
  BY <1>3, <1>4, <1>5

(* Two pixels have different elements.                                     *)
LEMMA RowMajorInjective ==
  ASSUME NEW q \in Nat, NEW x1 \in Nat, NEW y1 \in Nat, NEW x2 \in Nat, NEW y2 \in Nat,
         x1 < q, x2 < q, y1 * q + x1 = y2 * q + x2
  PROVE  x1 = x2 /\ y1 = y2
<1>1. ASSUME NEW xa \in Nat, NEW ya \in Nat, NEW xb \in Nat, NEW yb \in Nat,
             xa < q, ya < yb
      PROVE  ya * q + xa # yb * q + xb
  <2>1. ya * q + xa \in 0..(yb * q - 1)
    BY <1>1, RowMajor
  <2>2. yb * q \in Nat /\ ya * q \in Nat
    OBVIOUS
  <2> HIDE <1>1
  <2> QED
    BY <2>1, <2>2
<1>2. ~(y1 < y2) /\ ~(y2 < y1)
  BY <1>1
<1>3. y1 = y2
  BY <1>2
<1>4. y1 * q \in Nat
  OBVIOUS
<1> QED
  BY <1>3, <1>4

IsFramebuffer(g) ==
  /\ g.width \in Nat /\ g.height \in Nat /\ g.pitch \in Nat
  /\ 4 * g.width <= g.pitch

(* The rows have room for their pixels, and the back buffer for the rows.  *)
LEMMA Stride ==
  ASSUME NEW g, IsFramebuffer(g)
  PROVE  /\ pitch_u32(g) \in Nat /\ g.width <= pitch_u32(g)
         /\ g.height * pitch_u32(g) \in Nat
         /\ 0..(g.height * pitch_u32(g) - 1) \subseteq DOMAIN NewBackbuffer(g)
<1> DEFINE q == pitch_u32(g)
<1>1. g.width \in Nat /\ g.height \in Nat /\ g.pitch \in Nat /\ 4 * g.width <= g.pitch
  BY DEF IsFramebuffer
<1>2. q \in Nat /\ g.width <= q /\ 4 * q <= g.pitch
  BY <1>1 DEF pitch_u32
<1> HIDE DEF q
<1>3. \A a \in Nat, b \in Nat : a * b \in Nat
  OBVIOUS
<1>4. PICK r \in Nat : g.pitch = 4 * q + r
  <2>1. g.pitch - 4 * q \in Nat /\ g.pitch = 4 * q + (g.pitch - 4 * q)
    BY <1>1, <1>2
  <2> QED
    BY <2>1
<1>5. g.height * g.pitch = 4 * (g.height * q) + g.height * r
  BY <1>1, <1>2, <1>4
<1>6. g.height * q \in Nat /\ g.height * r \in Nat /\ g.height * g.pitch \in Nat
  BY <1>1, <1>2, <1>3, <1>4
<1>7. g.height * q <= (g.height * g.pitch) \div 4
  BY <1>5, <1>6
<1>8. DOMAIN NewBackbuffer(g) = 0..((g.height * g.pitch) \div 4 - 1)
  BY DEF NewBackbuffer
<1>9. (g.height * g.pitch) \div 4 \in Nat
  BY <1>6
<1> QED
  BY <1>2, <1>6, <1>7, <1>8, <1>9 DEF q

(* An offset is that of a pixel iff the pixel is where a glyph is lit.     *)
LEMMA CharAt ==
  ASSUME NEW g, IsFramebuffer(g), NEW a \in Nat, NEW b \in Nat, NEW ch \in DOMAIN Font,
         NEW x \in 0..(g.width - 1), NEW y \in 0..(g.height - 1)
  PROVE  Element(g, x, y) \in CharOffsets(g, a, b, ch, 1) <=>
           \E bit \in Font[ch] : x = a + bit[1] /\ y = b + bit[2]
<1>1. 0..(1 - 1) = {0}
  OBVIOUS
<1> DEFINE P == {<<a + bit[1] * 1 + dx, b + bit[2] * 1 + dy>> :
                   bit \in Font[ch], dx \in 0..(1 - 1), dy \in 0..(1 - 1)}
           W == (0..(g.width - 1)) \X (0..(g.height - 1))
<1>2. \A bit \in Font[ch] : bit[1] \in Nat /\ bit[2] \in Nat
  BY FontAssumption
<1>3. P = {<<a + bit[1], b + bit[2]>> : bit \in Font[ch]}
  BY <1>1, <1>2
<1>4. CharOffsets(g, a, b, ch, 1) = {Element(g, p[1], p[2]) : p \in P \cap W}
  BY DEF CharOffsets
<1>5. g.width \in Nat /\ g.height \in Nat /\ pitch_u32(g) \in Nat /\ g.width <= pitch_u32(g)
  BY Stride DEF IsFramebuffer
<1>6. \A p \in W : Element(g, x, y) = Element(g, p[1], p[2]) => p = <<x, y>>
  <2> SUFFICES ASSUME NEW u \in 0..(g.width - 1), NEW v \in 0..(g.height - 1),
                      Element(g, x, y) = Element(g, u, v)
               PROVE  u = x /\ v = y
    OBVIOUS
  <2>1. x \in Nat /\ y \in Nat /\ u \in Nat /\ v \in Nat
        /\ x < pitch_u32(g) /\ u < pitch_u32(g)
    BY <1>5
  <2>2. y * pitch_u32(g) + x = v * pitch_u32(g) + u
    BY DEF Element
  <2> QED
    BY <1>5, <2>1, <2>2, RowMajorInjective
<1>7. <<x, y>> \in W
  OBVIOUS
<1> HIDE DEF W
<1>8. Element(g, x, y) \in CharOffsets(g, a, b, ch, 1) <=> <<x, y>> \in P
  <2> HIDE DEF P
  <2>1. Element(g, <<x, y>>[1], <<x, y>>[2]) = Element(g, x, y)
    OBVIOUS
  <2> QED
    BY <1>4, <1>6, <1>7, <2>1
<1> HIDE DEF P
<1> QED
  BY <1>3, <1>8

(* A glyph's offsets are elements of the screen.                           *)
LEMMA CharInside ==
  ASSUME NEW g, IsFramebuffer(g), NEW a, NEW b, NEW ch, NEW scale
  PROVE  CharOffsets(g, a, b, ch, scale) \subseteq 0..(g.height * pitch_u32(g) - 1)
<1> SUFFICES ASSUME NEW u \in 0..(g.width - 1), NEW v \in 0..(g.height - 1)
             PROVE  Element(g, u, v) \in 0..(g.height * pitch_u32(g) - 1)
  BY DEF CharOffsets
<1>1. g.width \in Nat /\ g.height \in Nat /\ pitch_u32(g) \in Nat /\ g.width <= pitch_u32(g)
  BY Stride DEF IsFramebuffer
<1>2. u \in Nat /\ v \in Nat /\ u < pitch_u32(g) /\ v < g.height
  BY <1>1
<1> QED
  BY <1>1, <1>2, RowMajor DEF Element

(* A text is drawn where it should be.                                     *)
LEMMA StringAt ==
  ASSUME NEW g, IsFramebuffer(g), NEW x0 \in Nat, NEW y0 \in Nat,
         NEW txt \in Seq(DOMAIN Font \cup {NewLine}),
         NEW x \in 0..(g.width - 1), NEW y \in 0..(g.height - 1)
  PROVE  Element(g, x, y) \in StringOffsets(g, x0, y0, txt, 1) <=> Lit(txt, x0, y0, 1, x, y)
<1>0. \A i \in 1..Len(txt) : Cursors(txt, x0, y0, 1)[i] = PlaceOf(txt, x0, y0, 1, i)
  <2>1. Len(txt) \in Nat /\ 1 \in Nat
    OBVIOUS
  <2> QED
    BY <2>1, CursorIsPlace
<1> DEFINE at == Cursors(txt, x0, y0, 1)
           J == {j \in 1..Len(txt) : txt[j] # NewLine}
           left(i) == x - x0 - ColumnOf(txt, i) * GlyphWidth * 1
           top(i) == y - y0 - LineOf(txt, i) * GlyphHeight * 1
           Shows(i) == /\ left(i) >= 0 /\ top(i) >= 0
                       /\ <<left(i) \div 1, top(i) \div 1>> \in Font[txt[i]]
<1>1. Element(g, x, y) \in StringOffsets(g, x0, y0, txt, 1) <=>
        \E i \in J : Element(g, x, y) \in CharOffsets(g, at[i][1], at[i][2], txt[i], 1)
  BY DEF StringOffsets
<1>2. Lit(txt, x0, y0, 1, x, y) <=> \E i \in J : Shows(i)
  BY DEF Lit
<1>3. ASSUME NEW i \in J
      PROVE  Element(g, x, y) \in CharOffsets(g, at[i][1], at[i][2], txt[i], 1) <=> Shows(i)
  <2> DEFINE cw == ColumnOf(txt, i) * GlyphWidth
             lh == LineOf(txt, i) * GlyphHeight
  <2>1. Len(txt) \in Nat /\ i \in 1..Len(txt) /\ i \in Nat \ {0} /\ txt[i] \in DOMAIN Font
    OBVIOUS
  <2>2. cw \in Nat /\ lh \in Nat
    <3>1. ColumnOf(txt, i) \in Nat /\ LineOf(txt, i) \in Nat
      BY <2>1, PlaceTyped
    <3> QED
      BY <3>1, FontAssumption
  <2>3. at[i] = <<x0 + cw, y0 + lh>>
    <3>1. at[i] = PlaceOf(txt, x0, y0, 1, i)
      BY <1>0, <2>1
    <3>2. GlyphWidth * 1 = GlyphWidth /\ GlyphHeight * 1 = GlyphHeight
      BY FontAssumption
    <3> QED
      BY <3>1, <3>2 DEF PlaceOf
  <2>4. left(i) = x - x0 - cw /\ top(i) = y - y0 - lh
    BY <2>2
  <2> HIDE DEF cw, lh, at, left, top
  <2>5. Element(g, x, y) \in CharOffsets(g, at[i][1], at[i][2], txt[i], 1) <=>
          \E bit \in Font[txt[i]] : x = (x0 + cw) + bit[1] /\ y = (y0 + lh) + bit[2]
    <3>1. at[i][1] = x0 + cw /\ at[i][2] = y0 + lh /\ x0 + cw \in Nat /\ y0 + lh \in Nat
      BY <2>2, <2>3
    <3>2. \A a \in Nat, b \in Nat, ch \in DOMAIN Font :
            Element(g, x, y) \in CharOffsets(g, a, b, ch, 1) <=>
              \E bit \in Font[ch] : x = a + bit[1] /\ y = b + bit[2]
      BY CharAt
    <3>3. /\ txt[i] \in DOMAIN Font /\ x0 + cw \in Nat /\ y0 + lh \in Nat
      BY <2>1, <3>1
    <3>4. Element(g, x, y) \in CharOffsets(g, x0 + cw, y0 + lh, txt[i], 1) <=>
            \E bit \in Font[txt[i]] : x = (x0 + cw) + bit[1] /\ y = (y0 + lh) + bit[2]
      BY <3>2, <3>3, Zenon
    <3>5. CharOffsets(g, at[i][1], at[i][2], txt[i], 1)
            = CharOffsets(g, x0 + cw, y0 + lh, txt[i], 1)
      BY <3>1, Zenon
    <3> QED
      BY <3>4, <3>5, Zenon
  <2>6. \A bit \in Font[txt[i]] : /\ bit \in Nat \X Nat
    BY <2>1, FontAssumption
  <2>7. Shows(i) <=> /\ x - x0 - cw >= 0 /\ y - y0 - lh >= 0
                     /\ <<x - x0 - cw, y - y0 - lh>> \in Font[txt[i]]
    <3>1. left(i) \in Int /\ top(i) \in Int
      <4>1. x \in Int /\ y \in Int
        OBVIOUS
      <4> QED
        BY <4>1, <2>2, <2>4
    <3>2. left(i) \div 1 = left(i) /\ top(i) \div 1 = top(i)
      BY <3>1
    <3> QED
      BY <2>4, <3>2
  <2>8. ASSUME NEW bit \in Font[txt[i]], x = (x0 + cw) + bit[1], y = (y0 + lh) + bit[2]
        PROVE  /\ x - x0 - cw >= 0 /\ y - y0 - lh >= 0
               /\ <<x - x0 - cw, y - y0 - lh>> = bit
    <3>1. bit[1] \in Nat /\ bit[2] \in Nat /\ bit = <<bit[1], bit[2]>>
      BY <2>6
    <3> QED
      BY <2>2, <2>8, <3>1
  <2>9. ASSUME <<x - x0 - cw, y - y0 - lh>> \in Font[txt[i]]
        PROVE  \E bit \in Font[txt[i]] : x = (x0 + cw) + bit[1] /\ y = (y0 + lh) + bit[2]
    <3> DEFINE bit == <<x - x0 - cw, y - y0 - lh>>
    <3>1. x = (x0 + cw) + bit[1] /\ y = (y0 + lh) + bit[2]
      BY <2>2
    <3> QED
      BY <2>9, <3>1
  <2> HIDE DEF Shows
  <2> QED
    BY <2>5, <2>7, <2>8, <2>9
<1> HIDE DEF Shows, J, at
<1> QED
  BY <1>1, <1>2, <1>3

-----------------------------------------------------------------------------
(* The frame on the screen.                                                *)

(* What DrawFrame leaves on framebuffer g for a text.                      *)
Frame(g, txt) ==
  Flipped(g, Drawn(g, Cleared(g, NewBackbuffer(g), Background),
                   TextOrigin, TextOrigin, txt, Foreground, 1))

(* The text buffer is empty but between print and draw, the framebuffer's  *)
(* cell holds one of 32 bits, and the screen shows a text drawn on it.     *)
ScreenInv ==
  /\ pc \notin {"draw", "panicked"} => text = <<>>
  /\ pc = "draw" => text \in Texts
  /\ "render" \in cells => fb \in Framebuffers /\ \A g \in fb : g.bpp = 32
  /\ pc \in {"print", "draw", "frame end"} => "render" \in cells
  /\ pc = "frame end" => \E g \in fb, t \in Texts : screen = Frame(g, t)

(* A framebuffer whose cell is initialised has room for its rows.          *)
LEMMA FramebufferInCell ==
  ASSUME ScreenInv, "render" \in cells, NEW g \in fb
  PROVE  IsFramebuffer(g)
BY ScreenAssumption DEF ScreenInv, IsFramebuffer

(* The screen shows the text of a frame at every pixel.                    *)
LEMMA FrameShows ==
  ASSUME NEW g, IsFramebuffer(g), NEW t \in Texts
  PROVE  /\ DOMAIN Frame(g, t) \subseteq DOMAIN NewBackbuffer(g)
         /\ StringOffsets(g, TextOrigin, TextOrigin, t, 1) \subseteq DOMAIN NewBackbuffer(g)
         /\ \A x \in 0..(g.width - 1), y \in 0..(g.height - 1) :
              Frame(g, t)[y * pitch_u32(g) + x] =
                IF Lit(t, TextOrigin, TextOrigin, 1, x, y) THEN Foreground ELSE Background
<1> DEFINE lit == StringOffsets(g, TextOrigin, TextOrigin, t, 1)
           buf == Cleared(g, NewBackbuffer(g), Background)
           W == 0..(g.height * pitch_u32(g) - 1)
<1>1. W \subseteq DOMAIN NewBackbuffer(g)
  BY Stride
<1>2. lit \subseteq W
  <2>1. \A a, b, ch : CharOffsets(g, a, b, ch, 1) \subseteq W
    BY CharInside
  <2> QED
    BY <2>1, Zenon DEF StringOffsets
<1>3. \A i \in W : Frame(g, t)[i] = IF i \in lit THEN Foreground ELSE Background
  <2>1. DOMAIN buf = DOMAIN NewBackbuffer(g) \cup 0..(pitch_u32(g) * g.height - 1)
    BY DEF Cleared
  <2>2. pitch_u32(g) * g.height = g.height * pitch_u32(g)
    BY Stride DEF IsFramebuffer
  <2>3. \A i \in W : buf[i] = Background
    <3> SUFFICES ASSUME NEW i \in W PROVE buf[i] = Background
      OBVIOUS
    <3>1. i \in DOMAIN buf
      BY <1>1, <2>1
    <3>2. i < pitch_u32(g) * g.height
      BY <2>2, Stride
    <3>3. buf = [j \in DOMAIN NewBackbuffer(g) \cup 0..(pitch_u32(g) * g.height - 1) |->
                   IF j < pitch_u32(g) * g.height THEN Background ELSE NewBackbuffer(g)[j]]
      BY DEF Cleared
    <3> HIDE DEF buf
    <3> QED
      BY <2>1, <3>1, <3>2, <3>3
  <2>4. Frame(g, t) = [i \in W |-> Drawn(g, buf, TextOrigin, TextOrigin, t, Foreground, 1)[i]]
    BY DEF Frame, Flipped
  <2>5. Drawn(g, buf, TextOrigin, TextOrigin, t, Foreground, 1) =
          [i \in DOMAIN buf \cup lit |-> IF i \in lit THEN Foreground ELSE buf[i]]
    BY DEF Drawn
  <2> HIDE DEF buf, lit
  <2>6. W \subseteq DOMAIN buf
    BY <1>1, <2>1
  <2> HIDE DEF W
  <2> QED
    BY <2>3, <2>4, <2>5, <2>6
<1>4. DOMAIN Frame(g, t) = W
  BY DEF Frame, Flipped
<1>5. ASSUME NEW x \in 0..(g.width - 1), NEW y \in 0..(g.height - 1)
      PROVE  Frame(g, t)[y * pitch_u32(g) + x] =
               IF Lit(t, TextOrigin, TextOrigin, 1, x, y) THEN Foreground ELSE Background
  <2>1. y * pitch_u32(g) + x \in W
    <3>1. /\ g.width \in Nat /\ g.height \in Nat
          /\ pitch_u32(g) \in Nat /\ g.width <= pitch_u32(g)
      BY Stride DEF IsFramebuffer
    <3>2. x \in Nat /\ y \in Nat /\ x < pitch_u32(g) /\ y < g.height
      BY <3>1
    <3> QED
      BY <3>1, <3>2, RowMajor
  <2>2. Element(g, x, y) \in lit <=> Lit(t, TextOrigin, TextOrigin, 1, x, y)
    <3>1. TextOrigin \in Nat /\ t \in Seq(DOMAIN Font \cup {NewLine})
      BY ScreenAssumption
    <3> QED
      BY <3>1, StringAt
  <2>3. Element(g, x, y) = y * pitch_u32(g) + x
    BY DEF Element
  <2> HIDE DEF lit, W
  <2> QED
    BY <1>3, <2>1, <2>2, <2>3
<1> HIDE DEF W, lit
<1> QED
  BY <1>1, <1>2, <1>4, <1>5 DEF lit

(* A step that draws nothing, initialises no cell and leaves the thread    *)
(* where it is, or stops it.                                               *)
LEMMA ScreenStays ==
  ASSUME ScreenInv, UNCHANGED drawVars, cells' = cells, pc' = pc \/ pc' = "panicked"
  PROVE  ScreenInv'
BY DEF ScreenInv, drawVars, Frame

(* A step of the thread that draws nothing and begins no frame.            *)
LEMMA ScreenLater ==
  ASSUME ScreenInv, UNCHANGED drawVars, pc \notin {"draw", "panicked"},
         pc' \notin {"print", "draw", "frame end"},
         "render" \in cells' => "render" \in cells
  PROVE  ScreenInv'
BY DEF ScreenInv, drawVars

(* Every step keeps the screen's part of the invariant.                    *)
LEMMA NextScreenInv ==
  ASSUME IInv, ScreenInv, [Next]_vars
  PROVE  ScreenInv'
<1>1. CASE \/ Cli \/ pic_remap \/ PicMasks \/ LoadIdt \/ pit_init \/ Sti
           \/ CallWait \/ ReturnFromWait \/ DevicesPanic \/ DevicesDone \/ EndFrame
  <2>1. /\ UNCHANGED drawVars /\ cells' = cells
        /\ pc \notin {"draw", "panicked"} /\ pc' \notin {"print", "draw", "frame end"}
    BY <1>1 DEF Cli, pic_remap, PicMasks, LoadIdt, pit_init, Sti, CallWait,
                ReturnFromWait, DevicesPanic, DevicesDone, EndFrame, Panic, From
  <2> QED
    BY <2>1, ScreenLater
<1>2. CASE \/ InitCell("text", "text", "keys") \/ InitCell("keys", "keys", "mapper")
           \/ InitCell("mapper", "mapper", "devices")
  <2>1. /\ UNCHANGED drawVars /\ ("render" \in cells' => "render" \in cells)
        /\ pc \notin {"draw", "panicked"} /\ pc' \notin {"print", "draw", "frame end"}
    BY <1>2 DEF InitCell, From
  <2> QED
    BY <2>1, ScreenLater
<1>3. CASE InitFramebuffer
  <2>1. pc = "framebuffer" /\ cells = {} /\ text' = text
    BY <1>3 DEF InitFramebuffer, From, IInv, StartInv
  <2>2. PICK f \in Framebuffers :
          /\ fb' = f
          /\ CASE f = {} -> pc' = "text" /\ UNCHANGED <<flag, cells, screen>>
               [] \E g \in f : g.bpp # 32 -> Panic /\ UNCHANGED <<cells, screen>>
               [] OTHER -> /\ pc' = "text" /\ cells' = cells \cup {"render"}
                           /\ UNCHANGED <<flag, screen>>
    BY <1>3 DEF InitFramebuffer
  <2>3. CASE f = {} \/ \E g \in f : g.bpp # 32
    <3>1. cells' = {} /\ pc' \in {"text", "panicked"}
      <4>1. CASE f = {}
        BY <2>1, <2>2, <4>1
      <4>2. CASE f # {} /\ \E g \in f : g.bpp # 32
        BY <2>1, <2>2, <4>2 DEF Panic
      <4> QED
        BY <2>3, <4>1, <4>2
    <3> QED
      BY <2>1, <3>1 DEF ScreenInv
  <2>4. CASE ~(f = {} \/ \E g \in f : g.bpp # 32)
    <3>1. pc' = "text" /\ fb' \in Framebuffers /\ \A g \in fb' : g.bpp = 32
      BY <2>2, <2>4
    <3> QED
      BY <2>1, <3>1 DEF ScreenInv
  <2> QED
    BY <2>3, <2>4
<1>4. CASE StartFrame
  <2>1. UNCHANGED drawVars /\ cells' = cells /\ pc = "frame"
    BY <1>4 DEF StartFrame, From
  <2>2. (pc' = "print" /\ "render" \in cells) \/ pc' = "panicked"
    BY <1>4 DEF StartFrame, Panic
  <2> QED
    BY <2>1, <2>2 DEF ScreenInv, drawVars
<1>5. CASE PrintText
  <2>1. pc = "print" /\ pc' = "draw" /\ cells' = cells /\ fb' = fb /\ text = <<>>
    BY <1>5 DEF PrintText, From, ScreenInv
  <2>2. PICK t \in Texts : text' = text \o t
    BY <1>5 DEF PrintText, write_str
  <2>3. text' = t
    <3>1. t \in Seq(DOMAIN Font \cup {NewLine})
      BY ScreenAssumption
    <3>2. <<>> \o t = t
      BY <3>1
    <3> QED
      BY <2>1, <2>2, <3>2
  <2> QED
    BY <2>1, <2>3 DEF ScreenInv
<1>6. CASE DrawFrame
  <2>1. /\ pc = "draw" /\ pc' = "frame end" /\ cells' = cells /\ fb' = fb
        /\ text' = <<>> /\ \E g \in fb : screen' = Frame(g, text)
    BY <1>6 DEF DrawFrame, From, Frame
  <2>2. text \in Texts
    BY <2>1 DEF ScreenInv
  <2>3. \E g \in fb', t \in Texts : screen' = Frame(g, t)
    BY <2>1, <2>2
  <2>4. (\E g \in fb, t \in Texts : screen = Frame(g, t))'
    BY <2>3 DEF Frame
  <2> QED
    BY <2>1, <2>4 DEF ScreenInv
<1>7. CASE HandlerStep
  BY <1>7, ScreenStays
     DEF HandlerStep, Tick, KeyStatus, KeyData, KeyCount, SendEoiSlave, SendEoiMaster, Panic
<1>8. CASE \E r \in Irqs : Interrupt(r)
  BY <1>8, ScreenStays DEF Interrupt
<1>9. CASE Devices
  BY <1>9, ScreenStays DEF Devices, TimerEdge, KeyPress, KeyFill, OtherEdge
<1>10. CASE UNCHANGED vars
  BY <1>10, ScreenStays DEF vars
<1> QED
  BY <1>1, <1>2, <1>3, <1>4, <1>5, <1>6, <1>7, <1>8, <1>9, <1>10 DEF Next, Thread

-----------------------------------------------------------------------------
(* The theorems.                                                           *)

(* Every step keeps the invariant.                                         *)
LEMMA NextIInv == IInv /\ [Next]_vars => IInv'
<1> SUFFICES ASSUME IInv, [Next]_vars PROVE IInv'
  OBVIOUS
<1>1. CASE Thread
  <2>1. CASE \/ InitCell("text", "text", "keys") \/ InitCell("keys", "keys", "mapper")
             \/ InitCell("mapper", "mapper", "devices")
    BY <2>1, InitCellKeepsIInv
  <2> QED
    BY <1>1, <2>1, SetUpKeepsIInv, pit_initKeepsIInv, InitFramebufferKeepsIInv,
       CallWaitKeepsIInv, ReturnFromWaitKeepsIInv, FramesKeepIInv DEF Thread
<1>2. CASE HandlerStep
  BY <1>2, TickKeepsIInv, KeyStatusKeepsIInv, KeyDataKeepsIInv, KeyCountKeepsIInv,
     SendEoiSlaveKeepsIInv, SendEoiMasterKeepsIInv DEF HandlerStep
<1>3. CASE \E r \in Irqs : Interrupt(r)
  BY <1>3, InterruptKeepsIInv
<1>4. CASE Devices
  BY <1>4, TimerEdgeKeepsIInv, KeyPressKeepsIInv, KeyFillKeepsIInv, OtherEdgeKeepsIInv
     DEF Devices
<1>5. CASE UNCHANGED vars
  <2>1. /\ pc' = pc /\ UNCHANGED <<flag, idt, obf, deaf>> /\ UNCHANGED <<stack, pic>>
        /\ UNCHANGED keys /\ UNCHANGED cells /\ UNCHANGED timeVars
        /\ UNCHANGED <<stack, obf, keys>> /\ UNCHANGED <<stack, flag, obf>>
        /\ UNCHANGED <<pc, cells, pit>> /\ UNCHANGED <<pc, stack, pic, ticks, edges>>
    BY <1>5 DEF vars, picVars, keyVars, timeVars, drawVars
  <2> QED
    BY <2>1, Untouched DEF IInv, TypeOK
<1> QED
  BY <1>1, <1>2, <1>3, <1>4, <1>5 DEF Next

(* The invariant holds in every reachable state (main.rs, time.rs, ps2.rs). *)
THEOREM Invariance == Spec => []IInv
<1>1. Init => IInv
  BY InitIInv
<1>2. IInv /\ [Next]_vars => IInv'
  BY NextIInv
<1> QED
  BY <1>1, <1>2, PTL DEF Spec

(* The variables of thread, handlers and devices have their types.         *)
THEOREM TypeCorrectness == Spec => []TypeOK
<1>1. IInv => TypeOK
  BY DEF IInv
<1> QED
  BY <1>1, Invariance, PTL

(* Handlers do not nest, and each of them releases its own line and no     *)
(* other, whatever lines there are (main.rs:97-102, time.rs:23-28,         *)
(* ps2.rs:11-23).                                                          *)
THEOREM LinesReleased == Spec => []ServiceExact
<1>1. IInv => ServiceExact
  <2> SUFFICES ASSUME IInv PROVE ServiceExact
    OBVIOUS
  <2>1. stack \in Seq(HandlerRecords) /\ Len(stack) <= 1
    BY DEF IInv, TypeOK, PicTypes, ServiceFlat
  <2>2. UNION {InService(stack[i]) : i \in 1..Len(stack)} =
          IF stack = <<>> THEN {} ELSE InService(stack[1])
    BY <2>1, ServiceOfStack
  <2> QED
    BY <2>1, <2>2 DEF IInv, ServiceFlat, ServiceExact
<1> QED
  BY <1>1, Invariance, PTL

(* No scan code is lost or counted twice, however many keys are pressed    *)
(* (ps2.rs:11-17).                                                         *)
THEOREM NoKeyLost == Spec => []KeysConserved
<1>1. IInv => KeysConserved
  <2> SUFFICES ASSUME IInv PROVE KeysConserved
    OBVIOUS
  <2>1. stack \in Seq(HandlerRecords) /\ Len(stack) <= 1
    BY DEF IInv, TypeOK, PicTypes, ServiceFlat
  <2>2. Cardinality({i \in 1..Len(stack) : stack[i].at = "count"}) = Taken
    BY <2>1, CountOfStack DEF Taken, Counting
  <2>3. keys.sent = keys.queue + keys.counted + (IF obf THEN 1 ELSE 0) + Taken
    BY DEF IInv, KeysFlat, Buffered
  <2> QED
    BY <2>2, <2>3, Zenon DEF KeysConserved
<1> QED
  BY <1>1, Invariance, PTL

(* Once both cells are there, every panic is one of the thread's device    *)
(* part: no handler and no frame panics, whatever interrupts come          *)
(* (main.rs:165-227, 231, ps2.rs:16).                                      *)
THEOREM PanicsOnlyInDevices == Spec => PanicOnlyInDevices
<1> DEFINE Panics == pc # "panicked" /\ pc' = "panicked" /\ {"keys", "render"} \subseteq cells
<1>1. IInv /\ [Next]_vars => [Panics => pc = "devices" /\ stack = <<>>]_vars
  <2> SUFFICES ASSUME IInv, Next, Panics PROVE pc = "devices" /\ stack = <<>>
    BY DEF vars
  <2>1. ~HandlerStep
    BY DEF HandlerStep, Tick, KeyStatus, KeyData, KeyCount, SendEoiSlave, SendEoiMaster
  <2>2. ~(\E r \in Irqs : Interrupt(r)) /\ ~Devices
    BY DEF Interrupt, Devices, TimerEdge, KeyPress, KeyFill, OtherEdge
  <2>3. ~InitFramebuffer
    BY DEF InitFramebuffer, From, IInv, StartInv
  <2>4. Thread => DevicesPanic
    BY <2>3 DEF Thread, Cli, pic_remap, PicMasks, LoadIdt, pit_init, Sti, InitCell, CallWait,
                ReturnFromWait, DevicesDone, StartFrame, PrintText, DrawFrame, EndFrame, From
  <2> QED
    BY <2>1, <2>2, <2>4 DEF Next, DevicesPanic, From
<1> QED
  BY <1>1, Invariance, PTL DEF Spec, PanicOnlyInDevices

(* wait_ms waits long enough, for all arguments (time.rs:11-35).           *)
THEOREM WaitsLongEnough == Spec => WaitLongEnough
<1> DEFINE Enough == edges * pit * 1000 >= (wait - 1) * (PIT_FREQUENCY - 1000)
<1>1. IInv /\ [Next]_vars => [pc = "waiting" /\ pc' = "devices" => Enough]_vars
  <2> SUFFICES ASSUME IInv, Next, pc = "waiting", pc' = "devices" PROVE Enough
    BY DEF vars
  <2>1. ReturnFromWait
    <3>1. ~HandlerStep
      BY DEF HandlerStep, Tick, KeyStatus, KeyData, KeyCount, SendEoiSlave, SendEoiMaster, Panic
    <3>2. ~(\E r \in Irqs : Interrupt(r))
      BY DEF Interrupt
    <3>3. ~Devices
      BY DEF Devices, TimerEdge, KeyPress, KeyFill, OtherEdge
    <3>4. Thread => ReturnFromWait
      BY DEF Thread, Cli, pic_remap, PicMasks, LoadIdt, pit_init, Sti, InitFramebuffer,
             InitCell, CallWait, DevicesPanic, DevicesDone, StartFrame, PrintText, DrawFrame,
             EndFrame, Panic, From
    <3> QED
      BY <3>1, <3>2, <3>3, <3>4 DEF Next
  <2>2. stack = <<>> /\ ticks >= wait
    BY <2>1 DEF ReturnFromWait, From
  <2>3. edges = Horizon \/ ticks + Requested + Entered <= edges + 1
    BY DEF IInv, WaitInv
  <2>4. Requested \in 0..1 /\ Entered = 0
    BY <2>2, ThreadState
  <2>5. ticks \in Int /\ ticks \in 0..Horizon /\ edges \in 0..Horizon
    BY Numbers DEF IInv
  <2>6. wait \in 0..Horizon /\ (edges = Horizon => wait <= edges)
    <3>1. wait \in Waits \cup {0}
      BY DEF IInv, TypeOK, TimeTypes
    <3> QED
      BY <3>1, Bounds
  <2>7. edges \in Nat /\ wait \in Nat /\ wait - 1 <= edges
    BY <2>2, <2>3, <2>4, <2>5, <2>6, Bounds
  <2>8. pit = 1193
    BY DEF IInv, StartInv
  <2>9. edges * 1193000 >= (wait - 1) * 1192182
    BY <2>7
  <2> QED
    BY <2>7, <2>8, <2>9 DEF PIT_FREQUENCY
<1> QED
  BY <1>1, Invariance, PTL DEF Spec, WaitLongEnough

(* After every frame the screen shows its text and nothing else, for every *)
(* font, every text and every framebuffer of 32 bits, whatever its size    *)
(* and its pitch; and draw_char never writes outside of the back buffer    *)
(* (main.rs:231-253, framebuffer.rs, font_renderer.rs:12-59).              *)
THEOREM ScreenShowsText == Spec => []ScreenExact
<1>1. Init => ScreenInv
  BY DEF Init, ScreenInv
<1>2. IInv /\ ScreenInv /\ [Next]_vars => ScreenInv'
  BY NextScreenInv
<1>3. ScreenInv => ScreenExact
  <2> SUFFICES ASSUME ScreenInv, pc = "frame end"
               PROVE  \E g \in fb, t \in Texts :
                        /\ DOMAIN screen \subseteq DOMAIN NewBackbuffer(g)
                        /\ StringOffsets(g, TextOrigin, TextOrigin, t, 1)
                             \subseteq DOMAIN NewBackbuffer(g)
                        /\ \A x \in 0..(g.width - 1), y \in 0..(g.height - 1) :
                             screen[y * pitch_u32(g) + x] =
                               IF Lit(t, TextOrigin, TextOrigin, 1, x, y)
                               THEN Foreground ELSE Background
    BY DEF ScreenExact
  <2>1. "render" \in cells /\ \E g \in fb, t \in Texts : screen = Frame(g, t)
    BY DEF ScreenInv
  <2>2. PICK g \in fb, t \in Texts : screen = Frame(g, t)
    BY <2>1
  <2>3. IsFramebuffer(g)
    BY <2>1, FramebufferInCell
  <2> WITNESS g \in fb, t \in Texts
  <2> QED
    BY <2>2, <2>3, FrameShows
<1> QED
  BY <1>1, <1>2, <1>3, Invariance, PTL DEF Spec
=============================================================================
