-------------------------- MODULE InterruptsProofs --------------------------
(***************************************************************************)
(* Proofs about module Interrupts, for PICs of any width, any drivers and  *)
(* devices, and any number of tasks.                                       *)
(***************************************************************************)
EXTENDS Interrupts, TLAPS

USE WidthAssumption, OffsetsAssumption, LinesAssumption, TasksAssumption

(* Until interrupts are enabled no handler has run; from the second step of*)
(* the boot on the PICs have their new offsets.                            *)
BootInv ==
    /\ pc \in {"remap", "mask", "drivers"} =>
          ~ iflag /\ isr = {} /\ \A t \in Tasks : stack[t] = <<>>
    /\ pc # "remap" => offset1 = PIC1_OFFSET /\ offset2 = PIC2_OFFSET

(* The four parts need each other: only because no handler is interrupted  *)
(* before its EOI is nothing in service when the next interrupt is taken,  *)
(* and only because each frame has the right line does that EOI reach the  *)
(* PIC which holds the line in service.                                    *)
IntInv == TypeOK /\ BootInv /\ DriversRunThrough /\ RightDriver /\ NothingStuck

(* The lines are the master's and the slave's.                             *)
LEMMA SlaveLines == Cascade \in Master /\ Master \subseteq Lines /\ Slave \subseteq Lines
                    /\ Lines = Master \cup Slave /\ Master \cap Slave = {}
  BY DEF Cascade, Master, Slave, Lines

(* The newest frame of the stack that the CPU is on.                       *)
LEMMA TopFrame ==
  ASSUME TypeOK, InHandler
  PROVE  /\ Len(stack[current]) \in DOMAIN stack[current]
         /\ Top \in Frames
         /\ stack[current] \in Seq(Frames) /\ Len(stack[current]) \in Nat \ {0}
         /\ Top = stack[current][Len(stack[current])]
  BY DEF TypeOK, InHandler, Top

(* A step of the handler changes the newest frame only.                    *)
LEMMA AdvancedIs ==
  ASSUME TypeOK, InHandler, Top.step \in {"eoi", "driver"}
  PROVE  /\ Advanced \in [Tasks -> Seq(Frames)]
         /\ \A t \in Tasks \ {current} : Advanced[t] = stack[t]
         /\ DOMAIN Advanced[current] = DOMAIN stack[current]
         /\ \A k \in DOMAIN stack[current] : k # Len(stack[current]) =>
                Advanced[current][k] = stack[current][k]
         /\ Advanced[current][Len(stack[current])] =
                [line |-> Top.line, irq |-> Top.irq, step |-> Order(Top.step)]
  <1> DEFINE n == Len(stack[current])
             f == [line |-> Top.line, irq |-> Top.irq, step |-> Order(Top.step)]
             s == [stack[current] EXCEPT ![n] = f]
  <1>1. Order(Top.step) \in Steps
    BY DEF Order, Steps
  <1>2. f \in Frames
    BY <1>1, TopFrame DEF Frames
  <1>3. s \in Seq(Frames) /\ DOMAIN s = DOMAIN stack[current]
    BY <1>2, TopFrame
  <1>4. [stack[current][n] EXCEPT !.step = Order(@)] = f
    BY TopFrame DEF Frames, Top
  <1>5. Advanced = [stack EXCEPT ![current] = s]
    BY <1>4, TopFrame DEF Advanced
  <1> QED BY <1>3, <1>5, TopFrame DEF TypeOK

(* Nothing is in service when an interrupt is taken.                       *)
LEMMA IdlePics ==
  ASSUME IntInv, iflag
  PROVE  isr = {}
  BY TopFrame DEF IntInv, NothingStuck, DriversRunThrough, TypeOK

(* After the boot a line's vector leads back to the line.                  *)
LEMMA VectorOf ==
  ASSUME IntInv, pc = "up", NEW l \in Lines
  PROVE  Vector(l) \in Gates /\ (Vector(l) - PIC1_OFFSET) % 256 = l
  BY DEF IntInv, BootInv, Vector, Gates, Lines, Master

(* A frame that is pushed while nothing is half-way.                       *)
LEMMA Pushed ==
  ASSUME IntInv, iflag, pc = "up", NEW l \in Lines,
         Push(Frame(l, PIC1_OFFSET + l)), iflag' = FALSE,
         current' = current, pc' = pc, offset1' = offset1, offset2' = offset2
  PROVE  /\ stack' \in [Tasks -> Seq(Frames)]
         /\ BootInv' /\ DriversRunThrough' /\ RightDriver'
         /\ InHandler' /\ Top'.step = "eoi" /\ Top'.line = l
  <1> DEFINE f == [line |-> l, irq |-> l, step |-> "eoi"]
  <1>1. Frame(l, PIC1_OFFSET + l) = f
    BY DEF Frame, Order, Lines
  <1>2. f \in Frames
    BY DEF Frames, Steps
  <1>3. stack[current] \in Seq(Frames) /\ current \in Tasks
    BY DEF IntInv, TypeOK
  <1>4. stack' = [stack EXCEPT ![current] = Append(stack[current], f)]
    BY <1>1 DEF Push
  <1>5. /\ stack'[current] = Append(stack[current], f)
        /\ \A t \in Tasks \ {current} : stack'[t] = stack[t]
        /\ stack' \in [Tasks -> Seq(Frames)]
    BY <1>2, <1>3, <1>4 DEF IntInv, TypeOK
  <1>6. /\ Len(stack'[current]) = Len(stack[current]) + 1
        /\ DOMAIN stack'[current] = DOMAIN stack[current] \cup {Len(stack[current]) + 1}
        /\ \A k \in DOMAIN stack[current] : stack'[current][k] = stack[current][k]
        /\ stack'[current][Len(stack[current]) + 1] = f
    <2> DEFINE s == stack[current]
    <2>1. s \in Seq(Frames) /\ stack'[current] = Append(s, f)
      BY <1>3, <1>5
    <2> HIDE DEF s, f
    <2>2. /\ Len(Append(s, f)) = Len(s) + 1
          /\ DOMAIN Append(s, f) = DOMAIN s \cup {Len(s) + 1}
          /\ \A k \in DOMAIN s : Append(s, f)[k] = s[k]
          /\ Append(s, f)[Len(s) + 1] = f
      BY <1>2, <2>1
    <2> QED BY <2>1, <2>2 DEF s
  <1>7. \A t \in Tasks : \A k \in DOMAIN stack[t] :
            stack[t][k].step = "return" /\ stack[t][k].irq = stack[t][k].line
    BY DEF IntInv, DriversRunThrough, RightDriver
  <1>8. BootInv'
    BY DEF IntInv, BootInv
  <1>9. ASSUME NEW t \in Tasks, NEW k \in DOMAIN stack'[t]
        PROVE  /\ stack'[t][k].irq = stack'[t][k].line
               /\ \/ stack'[t][k].step = "return"
                  \/ t = current' /\ k = Len(stack'[t]) /\ ~ iflag'
    <2>1. CASE t # current
      BY <1>5, <1>7, <2>1
    <2>2. CASE t = current /\ k \in DOMAIN stack[current]
      BY <1>3, <1>6, <1>7, <2>2
    <2>3. CASE t = current /\ k = Len(stack[current]) + 1
      BY <1>6, <2>3
    <2> QED BY <1>6, <2>1, <2>2, <2>3
  <1>10. DriversRunThrough' /\ RightDriver'
    BY <1>9 DEF DriversRunThrough, RightDriver
  <1>11. InHandler' /\ Top' = f
    BY <1>3, <1>5, <1>6 DEF InHandler, Top
  <1> QED BY <1>5, <1>8, <1>10, <1>11

(* A handler goes on by one step, with nothing in service after it.        *)
LEMMA HandlerGoesOn ==
  ASSUME IntInv, pc = "up", InHandler, Top.step \in {"eoi", "driver"},
         stack' = Advanced, current' \in Tasks, Top.step = "eoi" => current' = current,
         isr' = {}, iflag' = iflag, pc' = pc, offset1' = offset1, offset2' = offset2
  PROVE  /\ stack' \in [Tasks -> Seq(Frames)]
         /\ BootInv' /\ DriversRunThrough' /\ RightDriver' /\ NothingStuck'
  <1> DEFINE n == Len(stack[current])
  <1>1. TypeOK
    BY DEF IntInv
  <1>2. /\ stack' \in [Tasks -> Seq(Frames)]
        /\ \A t \in Tasks \ {current} : stack'[t] = stack[t]
        /\ DOMAIN stack'[current] = DOMAIN stack[current]
        /\ \A k \in DOMAIN stack[current] : k # n => stack'[current][k] = stack[current][k]
        /\ stack'[current][n] = [line |-> Top.line, irq |-> Top.irq, step |-> Order(Top.step)]
    BY <1>1, AdvancedIs
  <1>3. n \in DOMAIN stack[current] /\ Top = stack[current][n] /\ current \in Tasks
    BY <1>1, TopFrame DEF TypeOK
  <1>4. ~ iflag
    BY <1>3 DEF IntInv, DriversRunThrough
  <1>5. DriversRunThrough'
    <2>1. SUFFICES ASSUME NEW t \in Tasks, NEW k \in DOMAIN stack'[t]
                   PROVE  \/ stack'[t][k].step = "return"
                          \/ t = current' /\ k = Len(stack'[t]) /\ ~ iflag'
      BY DEF DriversRunThrough
    <2>2. CASE t # current
      BY <1>2, <2>2 DEF IntInv, DriversRunThrough
    <2>3. CASE t = current /\ k # n
      BY <1>2, <2>3 DEF IntInv, DriversRunThrough
    <2>4. CASE t = current /\ k = n /\ Top.step = "driver"
      BY <1>2, <2>4 DEF Order
    <2>5. CASE t = current /\ k = n /\ Top.step = "eoi"
      <3>1. Len(stack'[t]) = n
        BY <1>1, <1>2, <2>5 DEF TypeOK
      <3> QED BY <1>4, <2>5, <3>1
    <2> QED BY <2>2, <2>3, <2>4, <2>5
  <1>6. RightDriver'
    <2>1. \A t \in Tasks : \A k \in DOMAIN stack[t] : stack[t][k].irq = stack[t][k].line
      BY DEF IntInv, RightDriver
    <2>2. Top.irq = Top.line
      BY <1>3, <2>1
    <2>3. \A t \in Tasks : \A k \in DOMAIN stack'[t] : stack'[t][k].irq = stack'[t][k].line
      <3>1. TAKE t \in Tasks
      <3>4. TAKE k \in DOMAIN stack'[t]
      <3>2. CASE t = current /\ k = n
        BY <1>2, <2>2, <3>2
      <3>3. CASE t # current \/ k # n
        BY <1>2, <2>1, <3>3
      <3> QED BY <3>2, <3>3
    <2> QED BY <2>3 DEF IntInv, RightDriver
  <1>7. BootInv'
    BY DEF IntInv, BootInv
  <1> QED BY <1>2, <1>5, <1>6, <1>7 DEF NothingStuck

(* A non-specific EOI to each PIC that has a line in service ends them all.*)
LEMMA EoiEnds ==
  ASSUME IntInv, SendEoi
  PROVE  isr' = {}
  <1>1. /\ isr' = isr \ (Ended(Master) \cup IF Top.irq >= Width THEN Ended(Slave) ELSE {})
        /\ Top.irq = Top.line /\ Top.line \in Lines
    <2>1. InHandler /\ TypeOK /\ RightDriver /\ current \in Tasks
      BY DEF IntInv, SendEoi, At, TypeOK
    <2>2. Top.irq = Top.line
      BY <2>1, TopFrame DEF RightDriver
    <2> QED BY <2>1, <2>2, TopFrame DEF SendEoi, Frames
  <1>2. CASE isr = {}
    BY <1>1, <1>2
  <1>3. CASE isr = InService(Top.line) /\ Top.line \in Master
    <2>1. isr = {Top.line} /\ isr \cap Master = {Top.line} /\ Top.line \in Int
      BY <1>3 DEF InService, OnMaster, Master
    <2>2. Ended(Master) = {Top.line}
      BY <2>1 DEF Ended
    <2> QED BY <1>1, <2>1, <2>2
  <1>4. CASE isr = InService(Top.line) /\ Top.line \notin Master
    <2>1. /\ isr = {Top.line, Cascade} /\ Top.line \in Slave /\ Top.line >= Width
          /\ isr \cap Master = {Cascade} /\ isr \cap Slave = {Top.line}
          /\ Top.line \in Int /\ Cascade \in Int
      BY <1>1, <1>4, SlaveLines DEF InService, OnMaster, Master, Slave, Lines, Cascade
    <2>2. Ended(Master) = {Cascade} /\ Ended(Slave) = {Top.line}
      BY <2>1 DEF Ended
    <2> QED BY <1>1, <2>1, <2>2
  <1> QED BY <1>2, <1>3, <1>4 DEF IntInv, NothingStuck

(* The way back: the frames that are left had their handlers called.       *)
LEMMA Popped ==
  ASSUME IntInv, Return
  PROVE  IntInv'
  <1> DEFINE n == Len(stack[current])
  <1>1. /\ pc = "up" /\ InHandler /\ TypeOK /\ Top.step = "return"
        /\ n \in DOMAIN stack[current] /\ Top = stack[current][n]
        /\ stack[current] \in Seq(Frames) /\ n \in Nat \ {0} /\ current \in Tasks
    BY TopFrame DEF IntInv, Return, At, TypeOK
  <1>2. stack' = [stack EXCEPT ![current] = SubSeq(stack[current], 1, n - 1)]
    BY DEF Return
  <1>3. /\ SubSeq(stack[current], 1, n - 1) \in Seq(Frames)
        /\ DOMAIN SubSeq(stack[current], 1, n - 1) = 1 .. n - 1
        /\ \A k \in 1 .. n - 1 :
              /\ k \in DOMAIN stack[current] /\ k # n
              /\ SubSeq(stack[current], 1, n - 1)[k] = stack[current][k]
    <2> DEFINE s == stack[current]
    <2>1. s \in Seq(Frames) /\ n - 1 \in 0 .. Len(s)
      BY <1>1
    <2> HIDE DEF s, n
    <2>2. \A k \in 1 .. n - 1 : k \in 1 .. Len(s) /\ s[k] \in Frames
      BY <2>1
    <2> QED BY <1>1, <2>1, <2>2 DEF s, n
  <1>4. /\ stack' \in [Tasks -> Seq(Frames)]
        /\ stack'[current] = SubSeq(stack[current], 1, n - 1)
        /\ \A t \in Tasks \ {current} : stack'[t] = stack[t]
    BY <1>1, <1>2, <1>3 DEF TypeOK
  <1>5. \A t \in Tasks : \A k \in DOMAIN stack'[t] :
           /\ stack'[t][k].irq = stack'[t][k].line
           /\ stack'[t][k].step = "return"
    <2>1. TAKE t \in Tasks
    <2>2. TAKE k \in DOMAIN stack'[t]
    <2>3. CASE t = current
      <3>1. k \in DOMAIN stack[current] /\ k # n /\ stack'[t][k] = stack[current][k]
        BY <1>3, <1>4, <2>3
      <3> QED BY <1>1, <2>3, <3>1 DEF IntInv, DriversRunThrough, RightDriver
    <2>4. CASE t # current
      BY <1>4, <2>4 DEF IntInv, DriversRunThrough, RightDriver
    <2> QED BY <2>3, <2>4
  <1>6. isr = {}
    BY <1>1 DEF IntInv, NothingStuck
  <1>7. /\ isr' = isr /\ irr' = irr /\ imr' = imr /\ offset1' = offset1 /\ offset2' = offset2
        /\ drivers' = drivers /\ irq_handlers' = irq_handlers /\ current' = current
        /\ fresh' = fresh /\ pc' = pc /\ iflag' = TRUE
    BY DEF Return, picVars
  <1>8. TypeOK'
    BY <1>4, <1>7 DEF IntInv, TypeOK
  <1>9. BootInv'
    BY <1>1, <1>7 DEF IntInv, BootInv
  <1>10. DriversRunThrough' /\ RightDriver'
    BY <1>1, <1>5, <1>7 DEF DriversRunThrough, RightDriver
  <1>11. NothingStuck'
    BY <1>6, <1>7 DEF NothingStuck
  <1> QED BY <1>8, <1>9, <1>10, <1>11 DEF IntInv

(* Steps that touch no stack: a device's signal, the boot, sti and yield.  *)
LEMMA StacksKept ==
  ASSUME IntInv, stack' = stack, TypeOK', BootInv', pc' # "exception",
         current' = current \/ ~ InHandler,
         iflag' = iflag \/ ~ InHandler,
         isr' = {} \/ (isr' = isr /\ pc' = pc /\ current' = current)
  PROVE  IntInv'
  <1>0. TypeOK /\ current \in Tasks
    BY DEF IntInv, TypeOK
  <1>1. CASE InHandler
    <2>1. current' = current /\ iflag' = iflag
      BY <1>1
    <2>2. DriversRunThrough' /\ RightDriver'
      BY <2>1 DEF IntInv, DriversRunThrough, RightDriver
    <2>3. NothingStuck'
      BY <1>1, <2>1 DEF IntInv, NothingStuck, InHandler, Top
    <2> QED BY <2>2, <2>3 DEF IntInv
  <1>2. CASE ~ InHandler
    <2>1. \A t \in Tasks : \A k \in DOMAIN stack[t] : stack[t][k].step = "return"
      <3>1. stack[current] = <<>>
        BY <1>2 DEF InHandler
      <3>2. DOMAIN stack[current] = {}
        BY <3>1
      <3> QED BY <3>2 DEF IntInv, DriversRunThrough
    <2>2. DriversRunThrough' /\ RightDriver'
      BY <2>1 DEF IntInv, DriversRunThrough, RightDriver
    <2>3. NothingStuck'
      BY <1>2 DEF IntInv, NothingStuck
    <2> QED BY <2>2, <2>3 DEF IntInv
  <1> QED BY <1>1, <1>2

(* The inductive invariant of boot, dispatcher and tasks, one step per     *)
(* action.                                                                 *)
THEOREM IntInvHolds == Spec => []IntInv
  <1>1. Init => IntInv
    <2> SUFFICES ASSUME Init  PROVE IntInv
      OBVIOUS
    <2>1. stack = [t \in Tasks |-> <<>>] /\ <<>> \in Seq(Frames) /\ DOMAIN <<>> = {}
      BY DEF Init
    <2>2. stack \in [Tasks -> Seq(Frames)]
      BY <2>1
    <2>3. TypeOK
      <3>1. irr \subseteq Lines /\ imr \subseteq Lines /\ isr \subseteq Lines
        BY SlaveLines DEF Init
      <3> QED BY <2>2, <3>1 DEF Init, TypeOK
    <2>4. BootInv /\ NothingStuck
      BY DEF Init, BootInv, NothingStuck
    <2>5. DriversRunThrough /\ RightDriver
      BY <2>1 DEF Init, DriversRunThrough, RightDriver
    <2> QED BY <2>3, <2>4, <2>5 DEF IntInv
  <1>2. ASSUME IntInv, [Next]_vars  PROVE IntInv'
    <2> USE <1>2
    <2>0. TypeOK /\ current \in Tasks
      BY DEF IntInv, TypeOK
    <2>1. ASSUME NEW l \in Devices, Raise(l)  PROVE IntInv'
      <3>1. TypeOK' /\ BootInv'
        BY <2>0, <2>1 DEF Raise, cpuVars, TypeOK, IntInv, BootInv
      <3> QED BY <2>1, <3>1, StacksKept DEF Raise, cpuVars
    <2>2. CASE pic_remap
      <3>1. TypeOK' /\ BootInv'
        BY <2>0, <2>2 DEF pic_remap, cpuVars, TypeOK, IntInv, BootInv
      <3> QED BY <2>2, <3>1, StacksKept DEF pic_remap, cpuVars
    <2>3. CASE irq_init
      <3>1. TypeOK' /\ BootInv'
        BY <2>0, <2>3 DEF irq_init, cpuVars, TypeOK, IntInv, BootInv
      <3> QED BY <2>3, <3>1, StacksKept DEF irq_init, cpuVars, IntInv, BootInv
    <2>4. ASSUME NEW l \in Lines, irq_register_handler(l)  PROVE IntInv'
      <3>1. TypeOK' /\ BootInv'
        BY <2>0, <2>4 DEF irq_register_handler, irq_enable, cpuVars, TypeOK, IntInv, BootInv
      <3> QED BY <2>4, <3>1, StacksKept DEF irq_register_handler, cpuVars
    <2>5. CASE BootDone
      <3>1. TypeOK' /\ BootInv' /\ ~ InHandler /\ isr' = {}
        BY <2>0, <2>5 DEF BootDone, picVars, TypeOK, IntInv, BootInv, InHandler
      <3> QED BY <2>5, <3>1, StacksKept DEF BootDone
    <2>6. ASSUME NEW l \in Lines, Interrupt(l)  PROVE IntInv'
      <3>1. /\ pc = "up" /\ iflag /\ iflag' = FALSE
            /\ irr' = irr \ {l} /\ isr' = isr \cup InService(l)
            /\ imr' = imr /\ offset1' = offset1 /\ offset2' = offset2 /\ drivers' = drivers
            /\ irq_handlers' = irq_handlers /\ current' = current /\ fresh' = fresh
        BY <2>6 DEF Interrupt, Gate
      <3>2. Vector(l) = PIC1_OFFSET + l /\ Vector(l) \in Gates
        BY <3>1, VectorOf DEF IntInv, BootInv, Vector, Lines, Master
      <3>3. Push(Frame(l, PIC1_OFFSET + l)) /\ pc' = pc
        BY <2>6, <3>2 DEF Interrupt
      <3>4. /\ stack' \in [Tasks -> Seq(Frames)]
            /\ BootInv' /\ DriversRunThrough' /\ RightDriver'
            /\ InHandler' /\ Top'.step = "eoi" /\ Top'.line = l
        BY <3>1, <3>3, Pushed
      <3>5. isr' = InService(l) /\ isr' \subseteq Lines
        BY <3>1, IdlePics, SlaveLines DEF InService, OnMaster
      <3>6. TypeOK'
        BY <2>0, <3>1, <3>3, <3>4, <3>5 DEF TypeOK
      <3>7. NothingStuck'
        BY <3>1, <3>3, <3>4, <3>5 DEF NothingStuck, InService
      <3> QED BY <3>4, <3>6, <3>7 DEF IntInv
    <2>7. CASE Spurious
      <3>1. /\ pc = "up" /\ iflag /\ iflag' = FALSE /\ pc' = pc
            /\ irr' = irr /\ isr' = isr /\ imr' = imr /\ offset1' = offset1
            /\ offset2' = offset2 /\ drivers' = drivers
            /\ irq_handlers' = irq_handlers /\ current' = current /\ fresh' = fresh
        BY <2>7 DEF Spurious, Gate, picVars
      <3>2. Width - 1 \in Lines /\ offset1 = PIC1_OFFSET
        BY <3>1 DEF IntInv, BootInv, Lines, Cascade
      <3>3. Push(Frame(Width - 1, PIC1_OFFSET + (Width - 1)))
        <4>1. PIC1_OFFSET + (Width - 1) = offset1 + Width - 1
          BY <3>2
        <4> QED BY <2>7, <4>1 DEF Spurious
      <3>4. /\ stack' \in [Tasks -> Seq(Frames)]
            /\ BootInv' /\ DriversRunThrough' /\ RightDriver'
        BY <3>1, <3>2, <3>3, Pushed
      <3>5. TypeOK'
        BY <2>0, <3>1, <3>4 DEF TypeOK
      <3>6. NothingStuck'
        BY <3>1, IdlePics DEF NothingStuck
      <3> QED BY <3>4, <3>5, <3>6 DEF IntInv
    <2>8. CASE SendEoi
      <3>1. /\ pc = "up" /\ InHandler /\ Top.step = "eoi" /\ stack' = Advanced
            /\ irr' = irr /\ imr' = imr /\ offset1' = offset1 /\ offset2' = offset2
            /\ drivers' = drivers /\ irq_handlers' = irq_handlers /\ iflag' = iflag
            /\ current' = current /\ fresh' = fresh /\ pc' = pc
        BY <2>8 DEF SendEoi, At
      <3>2. isr' = {}
        BY <2>8, EoiEnds
      <3>3. /\ stack' \in [Tasks -> Seq(Frames)]
            /\ BootInv' /\ DriversRunThrough' /\ RightDriver' /\ NothingStuck'
        BY <2>0, <3>1, <3>2, HandlerGoesOn
      <3>4. TypeOK'
        BY <2>0, <3>1, <3>2, <3>3 DEF TypeOK
      <3> QED BY <3>3, <3>4 DEF IntInv
    <2>9. ASSUME NEW t \in Tasks, DriverReturns \/ TimerSwitches(t)  PROVE IntInv'
      <3>1. /\ pc = "up" /\ InHandler /\ Top.step = "driver" /\ stack' = Advanced
            /\ irr' = irr /\ imr' = imr /\ isr' = isr /\ offset1' = offset1
            /\ offset2' = offset2 /\ drivers' = drivers /\ irq_handlers' = irq_handlers
            /\ iflag' = iflag /\ current' \in Tasks /\ fresh' = fresh /\ pc' = pc
        BY <2>0, <2>9 DEF DriverReturns, TimerSwitches, At, picVars
      <3>2. isr' = {}
        BY <3>1 DEF IntInv, NothingStuck
      <3>3. /\ stack' \in [Tasks -> Seq(Frames)]
            /\ BootInv' /\ DriversRunThrough' /\ RightDriver' /\ NothingStuck'
        BY <3>1, <3>2, HandlerGoesOn
      <3>4. TypeOK'
        BY <2>0, <3>1, <3>3 DEF TypeOK
      <3> QED BY <3>3, <3>4 DEF IntInv
    <2>10. CASE Return
      BY <2>10, Popped
    <2>11. CASE Sti
      <3>1. TypeOK' /\ BootInv'
        BY <2>0, <2>11 DEF Sti, picVars, TypeOK, IntInv, BootInv
      <3> QED BY <2>11, <3>1, StacksKept DEF Sti, picVars
    <2>12. CASE Yield
      <3>1. isr' = {}
        BY <2>12 DEF Yield, picVars, IntInv, NothingStuck
      <3>2. TypeOK' /\ BootInv'
        BY <2>0, <2>12 DEF Yield, picVars, TypeOK, IntInv, BootInv
      <3> QED BY <2>12, <3>1, <3>2, StacksKept DEF Yield
    <2>13. CASE UNCHANGED vars
      <3>1. TypeOK' /\ BootInv'
        BY <2>0, <2>13 DEF vars, picVars, cpuVars, TypeOK, IntInv, BootInv
      <3> QED BY <2>13, <3>1, StacksKept DEF vars, picVars, cpuVars, IntInv, RightDriver
    <2> QED BY <2>0, <2>1, <2>2, <2>3, <2>4, <2>5, <2>6, <2>7, <2>8, <2>9, <2>10, <2>11,
               <2>12, <2>13 DEF Next, Boot, Handler
  <1> QED BY <1>1, <1>2, PTL DEF Spec

(* Each variable stays in its range, the line that irq_handler uses as an  *)
(* index of its table included.                                            *)
THEOREM InterruptTypes == Spec => []TypeOK
  BY IntInvHolds, PTL DEF IntInv

(* After the EOI the PICs are free: the next tick and the next key get     *)
(* through, whichever task the timer's driver goes to.                     *)
THEOREM PicsAreFree == Spec => []NothingStuck
  BY IntInvHolds, PTL DEF IntInv

(* irq_handler runs from its EOI to the end of its driver undisturbed.     *)
THEOREM DriversUndisturbed == Spec => []DriversRunThrough
  BY IntInvHolds, PTL DEF IntInv

(* A signal calls the handler of its own line and is never an exception.   *)
THEOREM LinesAreRight == Spec => []RightDriver
  BY IntInvHolds, PTL DEF IntInv
=============================================================================
