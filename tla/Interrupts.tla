----------------------------- MODULE Interrupts -----------------------------
(***************************************************************************)
(* How a device's signal becomes a call of its driver: the two interrupt   *)
(* controllers (PIC), their set-up and the dispatcher of kernel/irq.c, the *)
(* gates of kernel/idt.c and the stubs of boot/idt.asm, on a CPU that      *)
(* several tasks share.                                                    *)
(*                                                                         *)
(* A task's stack is abstracted to the interrupt frames on it.  Handlers   *)
(* are cut into their three parts (EOI, driver, return), for a driver may  *)
(* switch tasks in the middle: the timer's does.                           *)
(***************************************************************************)
EXTENDS Integers, Sequences

CONSTANTS
    Width,          \* lines per PIC, 8
    PIC1_OFFSET,    \* vectors of the master's lines; those below belong to
                    \* CPU exceptions
    PIC2_OFFSET,
    Bios1, Bios2,   \* the offsets that the firmware left behind
    Drivers,        \* the sets of lines for which the boot registers handlers
    Devices,        \* lines with a device that signals
    Tasks, First,   \* First is kernel_main
    Yielders,       \* tasks that call task_yield
    MaxNest         \* bound: interrupt frames on one stack

Lines   == 0 .. 2 * Width - 1
Timer   == 0        \* IRQ0
Cascade == 2        \* the master's line to which the slave is wired
Master  == 0 .. Width - 1
Slave   == Width .. 2 * Width - 1
Gates   == PIC1_OFFSET .. PIC1_OFFSET + 2 * Width - 1

ASSUME WidthAssumption == Width \in Nat /\ Width > Cascade
ASSUME OffsetsAssumption ==
    /\ PIC1_OFFSET \in Nat /\ PIC2_OFFSET = PIC1_OFFSET + Width
    /\ PIC2_OFFSET + Width <= 256    \* the size of the IDT
    /\ Bios1 \in Nat /\ Bios2 \in Nat
ASSUME LinesAssumption ==
    Drivers \subseteq SUBSET Lines /\ Devices \subseteq Lines \ {Cascade}
ASSUME TasksAssumption ==
    First \in Tasks /\ Yielders \subseteq Tasks \ {First} /\ MaxNest \in Nat \ {0}

Steps  == {"eoi", "driver", "return"}
Frames == [line : Lines, irq : Lines, step : Steps]

VARIABLES
    irr, imr, isr,  \* both PICs: lines requested, masked, in service
    offset1, offset2,       \* the vectors the PICs are programmed to
    drivers,        \* which drivers this kernel has
    irq_handlers,   \* the lines with a handler
    iflag, current, \* the CPU: IF, and the task whose stack it is on
    stack,          \* per task: its interrupt frames, the newest last
    fresh,          \* tasks that have not executed their sti
    pc              \* kernel_main's way to the end of the boot

picVars == <<irr, imr, isr, offset1, offset2>>
cpuVars == <<iflag, current, stack, fresh>>
vars    == <<picVars, drivers, irq_handlers, cpuVars, pc>>

Init ==
    /\ irr = {} /\ isr = {}
    /\ imr \in {{}, Slave}      \* what the firmware left behind
    /\ offset1 = Bios1 /\ offset2 = Bios2
    /\ drivers \in Drivers
    /\ irq_handlers = {}
    /\ iflag = FALSE /\ current = First
    /\ stack = [t \in Tasks |-> <<>>]
    /\ fresh = Tasks \ {First}
    /\ pc = "remap"

----------------------------------------------------------------------------
(* The PICs.  Of the requests that are not masked the most urgent is       *)
(* offered to the CPU, unless something as urgent is in service; the slave *)
(* takes part as one line of the master.                                   *)

OnMaster(l) == IF l \in Master THEN l ELSE Cascade
MoreUrgent(k, l) ==
    OnMaster(k) < OnMaster(l) \/ (OnMaster(k) = OnMaster(l) /\ k < l)

Offered(l) ==
    /\ l \in irr \ imr /\ OnMaster(l) \notin imr
    /\ \A k \in isr : IF k \in Master THEN OnMaster(l) < k ELSE l < k

InService(l) == {l, OnMaster(l)}
Vector(l) == IF l \in Master THEN offset1 + l ELSE offset2 + l - Width

(* A non-specific EOI ends the most urgent line in service on that PIC.    *)
Ended(pic) == {l \in isr \cap pic : \A k \in isr \cap pic : l <= k}

InHandler == stack[current] # <<>>
Top == stack[current][Len(stack[current])]

(* A device signals, at any time.                                          *)
Raise(l) ==
    /\ pc # "exception"
    /\ irr' = irr \cup {l}
    /\ UNCHANGED <<imr, isr, offset1, offset2, drivers, irq_handlers, cpuVars, pc>>

----------------------------------------------------------------------------
(* The boot, with interrupts disabled.                                     *)

(* pic_remap: ICW1 resets the PICs; offsets are programmed and the old     *)
(* masks put back.  irq_init then masks every line.                        *)
\* Mutant of pic_remap: the offsets stay as they are.
OldOffsets ==
    /\ pc = "remap"
    /\ irr' = {} /\ isr' = {}
    /\ pc' = "mask"
    /\ UNCHANGED <<imr, offset1, offset2, drivers, irq_handlers, cpuVars>>
pic_remap ==
    /\ pc = "remap"
    /\ irr' = {} /\ isr' = {}
    /\ offset1' = PIC1_OFFSET /\ offset2' = PIC2_OFFSET
    /\ pc' = "mask"
    /\ UNCHANGED <<imr, drivers, irq_handlers, cpuVars>>

irq_init ==
    /\ pc = "mask"
    /\ imr' = Lines
    /\ pc' = "drivers"
    /\ UNCHANGED <<irr, isr, offset1, offset2, drivers, irq_handlers, cpuVars>>

\* Mutant of irq_enable: the bit is cleared in the master's mask always.
WrongPic(l) == imr' = imr \ {l % Width}

(* Mask bits of the PIC that has the line; nothing else is unmasked.       *)
irq_enable(l) == imr' = imr \ {l}

irq_register_handler(l) ==
    /\ pc = "drivers" /\ l \in drivers \ irq_handlers
    /\ irq_handlers' = irq_handlers \cup {l}
    /\ irq_enable(l)
    /\ UNCHANGED <<irr, isr, offset1, offset2, drivers, cpuVars, pc>>

BootDone ==
    /\ pc = "drivers" /\ irq_handlers = drivers
    /\ pc' = "up"
    /\ iflag' = TRUE
    /\ UNCHANGED <<picVars, drivers, irq_handlers, current, stack, fresh>>

Boot == pic_remap \/ irq_init \/ (\E l \in Lines : irq_register_handler(l)) \/ BootDone

----------------------------------------------------------------------------
(* irq_handler sends EOI, then calls the driver; the stub returns.         *)

\* Mutant of Order: EOI after the driver.
EoiLast(step) == CASE step = "start" -> "driver" [] step = "driver" -> "eoi"
                   [] step = "eoi" -> "return"
Order(step) == CASE step = "start" -> "eoi" [] step = "eoi" -> "driver"
                 [] step = "driver" -> "return"

(* The CPU takes an interrupt: the gate clears IF and the stub builds a    *)
(* frame on the current stack.  A vector below the gates of the IRQs is    *)
(* taken for an exception, and isr_handler halts.                          *)

Push(f) == stack' = [stack EXCEPT ![current] = Append(@, f)]

Frame(l, vector) == [line |-> l, irq |-> (vector - PIC1_OFFSET) % 256,
                     step |-> Order("start")]

\* Mutant of Gate: a trap gate (0x8F) leaves IF alone.
TrapGate == UNCHANGED iflag
Gate == iflag' = FALSE

Interrupt(l) ==
    /\ pc = "up" /\ iflag /\ Len(stack[current]) < MaxNest
    /\ Offered(l) /\ \A k \in Lines : Offered(k) => ~ MoreUrgent(k, l)
    /\ irr' = irr \ {l} /\ isr' = isr \cup InService(l)
    /\ Gate
    /\ IF Vector(l) \in Gates THEN Push(Frame(l, Vector(l))) /\ UNCHANGED pc
                              ELSE pc' = "exception" /\ UNCHANGED stack
    /\ UNCHANGED <<imr, offset1, offset2, drivers, irq_handlers, current, fresh>>

(* A request that is withdrawn before the CPU answers: the master gives its*)
(* last line, and puts nothing in service.                                 *)
Spurious ==
    /\ pc = "up" /\ iflag /\ Len(stack[current]) < MaxNest
    /\ Gate
    /\ Push(Frame(Width - 1, offset1 + Width - 1))
    /\ UNCHANGED <<picVars, drivers, irq_handlers, current, fresh, pc>>

----------------------------------------------------------------------------
(* The three steps of a handler.                                           *)

Advanced == [stack EXCEPT ![current][Len(stack[current])].step = Order(@)]

At(step) == pc = "up" /\ InHandler /\ Top.step = step

SendEoi ==
    /\ At("eoi")
    /\ isr' = isr \ (Ended(Master) \cup IF Top.irq >= Width THEN Ended(Slave) ELSE {})
    /\ stack' = Advanced
    /\ UNCHANGED <<irr, imr, offset1, offset2, drivers, irq_handlers, iflag,
                   current, fresh, pc>>

(* The timer's driver may switch to any task (task_schedule).              *)
TimerSwitches(t) ==
    /\ At("driver") /\ Top.irq = Timer /\ Timer \in irq_handlers
    /\ current' = t
    /\ stack' = Advanced
    /\ UNCHANGED <<picVars, drivers, irq_handlers, iflag, fresh, pc>>

(* Another driver, a tick without a switch, or no driver at all.           *)
DriverReturns ==
    /\ At("driver")
    /\ stack' = Advanced
    /\ UNCHANGED <<picVars, drivers, irq_handlers, iflag, current, fresh, pc>>

(* iret takes IF from the frame: an interrupt was taken, so it was set.    *)
Return ==
    /\ At("return")
    /\ stack' = [stack EXCEPT ![current] = SubSeq(@, 1, Len(@) - 1)]
    /\ iflag' = TRUE
    /\ UNCHANGED <<picVars, drivers, irq_handlers, current, fresh, pc>>

----------------------------------------------------------------------------
(* Tasks: a new one executes sti, and some call task_yield, which carries  *)
(* IF over to the next task.                                               *)

\* Mutant of Sti: a task that starts with interrupts as they are.
NoSti ==
    /\ pc = "up" /\ current \in fresh /\ ~ InHandler
    /\ fresh' = fresh \ {current}
    /\ UNCHANGED <<picVars, drivers, irq_handlers, iflag, current, stack, pc>>

Sti ==
    /\ pc = "up" /\ current \in fresh /\ ~ InHandler
    /\ iflag' = TRUE /\ fresh' = fresh \ {current}
    /\ UNCHANGED <<picVars, drivers, irq_handlers, current, stack, pc>>

Yield ==
    /\ pc = "up" /\ current \in Yielders \ fresh /\ ~ InHandler
    /\ current' \in Tasks \ {current}
    /\ UNCHANGED <<picVars, drivers, irq_handlers, iflag, stack, fresh, pc>>

Handler == SendEoi \/ DriverReturns \/ (\E t \in Tasks : TimerSwitches(t)) \/ Return

Next ==
    \/ (\E l \in Devices : Raise(l))
    \/ Boot
    \/ (\E l \in Lines : Interrupt(l)) \/ Spurious
    \/ Handler \/ Sti \/ Yield

Spec == Init /\ [][Next]_vars

(* Code goes on, and the CPU looks for a request before every instruction: *)
(* one that it could take again and again is taken.                        *)
FairSpec ==
    /\ Spec
    /\ WF_vars(Boot) /\ WF_vars(Handler) /\ WF_vars(Sti) /\ WF_vars(Yield)
    /\ \A l \in Lines : SF_vars(Interrupt(l))

----------------------------------------------------------------------------
(* Properties.                                                             *)

(* Every variable stays in its range: irq indexes the table of handlers.   *)
TypeOK ==
    /\ irr \subseteq Lines /\ imr \subseteq Lines /\ isr \subseteq Lines
    /\ offset1 \in {Bios1, PIC1_OFFSET} /\ offset2 \in {Bios2, PIC2_OFFSET}
    /\ drivers \in Drivers /\ irq_handlers \subseteq drivers
    /\ iflag \in BOOLEAN /\ current \in Tasks
    /\ stack \in [Tasks -> Seq(Frames)]
    /\ fresh \subseteq Tasks
    /\ pc \in {"remap", "mask", "drivers", "up", "exception"}

(* A PIC holds back its lines only while the CPU is on its way to the EOI  *)
(* for the one it took: no task switch, no spurious interrupt and no       *)
(* missing driver leaves a line in service for good.                       *)
NothingStuck ==
    isr # {} => /\ pc = "up" /\ InHandler
                /\ Top.step = "eoi" /\ isr = InService(Top.line)

(* No driver is interrupted or switched away from half-way; only what is   *)
(* left after it, the way back through the stub, may be.                   *)
DriversRunThrough ==
    \A t \in Tasks : \A k \in DOMAIN stack[t] :
        \/ stack[t][k].step = "return"
        \/ t = current /\ k = Len(stack[t]) /\ ~ iflag

(* A device's signal reaches the handler of its own line, and is never     *)
(* mistaken for an exception of the CPU.                                   *)
RightDriver ==
    /\ pc # "exception"
    /\ \A t \in Tasks : \A k \in DOMAIN stack[t] : stack[t][k].irq = stack[t][k].line

(* Whoever runs, interrupts are enabled again and again, although neither  *)
(* task_yield nor context_switch cares for IF.                             *)
InterruptsReturn == []<>(pc = "up" => iflag)

(* "Registering also unmasks the IRQ so the PIC will forward it to the     *)
(* CPU": the signal of a line with a driver gets there, unless the more    *)
(* urgent lines take all of the CPU.  A line of the slave needs the cascade*)
(* line unmasked as well, which only a registration for IRQ2 does.         *)
Heard(l) == l \in irq_handlers /\ (l \in Slave => Cascade \in irq_handlers)
Calm(l) == iflag /\ \A k \in irr : ~ MoreUrgent(k, l)
Served ==
    \A l \in Devices :
        []<>Calm(l) => (l \in irr /\ Heard(l) ~> At("driver") /\ Top.line = l)
=============================================================================
