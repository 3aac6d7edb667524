------------------------------ MODULE Input ------------------------------
(***************************************************************************)
(* A key travels from the interrupt to the shell: the scheduler composed   *)
(* with the keyboard's queue.  In framebuffer mode the shell shares the    *)
(* CPU with kernel_main's idle loop and with sysinfo, which yields.        *)
(*                                                                         *)
(* The ring of kernel/keyboard.c is the bounded queue that module Keyboard *)
(* shows it to be.  What Keyboard assumes of its reader - that it is given *)
(* the CPU again and again - is established here from the scheduler.       *)
(***************************************************************************)
EXTENDS Scheduler, Sequences

CONSTANTS
    Reader,         \* the slot whose task calls keyboard_getchar: the shell
    Item,           \* characters
    Capacity,       \* BUFFER_SIZE - 1
    NoItem

ASSUME ReaderAssumption == Sleepers = {Reader}
ASSUME ItemAssumption == NoItem \notin Item
ASSUME CapacityAssumption == Capacity \in Nat \ {0}

VARIABLES
    queue,          \* the characters between buf_read and buf_write
    taken,          \* what keyboard_getchar returned, while the shell uses it
    getc            \* where the reader is in keyboard_getchar

keyVars   == <<queue, taken, getc>>
inputVars == <<vars, queue, taken, getc>>

Ring == INSTANCE BoundedFifo

InputInit == Init /\ Ring!FifoInit /\ getc = "busy"

----------------------------------------------------------------------------
(* IRQ1 is taken on whatever stack the CPU is on, and ends a hlt there.    *)
(* It stores a character, or drops it when the ring is full, or stores     *)
(* nothing because the key has no character.                               *)
KeyIrq ==
    /\ iflag /\ cpu \in Slots
    /\ Ring!Put \/ UNCHANGED <<queue, taken>>
    /\ pc' = Wake(cpu)
    /\ UNCHANGED <<tableVars, schedule_ticks, iflag, cpu, localVars, createVars,
                   getc>>

(* The steps of keyboard_getchar, on the shell's stack.                    *)
ReaderRuns == At(Reader, "run")

Call ==
    /\ ReaderRuns /\ getc = "busy"
    /\ getc' = "test"
    /\ Ring!Forget
    /\ UNCHANGED vars

Test ==
    /\ ReaderRuns /\ getc = "test"
    /\ getc' = IF queue # <<>> THEN "read" ELSE "halt"
    /\ UNCHANGED <<vars, queue, taken>>

\* Mutant of Sleep: the loop does not test the buffer after the hlt.
SleepWithoutRetest ==
    /\ ReaderRuns /\ getc = "halt"
    /\ Halt
    /\ UNCHANGED keyVars
(* Whoever wakes the hlt - the key, or the next tick - the test follows.   *)
Sleep ==
    /\ ReaderRuns /\ getc = "halt"
    /\ Halt
    /\ getc' = "test"
    /\ UNCHANGED <<queue, taken>>

Read ==
    /\ ReaderRuns /\ getc = "read"
    /\ Ring!Take
    /\ getc' = "busy"
    /\ UNCHANGED vars

ReaderStep == Call \/ Test \/ Sleep \/ Read

(* All other code that is not an interrupt handler.                        *)
OtherStep ==
    /\ Create \/ Start \/ (Halt /\ cpu # Reader) \/ Yield \/ Exit \/ YieldStep
    /\ UNCHANGED keyVars

TimerStep == TimerIrq /\ UNCHANGED keyVars

InputNext == TimerStep \/ KeyIrq \/ ReaderStep \/ OtherStep

(* The fairness of Scheduler.FairSpec and nothing else: the PIT keeps      *)
(* firing and a task that gets the CPU gets on.  The user may stop typing, *)
(* so a key's interrupt never needs to come.                               *)
InputSpec ==
    /\ InputInit /\ [][InputNext]_inputVars
    /\ WF_inputVars(TimerStep)
    /\ \A s \in Slots : SF_inputVars(cpu = s /\ (ReaderStep \/ OtherStep))

----------------------------------------------------------------------------
(* A character that was accepted is returned to the shell, although the    *)
(* key may come between the reader's test and its hlt, while another task  *)
(* runs, or in the middle of that task's switch; in every run in which the *)
(* switch window loses no context.                                         *)
KeysAreRead ==
    []ContextsIntact => (queue # <<>> ~> taken # NoItem)
=============================================================================
