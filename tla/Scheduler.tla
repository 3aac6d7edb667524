----------------------------- MODULE Scheduler -----------------------------
(***************************************************************************)
(* The multitasking core of ZoloOS: the task table and round-robin policy  *)
(* of kernel/task.c, the stack switch of boot/switch.asm, the timer        *)
(* interrupt that drives preemption, and the CPU's interrupt flag.         *)
(*                                                                         *)
(* An interrupt handler runs with IF = 0 from the gate to its iret, so it  *)
(* is one action.  Code that runs with IF = 1 is cut between its accesses  *)
(* to state the handler shares: task_yield and task_create are sequences   *)
(* of steps, and the timer may fire between any two of them.  A loop that  *)
(* only reads the table, in search of a task or a slot, is one step.       *)
(*                                                                         *)
(* A saved stack pointer is abstracted to a context: the stack it points   *)
(* into and the kind of frame that lies there.                             *)
(***************************************************************************)
EXTENDS Integers

CONSTANTS
    MaxTasks,   \* MAX_TASKS
    Interval,   \* SCHEDULE_INTERVAL
    Launch,     \* how many times kernel_main calls task_create
    Sleepers,   \* slots whose task waits with hlt (the shell, for a key)
    Yielders,   \* slots whose task calls task_yield (sysinfo)
    Exiters     \* slots whose entry point returns (none in this kernel)

Slots == 0 .. MaxTasks - 1

ASSUME SizesAssumption ==
    MaxTasks \in Nat \ {0} /\ Interval \in Nat \ {0} /\ Launch \in Nat
ASSUME BehavioursAssumption ==
    /\ Sleepers \subseteq Slots \ {0}
    /\ Yielders \subseteq Slots \ {0}
    /\ Exiters  \subseteq Slots \ {0}
\* The shell's read loop never yields; sysinfo never waits with hlt.
ASSUME SleepersDoNotYield == Sleepers \cap Yielders = {}

Wild == MaxTasks    \* the CPU left every task's stack: it loaded a stack
                    \* pointer under which no context_switch frame lies

VARIABLES
    tstate,         \* tasks[].state
    esp,            \* tasks[].esp
    current_task,
    task_count,
    schedule_ticks,
    iflag,          \* IF, the interrupt flag of the only CPU
    cpu,            \* the stack ESP points into
    pc,             \* per stack: where its code is, or will resume
    next, prev,     \* per stack: the locals of task_yield and switch_to
    arg,            \* per stack: new_esp, pushed for context_switch
    ret,            \* per stack: what its task_yield returns to
    launched, slot  \* kernel_main: calls made; task_create's local

tableVars  == <<tstate, esp, current_task, task_count>>
localVars  == <<next, prev, arg, ret>>
createVars == <<launched, slot>>
vars == <<tstate, esp, current_task, task_count, schedule_ticks, iflag, cpu, pc,
          next, prev, arg, ret, launched, slot>>

Kinds    == {"null", "stale", "entry", "yield", "irq"}
Contexts == [stk : Slots, kind : Kinds]
Ctx(s, k) == [stk |-> s, kind |-> k]
Resumable == {"entry", "yield", "irq"}

YieldSteps == {"pick", "compare", "mark", "set", "current", "call", "save",
               "load"}
PCs == {"none", "start", "run", "hlt", "net",
        "create", "clear", "frame", "publish"} \cup YieldSteps

Runnable(s) == tstate[s] \in {"READY", "RUNNING"}

----------------------------------------------------------------------------
(* task_init, up to the sti of kernel_main.  The memset leaves TASK_READY  *)
(* (zero) in every slot that was never used.                               *)

Init ==
    /\ tstate = [s \in Slots |-> IF s = 0 THEN "RUNNING" ELSE "READY"]
    /\ esp = [s \in Slots |-> Ctx(s, "null")]
    /\ current_task = 0
    /\ task_count = 1
    /\ schedule_ticks = 0
    /\ iflag = TRUE
    /\ cpu = 0
    /\ pc = [s \in Slots |-> IF s = 0 THEN "create" ELSE "none"]
    /\ next = [s \in Slots |-> 0]
    /\ prev = [s \in Slots |-> 0]
    /\ arg = [s \in Slots |-> Ctx(s, "null")]
    /\ ret = [s \in Slots |-> "run"]
    /\ launched = 0
    /\ slot = 0

----------------------------------------------------------------------------
(* find_next_task: the first runnable slot after the current one, in       *)
(* cyclic order; the current one when no slot is runnable.                 *)

Succ(i) == (current_task + i) % task_count

(* Mutants of IsNext: a scan that starts at slot 0, and one that walks     *)
(* backwards.                                                              *)
IsNextFromZero(n) ==
    /\ n \in 0 .. task_count - 1
    /\ Runnable(n)
    /\ n # current_task \/ task_count = 1
    /\ \A m \in 0 .. n - 1 : m = current_task \/ ~ Runnable(m)
IsNextBackwards(n) ==
    n = (current_task + task_count - 1) % task_count

IsNext(n) ==
    \/ \E i \in 1 .. task_count :
          /\ n = Succ(i)
          /\ Runnable(n)
          /\ \A j \in 1 .. i - 1 : ~ Runnable(Succ(j))
    \/ /\ n = current_task
       /\ \A j \in 1 .. task_count : ~ Runnable(Succ(j))

(* switch_to marks the task it leaves only if that task was RUNNING: a     *)
(* DEAD one stays DEAD.                                                    *)
\* Mutants of MarkReady: the old task is left RUNNING; a dead one revives.
MarkNothing(st, p) == st
MarkAlways(st, p) == [st EXCEPT ![p] = "READY"]
MarkReady(st, p) ==
    IF st[p] = "RUNNING" THEN [st EXCEPT ![p] = "READY"] ELSE st

(* The frame a context names is gone once code runs above it: resuming c   *)
(* pops c, and everything deeper on that stack.  Only a yield frame below  *)
(* an interrupt frame survives.                                            *)
Popped(h, c) ==
    /\ h.stk = c.stk
    /\ h.kind \in Resumable
    /\ ~ (h.kind = "yield" /\ c.kind = "irq")
Expire(holders, c) ==
    [s \in Slots |-> IF Popped(holders[s], c)
                     THEN [holders[s] EXCEPT !.kind = "stale"]
                     ELSE holders[s]]

(* Mutant of Resume: the frame is resumed without restoring the flag.      *)
ResumeKeepingFlag(c, E, A, flag) ==
    /\ cpu' = IF c.kind \in Resumable THEN c.stk ELSE Wild
    /\ esp' = Expire(E, c)
    /\ arg' = Expire(A, c)
    /\ iflag' = flag
    /\ pc' = IF c.kind = "entry" THEN [pc EXCEPT ![c.stk] = "start"]
             ELSE IF c.kind = "yield" THEN [pc EXCEPT ![c.stk] = ret[c.stk]]
             ELSE [pc EXCEPT ![c.stk] = IF @ = "hlt" THEN "run" ELSE @]

(* The second half of context_switch: load new_esp, pop, ret.  An irq      *)
(* frame unwinds to the iret, which sets IF again; a yield frame returns   *)
(* from task_yield and an entry frame enters entry_point, both with the IF *)
(* that the code that switched to them had.                                *)
Resume(c, E, A, flag) ==
    IF c.kind \in Resumable
    THEN /\ cpu' = c.stk
         /\ esp' = Expire(E, c)
         /\ arg' = Expire(A, c)
         /\ iflag' = IF c.kind = "irq" THEN TRUE ELSE flag
         /\ pc'  = [pc EXCEPT ![c.stk] =
                       CASE c.kind = "irq"   -> IF @ = "hlt" THEN "run" ELSE @
                         [] c.kind = "yield" -> ret[c.stk]
                         [] c.kind = "entry" -> "start"]
    ELSE /\ cpu' = Wild
         /\ esp' = E
         /\ arg' = A
         /\ iflag' = flag
         /\ UNCHANGED pc

----------------------------------------------------------------------------
(* timer_callback calls task_schedule on the interrupted stack.            *)

Wake(s) == [pc EXCEPT ![s] = IF @ = "hlt" THEN "run" ELSE @]

(* The early return: the time slice is not over. *)
Tick ==
    /\ iflag /\ cpu \in Slots
    /\ schedule_ticks + 1 < Interval
    /\ schedule_ticks' = schedule_ticks + 1
    /\ pc' = Wake(cpu)
    /\ UNCHANGED <<tableVars, iflag, cpu, localVars, createVars>>

(* The slice is over and nobody else is runnable. *)
KeepRunning ==
    /\ iflag /\ cpu \in Slots
    /\ schedule_ticks + 1 >= Interval
    /\ IsNext(current_task)
    /\ schedule_ticks' = 0
    /\ pc' = Wake(cpu)
    /\ UNCHANGED <<tableVars, iflag, cpu, localVars, createVars>>

(* The slice is over: switch_to(n) from inside the handler, with IF = 0. *)
Preempt ==
    /\ iflag /\ cpu \in Slots
    /\ schedule_ticks + 1 >= Interval
    /\ \E n \in Slots \ {current_task} :
          /\ IsNext(n)
          /\ tstate' = [MarkReady(tstate, current_task) EXCEPT ![n] = "RUNNING"]
          /\ current_task' = n
          /\ Resume(esp[n],
                    [esp EXCEPT ![current_task] = Ctx(cpu, "irq")],
                    arg, FALSE)
    /\ schedule_ticks' = 0
    /\ UNCHANGED <<task_count, next, prev, ret, createVars>>

TimerIrq == Tick \/ KeepRunning \/ Preempt

(* Any other interrupt (the keyboard's) ends a hlt. *)
DeviceIrq ==
    /\ iflag /\ cpu \in Slots
    /\ pc[cpu] = "hlt"
    /\ pc' = Wake(cpu)
    /\ UNCHANGED <<tableVars, schedule_ticks, iflag, cpu, localVars, createVars>>

----------------------------------------------------------------------------
(* kernel_main: task_create, Launch times, then the idle loop.             *)

At(s, here) == cpu = s /\ pc[s] = here
Goto(s, there) == pc' = [pc EXCEPT ![s] = there]

DeadSlots == {s \in Slots \ {0} : tstate[s] = "DEAD"}

(* Mutant of CreateScan: no check for a full table.                        *)
CreateScanUnchecked ==
    /\ At(0, "create")
    /\ launched < Launch
    /\ launched' = launched + 1
    /\ slot' = task_count
    /\ Goto(0, "clear")
    /\ UNCHANGED <<tableVars, schedule_ticks, iflag, cpu, localVars>>

(* Slot search; the call fails with -1 when the table is full.             *)
CreateScan ==
    /\ At(0, "create")
    /\ launched < Launch
    /\ launched' = launched + 1
    /\ \/ \E s \in DeadSlots : /\ \A t \in DeadSlots : s <= t
                               /\ slot' = s
                               /\ Goto(0, "clear")
       \/ /\ DeadSlots = {} /\ task_count < MaxTasks
          /\ slot' = task_count
          /\ Goto(0, "clear")
       \/ /\ DeadSlots = {} /\ task_count >= MaxTasks
          /\ UNCHANGED <<slot, pc>>
    /\ UNCHANGED <<tableVars, schedule_ticks, iflag, cpu, localVars>>

(* memset of the slot, its stack included; state = TASK_READY.             *)
Wiped(holders) ==
    [s \in Slots |-> IF holders[s].stk = slot /\ holders[s].kind \in Resumable
                     THEN [holders[s] EXCEPT !.kind = "stale"]
                     ELSE holders[s]]
(* Mutant of CreateClear: the slot is counted before its frame is built.   *)
CreateClearAndPublish ==
    /\ At(0, "clear")
    /\ tstate' = [tstate EXCEPT ![slot] = "READY"]
    /\ esp' = [Wiped(esp) EXCEPT ![slot] = Ctx(slot, "null")]
    /\ arg' = [Wiped(arg) EXCEPT ![slot] = Ctx(slot, "null")]
    /\ pc' = [pc EXCEPT ![slot] = "none", ![0] = "frame"]
    /\ ret' = [ret EXCEPT ![slot] = "run"]
    /\ task_count' = IF slot >= task_count THEN slot + 1 ELSE task_count
    /\ UNCHANGED <<current_task, schedule_ticks, iflag, cpu, next, prev,
                   createVars>>

CreateClear ==
    /\ At(0, "clear")
    /\ tstate' = [tstate EXCEPT ![slot] = "READY"]
    /\ esp' = [Wiped(esp) EXCEPT ![slot] = Ctx(slot, "null")]
    /\ arg' = [Wiped(arg) EXCEPT ![slot] = Ctx(slot, "null")]
    /\ pc' = [pc EXCEPT ![slot] = "none", ![0] = "frame"]
    /\ ret' = [ret EXCEPT ![slot] = "run"]
    /\ UNCHANGED <<current_task, task_count, schedule_ticks, iflag, cpu,
                   next, prev, createVars>>

(* The fake frame: task_exit, entry_point, four zeroed registers.          *)
CreateFrame ==
    /\ At(0, "frame")
    /\ esp' = [esp EXCEPT ![slot] = Ctx(slot, "entry")]
    /\ Goto(0, "publish")
    /\ UNCHANGED <<tstate, current_task, task_count, schedule_ticks, iflag, cpu,
                   localVars, createVars>>

CreatePublish ==
    /\ At(0, "publish")
    /\ task_count' = IF slot >= task_count THEN slot + 1 ELSE task_count
    /\ Goto(0, "create")
    /\ UNCHANGED <<tstate, esp, current_task, schedule_ticks, iflag, cpu,
                   localVars, createVars>>

LaunchDone ==
    /\ At(0, "create")
    /\ launched = Launch
    /\ Goto(0, "run")
    /\ UNCHANGED <<tableVars, schedule_ticks, iflag, cpu, localVars, createVars>>

----------------------------------------------------------------------------
(* Task bodies.  Every entry point starts with sti.                        *)

Start ==
    \E s \in Slots :
      /\ At(s, "start")
      /\ iflag' = TRUE
      /\ Goto(s, "run")
      /\ UNCHANGED <<tableVars, schedule_ticks, cpu, localVars, createVars>>

(* hlt: the idle loop of kernel_main, and keyboard_getchar in the shell.   *)
Halt ==
    \E s \in Sleepers \cup {0} :
      /\ At(s, "run")
      /\ Goto(s, "hlt")
      /\ UNCHANGED <<tableVars, schedule_ticks, iflag, cpu, localVars, createVars>>

Yield ==
    \E s \in Yielders :
      /\ At(s, "run")
      /\ Goto(s, "pick")
      /\ UNCHANGED <<tableVars, schedule_ticks, iflag, cpu, localVars, createVars>>

(* entry_point returned into task_exit, whose task_yield, should it ever   *)
(* return, leads to the safety net.                                        *)
Exit ==
    \E s \in Exiters :
      /\ At(s, "run")
      /\ tstate' = [tstate EXCEPT ![current_task] = "DEAD"]
      /\ ret' = [ret EXCEPT ![s] = "net"]
      /\ Goto(s, "pick")
      /\ UNCHANGED <<esp, current_task, task_count, schedule_ticks, iflag, cpu,
                     next, prev, arg, createVars>>

----------------------------------------------------------------------------
(* task_yield, one shared access at a time, on the stack s.                *)

YieldPick(s) ==
    /\ At(s, "pick")
    /\ \E n \in Slots : IsNext(n) /\ next' = [next EXCEPT ![s] = n]
    /\ Goto(s, "compare")
    /\ UNCHANGED <<tableVars, schedule_ticks, iflag, cpu, prev, arg, ret,
                   createVars>>

YieldCompare(s) ==
    /\ At(s, "compare")
    /\ IF next[s] = current_task
       THEN /\ Goto(s, ret[s])
            /\ UNCHANGED prev
       ELSE /\ Goto(s, "mark")
            /\ prev' = [prev EXCEPT ![s] = current_task]
    /\ UNCHANGED <<tableVars, schedule_ticks, iflag, cpu, next, arg, ret,
                   createVars>>

YieldMark(s) ==
    /\ At(s, "mark")
    /\ tstate' = MarkReady(tstate, prev[s])
    /\ Goto(s, "set")
    /\ UNCHANGED <<esp, current_task, task_count, schedule_ticks, iflag, cpu,
                   localVars, createVars>>

YieldSet(s) ==
    /\ At(s, "set")
    /\ tstate' = [tstate EXCEPT ![next[s]] = "RUNNING"]
    /\ Goto(s, "current")
    /\ UNCHANGED <<esp, current_task, task_count, schedule_ticks, iflag, cpu,
                   localVars, createVars>>

YieldCurrent(s) ==
    /\ At(s, "current")
    /\ current_task' = next[s]
    /\ Goto(s, "call")
    /\ UNCHANGED <<tstate, esp, task_count, schedule_ticks, iflag, cpu,
                   localVars, createVars>>

YieldCall(s) ==
    /\ At(s, "call")
    /\ arg' = [arg EXCEPT ![s] = esp[next[s]]]
    /\ Goto(s, "save")
    /\ UNCHANGED <<tableVars, schedule_ticks, iflag, cpu, next, prev, ret,
                   createVars>>

(* First half of context_switch: push, *old_esp = esp.                     *)
YieldSave(s) ==
    /\ At(s, "save")
    /\ esp' = [esp EXCEPT ![prev[s]] = Ctx(s, "yield")]
    /\ Goto(s, "load")
    /\ UNCHANGED <<tstate, current_task, task_count, schedule_ticks, iflag, cpu,
                   localVars, createVars>>

(* Second half: esp = new_esp, pop, ret.  The locals are dead from here.   *)
YieldLoad(s) ==
    /\ At(s, "load")
    /\ Resume(arg[s], esp, [arg EXCEPT ![s] = Ctx(s, "null")], iflag)
    /\ next' = [next EXCEPT ![s] = 0]
    /\ prev' = [prev EXCEPT ![s] = 0]
    /\ UNCHANGED <<tstate, current_task, task_count, schedule_ticks, ret,
                   createVars>>

YieldStep ==
    \E s \in Slots :
        \/ YieldPick(s) \/ YieldCompare(s) \/ YieldMark(s) \/ YieldSet(s)
        \/ YieldCurrent(s) \/ YieldCall(s) \/ YieldSave(s) \/ YieldLoad(s)

----------------------------------------------------------------------------
Create == CreateScan \/ CreateClear \/ CreateFrame \/ CreatePublish \/ LaunchDone

CpuStep == Create \/ Start \/ Halt \/ Yield \/ Exit \/ YieldStep

Next == TimerIrq \/ DeviceIrq \/ CpuStep

Spec == Init /\ [][Next]_vars

(* The PIT keeps firing; and a task that is given the CPU again and again  *)
(* gets through its code, for a time slice is many instructions long.      *)
FairSpec ==
    /\ Spec
    /\ WF_vars(TimerIrq)
    /\ \A s \in Slots : SF_vars(cpu = s /\ CpuStep)

----------------------------------------------------------------------------
(* Properties.                                                             *)

(* Every variable stays in its range.                                      *)
TypeOK ==
    /\ tstate \in [Slots -> {"READY", "RUNNING", "DEAD"}]
    /\ esp \in [Slots -> Contexts]
    /\ current_task \in Slots
    /\ task_count \in 1 .. MaxTasks
    /\ schedule_ticks \in 0 .. Interval - 1
    /\ iflag \in BOOLEAN
    /\ cpu \in Slots \cup {Wild}
    /\ pc \in [Slots -> PCs]
    /\ next \in [Slots -> Slots] /\ prev \in [Slots -> Slots]
    /\ arg \in [Slots -> Contexts]
    /\ ret \in [Slots -> {"run", "net"}]
    /\ launched \in 0 .. Launch
    /\ slot \in Slots

(* The CPU never executes hlt with interrupts disabled: context_switch     *)
(* does not save IF, so a task resumed by somebody else's yield inherits   *)
(* the flag, and a hlt would then sleep for ever.                          *)
NoDeafHalt ==
    cpu \in Slots /\ pc[cpu] \in {"hlt", "net"} => iflag

(* Each task that is not running can be resumed: tasks[].esp points at an  *)
(* intact frame on its own stack, whatever the other tasks did since.      *)
ContextsIntact ==
    \A s \in 0 .. task_count - 1 :
        s # cpu /\ tstate[s] # "DEAD" =>
            esp[s].stk = s /\ esp[s].kind \in Resumable

(* The task table says which stack the CPU is on.                          *)
TableAgreesWithCpu ==
    /\ cpu = current_task
    /\ \A s \in Slots : tstate[s] = "RUNNING" <=> s = current_task

(* A task that called task_exit is never run again, so that the hlt loop   *)
(* behind its task_yield is not reached: its slot stays DEAD, whatever     *)
(* choices other tasks had made before it died, until task_create takes it.*)
DeadStaysDead ==
    [][\A s \in Slots : tstate[s] = "DEAD" =>
          \/ tstate'[s] = "DEAD" /\ pc'[s] # "net"
          \/ slot = s /\ pc[0] = "clear"]_vars

(* A context is lost in two situations only: an interrupt taken by a task  *)
(* that is inside switch_to, after current_task = next and before the load *)
(* of the new stack pointer; and the memset of a slot that is used again,  *)
(* which leaves it READY, below task_count and without a frame.  Outside   *)
(* of those two, no step damages what was intact.                          *)
InSwitchWindow ==
    cpu \in Slots /\ iflag /\ pc[cpu] \in {"call", "save", "load"}
Reclaiming == At(0, "clear") /\ slot < task_count
OnlyTheWindowCorrupts ==
    [][ContextsIntact /\ ~ (InSwitchWindow \/ Reclaiming) => ContextsIntact']_vars

(* Every task that was launched runs again and again, in every run in      *)
(* which no context is lost.                                               *)
EveryTaskRuns ==
    []ContextsIntact => \A s \in Slots : s <= Launch => []<>(cpu = s)

(* The scheduler implements the round-robin promise of task.h.             *)
Promise == INSTANCE RoundRobin WITH
    Places <- PCs, Fresh <- "none", Entered <- "start",
    Asleep <- "hlt", Awake <- "run",
    turn <- current_task, members <- task_count, place <- pc
TakesTurns == Promise!RoundRobinSpec
TakesTurnsSafely == Promise!RoundSafety
=============================================================================
