# ZoloOS in TLA+

ZoloOS is a 32-bit x86 teaching kernel: one address space, one CPU, cooperative and preemptive tasks, a
keyboard, a text or framebuffer display and a shell. This directory holds TLA+ models of its components,
TLC configurations that check them on small instances, and proofs of their main properties for all
instances. Source paths below are relative to `src/`.

1. [The system](#1-the-system)
2. [The modules](#2-the-modules)
3. [What the runs check](#3-what-the-runs-check)
4. [Fairness](#4-fairness)
5. [What is proved](#5-what-is-proved)
6. [Findings and observations](#6-findings-and-observations)
7. [What is only model-checked, and what is not modelled](#7-what-is-only-model-checked-and-what-is-not-modelled)
8. [Plan](#8-plan)

To use it: `tlc -config X.cfg M` with the pairs of section 3, and `tlapm M.tla` for the modules whose name
ends in `Proofs`.

## 1. The system

| component | state it keeps | operations | correct when |
|---|---|---|---|
| Scheduler: `kernel/task.c`, `boot/switch.asm` | task table (state, saved stack pointer), current task, number of slots, ticks of the quantum; the CPU's stack and IF | `task_create`, `task_yield`, `task_schedule` (timer), `task_exit`, `context_switch` | each task resumes where it paused; the table agrees with the CPU; everyone runs again; no hlt with interrupts off; dead tasks stay dead |
| Interrupt dispatch: `kernel/irq.c`, `kernel/idt.c`, `boot/idt.asm` | PIC masks, vectors, lines in service; table of handlers; frames on the stacks | `irq_init`, `irq_register_handler`, `irq_enable`, `irq_handler`, the stubs | every signal of a line with a handler reaches that handler; no line is blocked for good; no driver is interrupted half-way |
| Timer: `kernel/timer.c` | the PIT's divisor, tick counter | `timer_init`, `timer_callback`, the getters | drives the scheduler; tells the time |
| Keyboard: `kernel/keyboard.c` | ring buffer with two indices, shift flag | IRQ1 handler, `keyboard_getchar`, `keyboard_haschar` | characters arrive once, in order; a full ring loses only new ones; Shift follows the keys |
| Shell: `kernel/shell.c` | line buffer, argument vector, window | `shell_read_line`, `shell_tokenize`, `shell_execute`, seven commands | buffers hold; commands get the words of the line; the screen shows the line |
| Text consoles: `kernel/vga.c`, `kernel/wm.c` | grid of characters, cursor | `putchar`, scroll, clear | the cursor stays in the grid; output lands on blank cells |
| Window display: `kernel/wm.c`, `kernel/fb.c` | table of windows, framebuffer | `wm_create_window`, `wm_render_all`, drawing | the screen shows what the windows hold |
| Physical memory: `kernel/pmm.c` | bitmap of frames, counters | `pmm_init`, `pmm_alloc_frame`, `pmm_free_frame` | only usable RAM is given, to one holder at a time; the counter is exact |
| Paging: `kernel/paging.c` | page directory and tables | `paging_init`, `paging_identity_map_region` | everything mapped maps to itself; tables belong to nobody else; no fault on the way |
| Heap: `kernel/heap.c` | watermark | `heap_init`, `kmalloc`, (`kfree` does nothing) | blocks lie in the heap and apart |
| Exceptions: `kernel/isr.c` | none | print a report and halt | only CPU exceptions get there |
| Boot and sysinfo: `kernel/kernel.c`, `boot/boot.asm` | order of initialisation, the two windows | `kernel_main`, `sysinfo_task` | each part finds what it needs ready |
| Descriptor tables and stubs: `kernel/gdt.c`, `kernel/idt.c`, `boot/idt.asm` | GDT, IDT; registers and stack while an interrupt is delivered | `gdt_init`, `idt_init`, `isr_common`, `irq_common` | each vector reaches its handler, which sees the interrupted state and gives it back |
| Formatted output: `kernel/kprintf.c` | the output hook | `kprintf` | prints what `printf` would, but for two cases (section 6) |
| String library: `kernel/string.c` | none | nine functions | as the C standard has them |
| Font, port I/O, types, link | none | | |

How they interact. The PIT raises IRQ0 a hundred times a second; the PIC offers it; the CPU's gate clears IF;
the stub saves the registers on the stack of whichever task runs; `irq_handler` acknowledges and calls
`timer_callback`, which calls `task_schedule`, which may leave for another stack in the middle of the handler.
Scan codes take the same way to `keyboard_callback`, which fills the ring that the shell task empties, asleep
with `hlt` while there is nothing in it. In framebuffer mode the shell and `sysinfo_task` each write a window's
grid and each paint the whole screen; sysinfo calls `task_yield` a hundred times between two rounds. The PMM
serves page tables to paging, which maps the framebuffer for `fb_init`; the heap's place follows the bitmap's.

What makes it hard:

- one flag, IF, decides what can interrupt what, and `context_switch` does not carry it: it follows control;
- `task_yield` runs `switch_to` with interrupts enabled while the timer runs the same function with interrupts
  disabled, on the same table;
- handlers end on another stack than they began, with the PIC already released;
- the keyboard's handler and its reader share a ring without a lock;
- two tasks paint one screen;
- boundaries: a full table, a full ring, a full line, addresses that wrap at the top of memory.

## 2. The modules

| module | models | extends | promises |
|---|---|---|---|
| `Scheduler` | task table, policy, stack switch, timer, task bodies | | implements `RoundRobin` |
| `RoundRobin` | the abstract promise: tasks take turns | | |
| `Interrupts` (`MCInterrupts`) | PICs, gates, dispatcher, task switches inside a handler | | |
| `Keyboard` | scan codes, ring, blocking reader | | implements `BoundedFifo` |
| `BoundedFifo` | the abstract promise: a queue that drops what does not fit | | |
| `Input` | a key's way to the shell: tasks, timer and keyboard together | `Scheduler`, an instance of `BoundedFifo` | |
| `Console` | one screen or window: `putchar`, scrolling, clearing | | |
| `Shell` (`MCShell`) | prompt, editor, tokenizer, commands on a console | `Console` | |
| `Display` (`MCDisplay`) | several painters of several windows | | |
| `Pmm` (`MCPmm`) | building the bitmap, giving and taking frames | | implements `FrameAllocator` |
| `FrameAllocator` | the abstract promise: a parking lot | | |
| `Heap` | bump allocator with wrapping arithmetic | | |
| `Memory` (`MCMemory`) | the boot's memory side: `Pmm`, paging, framebuffer, `Heap` | `Pmm`, `Heap` | |
| `Descriptors` | GDT, IDT, the stubs' frames, reboot | | |
| `Clock` | PIT, tick counter, the two clocks on the screen | | |
| `Strings` | the functions of `string.c`, a step per round of a loop | | the C standard's contracts |
| `Kprintf` | a format and its conversions | | |
| `Drawing` | pixels: rectangles, lines, characters, strings, windows | | |
| `MCLibrary` | the five modules above, one at a time | all five | |
| `*Proofs` | theorems about the module they are named after | that module, `TLAPS` (`SchedulerProofs`: `Input`) | |
| `MemoryProofs` | theorems about `Heap` and `Memory` | `Memory`, an instance of `PmmProofs` | |
| `LibraryProofs` | theorems about `Strings`, `Clock`, `Descriptors`, `Drawing` and `Kprintf` | these five | |

**Scheduler.** A stack pointer is abstracted to a context: the stack it points into and the kind of frame that
lies there (`entry`, made by `task_create`; `yield`, left by `context_switch` under `task_yield`; `irq`, left
under a timer interrupt; `stale` or `null` when there is none any more). Resuming a frame uses it up, and with
it everything deeper on that stack. A handler runs with IF = 0 and is one action (`Tick`, `KeepRunning`,
`Preempt`, `DeviceIrq`). Code with IF = 1 is cut between its accesses to shared state: `task_yield` is the eight steps
`YieldPick` to `YieldLoad`, `task_create` the four steps `CreateScan` to `CreatePublish`. The two loops that search the
table, in `YieldPick` and `CreateScan`, only read and are one step each: a tick inside of one is not modelled. IF moves as the code
moves it: an `irq` frame ends in an `iret`, which sets it; a `yield` or `entry` frame runs on with the flag of
whoever switched. Task bodies are what the entry points do with the scheduler: `Sleepers` wait with `hlt` (the
shell), `Yielders` call `task_yield` (sysinfo), `Exiters` return (no task of this kernel does, `task_exit`
handles it all the same). After the CPU has loaded a stack pointer without a frame it is on no task's stack
(`Wild`).

**Interrupts.** The PICs are modelled after the 8259A as the code uses it: requests, masks, fixed priorities,
the cascade, non-specific EOI, spurious requests. A handler is cut into the three parts `Order` names (EOI,
driver, return), because a task switch happens inside the second; the stack of a task is the sequence of frames
on it. The boot is the sequence `pic_remap`, `irq_init`, registrations, `sti`.

**Keyboard.** A character is a key and whether the shifted table was used; the tables themselves are reduced to
which keys have a character. The environment presses and releases any key; `wire` holds the codes that the
controller keeps. `keyboard_getchar` is cut at each access to a volatile variable (`Test`, `Halt`, `Read`,
`AdvanceRead`).

**Console and Shell.** `Putchar` covers both implementations, which differ (`\t`, `\b`). Output is emitted one
character a step; keys can come at any time the shell reads. The line is tokenized in place, with NULs written
into it, and an argument is what a C string from its index on is, up to the next NUL.

**Display.** The screen is a grid of character cells; painting a cell is one step, reading a character from a
window's grid is another, and a switch to another painter can come between any two. Fills of a window's border
and background are one pass, for the second covers the first.

**Input.** `Scheduler` has the tasks that run and sleep but not why they sleep; `Keyboard` has the reader that
sleeps but not who else has the CPU. `Input` puts the reader's loop on the shell's slot. The ring is the bounded
queue, which `Keyboard` shows it to be; a key's interrupt is taken on whatever stack the CPU is on, inside a
switch as well. What `Keyboard` assumes (its reader gets the CPU again and again) is derived here.

**Descriptors.** GDT and IDT are filled entry by entry and loaded; before that, code runs on the boot loader's
segments. A signal goes through the gate that the IDT has for it; the gate, the stub, the common part and the
way back are one step each, where each register holds a number of its own, so that a frame of the wrong shape gives the handler and
the `iret` wrong registers. `reboot` loads an empty IDT and executes `int3`: no gate, none for the #GP that
follows, none for the double fault, and the CPU resets.

**Clock.** `timer_init`'s three port writes, the counter with its wrap, and the two readers, whose reads a tick
may separate.

**Strings, Kprintf, Drawing.** Code that is called and returns. A string function takes a step per round of its
loop, on a memory of bytes and with every call that C allows. `kprintf` takes a step per literal or conversion
of a format that is spelled from what the caller prints; its output hook is not part of it. What it should print is
what `printf` would, of the conversions that `kprintf.h` lists; `OnlySignsAndCharsDiffer` names the two cases in which it
does not (`SignBeforeBlanks`, `WidthIgnored`), and claims nothing of conversions that C does not define. In `Drawing` a line takes a step per pixel, a string one per character and a window one per call it makes;
the other calls, whose loops only walk over a rectangle, are one step. Coordinates are unsigned and wrap as in
the code, except a line's, which are signed until they are plotted.

**Pmm, Heap, Memory.** `pmm_init` is modelled round by round: measuring, freeing what is available, protecting
frame 0, kernel and bitmap. Addresses wrap at `AddressSpace`, where the code's wrap at 2^32. `Memory` runs the
boot as `kernel_main` does, with paging's tables taken from the PMM, cleared through the mapping that exists so
far, and ends in `fault` when that mapping is not there.

## 3. What the runs check

| run | module | states | shows |
|---|---|---|---|
| SchedulerText | `Scheduler` | 292 | text mode: contexts intact, table and CPU agree, round robin refined, its liveness included |
| Input | `Input` | 8 229 | framebuffer mode with keys: no hlt is deaf; a context is damaged only by an interrupt between `current_task = next` and the load of the new stack; otherwise nobody starves and every accepted key is read |
| SchedulerExit | `Scheduler` | 31 004 | tasks that return, slots used again: no dead task is resumed, and beside the switch only a slot under construction is without a context |
| SchedulerGuiRace | `Scheduler` | trace of 26 | *finding*: that interrupt |
| Interrupts | `MCInterrupts` | 5 360 | lines are released, drivers undisturbed and the right ones, interrupts come back, lines with a driver are served |
| Keyboard | `Keyboard` | 213 760 | the ring is a bounded queue under every interleaving; what was accepted is delivered; Shift follows the keys as far as one flag for two keys can |
| Shell | `MCShell` | 1 462 761 | every line that can be typed and edited, with and without a window |
| Display | `MCDisplay` | 108 552 | wrong characters come from stale reads only; what a window holds comes back to the screen |
| Pmm | `MCPmm` | 190 | disjoint memory maps: exact counter, only usable RAM, a parking lot |
| Memory | `MCMemory` | 2 175 | a whole boot, and afterwards all requests for frames and blocks |
| MemoryHeap | `MCMemory` | trace of 19 | *finding*: the PMM gives away the frames of the heap |
| Library | `MCLibrary` | 79 179 | string functions, `kprintf`, drawing, descriptor tables and clock: each gives the right result, and each call ends |

The configuration of a run is `<run>.cfg`. The types of `Pmm`, `Keyboard`, `Interrupts`, `Display` and `Heap` are
proved (section 5) and not checked again by a run.

Bounds, and why they are enough:

- **Scheduler.** Three or four slots for sixteen, so that a scan can skip, wrap and meet a slot in each state;
  quanta of two or three ticks for ten, so that ticks with and without a switch both happen. `Launch` exceeds
  the table in SchedulerText (the call that must fail) and in SchedulerExit (slots are used twice).
  SchedulerExit has no yielding task, so that the known race does not hide what is asked about dead slots.
- **Input.** Three tasks, as in the kernel, one character and room for two of them: the reader's cases are an
  empty ring, a filled one, and a key between test and `hlt`; the order of characters is `Keyboard`'s matter.
- **Interrupts.** Four lines a PIC for eight: the timer, the keyboard, the cascade, a spare line that doubles as
  the spurious one, and a device on the slave. The three sets of drivers are the kernel's own, one with a driver
  on the slave, and one with a handler for the cascade line as well. `MaxNest` bounds the frames on one stack
  at two: enough for an interrupt in the tail of a handler.
- **Keyboard.** A ring of four places (256 in the code) wraps and fills; the controller holds one code at a time.
- **Shell.** Two rows of three cells and lines of four characters: prompt and line wrap and scroll. Three
  letters spell all commands, in such a way that one is a prefix of another; two arguments, so that `argv` fills.
- **Display.** Two windows of two cells, two characters: first, last and only cells of a window, first and last
  window are told apart.
- **Pmm, Memory.** Frames of four bytes and sixteen or thirty-two of them; maps with unaligned, unsorted and
  empty regions, and with RAM up to the very top, where `base + length` is 0. Framebuffers inside one page
  table, across two, with both ends inside a page, in the range that is mapped already, and unusable. Page
  tables of four entries, two of them static. Requests of 0, 1, 3 and 127 bytes: aligned, padded, wrapping.
  Boots with plenty of frames, with few, and without a memory map; a framebuffer at the very top.
- **Library.** *Strings*: four bytes of three values, so that a block can overlap another by one or two bytes in
  either direction, and strings end early, late or not at all within the count. *Kprintf*: words of 16 bits,
  so that the extreme numbers are within TLC's integers; widths below, at and above what is printed, one or two
  figures. *Drawing*: a screen of 12 by 10 pixels with a pitch of 13 and coordinates modulo 1024; lines from two
  points to every pixel of the screen and beyond its edges, which covers all octants; six windows, alone and in pairs, partly off the
  screen, one too small for its frame, and a third one that the table has no place for. *Descriptors*: all 48
  vectors and stubs on both sides of a 64 KiB boundary, so that low and high half of an address matter; 50 entries for
  256, two of them without a stub. *Clock*: a minute of four seconds at two ticks, two digits of base 2, a counter that wraps after 150 ticks,
  and up to three ticks inside a reading.

Deadlock is checked except where the system may stop: a scheduler whose CPU has lost its stack (Input,
SchedulerExit), a shell after `reboot`, and a CPU that was reset or halted by an exception (Library).

## 4. Fairness

- **Scheduler, `FairSpec`.** The PIT fires for ever; a task that gets the CPU again and again makes its next
  step, since a quantum is many instructions long. Nothing is assumed of other devices: nobody may count on a
  key.
- **Interrupts, `FairSpec`.** Code goes on (`WF` on boot, handler, `sti`, yield). The CPU looks for a request
  before every instruction, so an interrupt that is offered again and again with IF = 1 is taken (`SF`).
  Devices and spurious requests are free to happen or not; `Served` excludes the case that more urgent lines
  take all of the CPU.
- **Input, `InputSpec`.** As `Scheduler.FairSpec`: the PIT fires, and each task that gets the CPU gets on. Keys
  may stop coming.
- **Keyboard, `FairSpec`.** Handler, timer and reader go on. The timer is needed: a key that arrives between the
  test and the `hlt` of `keyboard_getchar` is seen only after the next interrupt.
- **Display, `FairSpec`.** Each task finishes what it paints; `EveryTaskRuns` of Input is what justifies that,
  with its condition.
- **Library, `LibSpec`.** Code that has been entered goes on. Nobody has to call it, no device has to signal and
  no tick has to come: the clock's readers do not wait for one.

## 5. What is proved

All of these hold for every value of the constants that the named assumptions admit. TLC evaluates the
assumptions on every run; the column names what a theorem needs of the constants beyond their types.

| module | theorem | property | rests on |
|---|---|---|---|
| `SchedulerProofs` | `TypeCorrect` | `TypeOK` | |
| | `HaltsAreHeard` | `NoDeafHalt` | nobody exits |
| | `ContextsLostInTheWindow` | `OnlyTheWindowCorrupts` | nobody exits, or nobody yields |
| | `ContextsLostInThreeWays` | the same with a third exception, `RunsTheDead` | |
| | `TheDeadStayDead` | `DeadStaysDead` | nobody yields |
| | `TextContextsIntact`, `TextTableAgrees` | `ContextsIntact`, `TableAgreesWithCpu` | nobody yields or exits |
| | `TextTakesTurns` | each step is one of `RoundRobin` or a stutter | nobody yields or exits |
| | `InputIsScheduled` | each step of `Input` is one of `Scheduler` or a stutter | |
| | `InputHaltsAreHeard` | `NoDeafHalt`, of `Input` | nobody exits |
| | `InputContextsLostInTheWindow` | `OnlyTheWindowCorrupts`, of `Input` | nobody exits, or nobody yields |
| `InterruptsProofs` | `InterruptTypes`, `PicsAreFree`, `DriversUndisturbed`, `LinesAreRight` | `TypeOK`, `NothingStuck`, `DriversRunThrough`, `RightDriver` | vectors fit into the IDT |
| `KeyboardProofs` | `KeyboardTypes`, `KeyboardIsQueue` | `TypeOK`, `IsQueue` | a ring of at least two places |
| | `ShiftIsTracked` | `ShiftFollowsKeys` | there is a Shift key, and Shift keys are nothing else (`KeysAssumption`) |
| `ShellProofs` | `ShellTypes`, `OutputOnBlank` | `TypeOK`, `BlankAhead` | |
| | `CommandsSeeTheWords` | `TokensAreWords` | NUL is not a letter that can be typed |
| | `LineIsOnScreen` | `OnlyTheMarginConfuses` | |
| `DisplayProofs` | `DisplayTypes`, `OnlyStaleReads` | `TypeOK`, `OnlyAStaleReadMisleads` | |
| `PmmProofs` | `PmmTypes` | `TypeOK` | the kernel lies in RAM (`KernelInRam`) |
| | `CountIsExact` | `FreeCountExact` | available regions do not overlap |
| | `OnlyRamIsGiven` | `OnlyRamIsFree` | no region begins in the last frame of the address space |
| | `NoRamIsLost` | `NothingLost` | `KernelInRam` |
| | `NoFrameTwice` | `IsLot` | |
| `MemoryProofs` | `HeapTypes`, `HeapBlocksApart` | `HeapTypeOK`, `BlocksApart`, of `Heap` | the heap is made of whole words below the top of memory |
| | `MemoryTypes`, `KernelBlocksApart` | `TypeOK`, `BlocksApart`, of `Memory` | the four assumptions below |
| | `PagesMapToThemselves` | `IdentityMapped` | the same |
| | `PageTablesApart` | `TablesApart` | the same |
| | `HeapIsMapped` | `HeapUsable` | the same |
| | `FramebufferMapped` | `FbMapped` | the same |
| | `BootDoesNotFault` | `NoFaultAtBoot` | also `LowRamSuffices`: RAM below the static tables has a frame for each table of the framebuffer |
| `LibraryProofs` | `StringsAreCorrect` | `StringsKeepTheirPromise` | |
| | `ClocksAreRight` | `ClockIsRight` | the PIT's divisor fits its two bytes; a minute is two figures |
| | `InterruptsArriveAndReturn` | `HandlersSeeTheInterrupted` | stubs have addresses of their own, and the vectors fit into the IDT |
| | `PicturesAreRight` | `DrawsWhatWasAsked` | a screen's pixels, four bytes each, have addresses; a character fits on the screen and a title into its bar; lines within a sixteenth of the range of coordinates; the property speaks of outlines, strings and windows whose coordinates do not wrap, of outlines that are not empty and of windows with room for their frame, title and a character |
| | `KprintfPrints` | `OnlySignsAndCharsDiffer` | a word's digits fit the scratch buffer (`TmpAssumption`); callers spell their flags in the order that `kprintf` takes, with widths within an `int` (`IsItem`) |

The theorems of `LibraryProofs` are about the specification of each component (`StrSpec`, `ClkSpec`, `DscSpec`,
`DrawSpec`, `FmtSpec`), the run is about all of them one at a time.

`KprintfPrints` is about what a numeral, a format and its arguments come to item by item. The library's induction
rules take an operator as a parameter, which no prover here can instantiate; instead `LeastNatural` has a least
element for a set of numbers, `UpTo` makes of it induction for a *set*, and `Recursion` that a function defined by
recursion exists and does its step. What has to hold of every prefix is a set of that kind.

What `Memory` assumes: of the frames what `Pmm` does (`FramesAssumption`); pages and heap are whole words and the
static tables do not reach the top (`PagesAssumption`); a framebuffer ends inside the address space
(`ScreensAssumption`); kernel, bitmap and heap end below what the static tables map, whatever the memory map
says (`KernelIsLow`).

The inductive invariants:

- *Scheduler, flag* (`FlagInv`). IF is not part of a saved context, so it is what the code that switched left behind. The
  invariant accounts for who can run with IF = 0: a task that has not executed its `sti` yet, and one that was
  resumed from its own `task_yield`. For that it follows the `yield` frames: they belong to `Yielders`, and those
  never halt (`SleepersDoNotYield`).
- *Scheduler, text mode* (`TextInv`). Exactly the current task is `RUNNING` and has the CPU, every other
  slot of the round has a frame of its own (`entry` before its first turn, `irq` after), and a slot under
  construction lies outside of the round. Each part is
  needed to keep the others: a switch goes to a slot with a frame because only launched slots are in the round.
- *Scheduler, with yielding or exiting tasks* (`SwitchInv`). Stacks and slots come apart here: from `current_task =
  next` on, the code on stack `x` acts in the turn of `next[x]`, and an interrupt files it under that name
  (`TurnOf`). The invariant holds in every state, damaged or not, and has four parts. `CpuInv`: the current task
  is the one whose turn the CPU's stack acts in. `FrameInv`: under which slot each frame is filed, and that what a
  switch has in its locals is what its code left there. `CreateInv`: the slot `task_create` works on. `MaskedInv`: with IF = 0
  the pointer a switch is going to load is still the one in the table. With both kinds of task together,
  `task_yield` may mark `RUNNING` a slot that died after it was chosen (section 6). `ContextsLostInThreeWays` names that
  step, `RunsTheDead`, as a third way to lose a context, and then needs to know nothing of who yields and who exits.
  Without it the statement is false of the mixture: the slot may have lost its frame while it was dead and nobody minded.
- *Scheduler, dead tasks* (`DeadInv`). Only a task that called `task_exit` is inside `task_yield` then. Suspended there
  before `current_task = next`, or in a `yield` frame, it is doomed: its frame is named by its own dead slot and by no
  other, and nobody chooses that.
- *Interrupts* (`IntInv`). The three safety properties and the state of the PICs need each other: nothing is in
  service when an interrupt is taken because no handler is interrupted before its EOI; the EOI reaches the right
  PIC because the frame holds the right line.
- *Keyboard, ring* (`RingInv`). Between `Read` and `AdvanceRead` the reader's character is still in its place: the
  handler never writes to the place `buf_read` names.
- *Keyboard, Shift* (`ShiftInv`). The keys are ahead of the flag by what is on the wire. If a code of a Shift key is
  there, the last one decides what the flag will be; if none is, the flag is what it should be already.
- *Pmm* (`PmmInv`). Its parts follow the loops (`Walk`), where each clear bit came from (`Origin`), that
  holders have their frames marked (`Holders`), round by round; beside it, the counter is never below the number
  of clear bits (`Covers`). `NoRamIsLost` needs in addition that the highest address is that of the map so far
  (`Top`), and what each loop has done by now to a frame of RAM (`Kept`).
- *Heap* (`HeapInv`). The watermark lies inside the heap, all blocks lie below it, and apart.
- *Memory* (`MemoryInv`). What holds of `Pmm` and `Heap` alone, by way of `INSTANCE`; a static table is where
  `paging_init` put it, and any other lies in a frame that is neither free nor a caller's, serves one directory entry
  and maps its pages to themselves or nowhere (`Mappings`); while a region is mapped, the pages behind the loop
  are (`Mapping`). `Reserve` counts: of the free frames below the end of the static tables there are as many as tables
  still needed, and since the PMM gives the lowest frame first, the one it gives is mapped when it is cleared.
- *Shell* (`ShellInv`). Types, a line that fits its buffer at each step of the shell, and blanks from the cursor on.
- *Tokenizer* (`TokenInv`). The loop invariant of `shell_tokenize`, `Tokens(l, n, a, t)`: the arguments so far are the
  beginnings of words, in order and all of them up to here, and each but the last is ended by a NUL. It is stated
  of the line with NULs in place of blanks, since the line before is gone.
- *Strings* (`StringsInv`). One loop invariant per loop (`Rounds`), each of which says how far the
  pointers have come and what the bytes hold that were written and those that were not, and `WasLegal`: the call
  was legal for the memory as it was. It is legality that keeps a copy apart from its source and a comparison
  inside of memory, so that what a round reads is still what was there at the call; for `memmove` the
  direction does.
- *Clock* (`ClockInv`). The counter is the number of ticks modulo its wrap; what a reader computed from is the
  counter as it was at its first read; and what it has shown is right for that, whatever has ticked since.
- *Descriptors* (`DescriptorInv`). The entries filled so far (`TablesInv`), and the whole stack and all registers at each
  stage of a delivery (`CpuInv`): a frame of a wrong shape shows only at the `iret`, stages later.
- *Drawing* (`DrawInv`). One part per kind of request. A line (`LinePart`) has a *track*, the function that gives for
  each step along its longer axis how many steps it has made along the other: the track stays within half a pixel
  of the ideal line, `err` is what is left of it, and the pixels drawn are those of the track so far. `err` alone
  would not do, since it forgets where the line has been. A string (`StringPart`) has a cursor that is where `Row` and
  `Col` put the next character, and the picture is that of the characters before it; no two share a pixel. For
  windows (`WindowsPart`) the queue of calls is told by its elements: so many of the calls of one window, then the
  windows behind it. The picture is that of the windows before, and on it what the calls made so far leave
  (`WindowStage`); a window in reach of its coordinates keeps each of its calls inside of its frame.
- *Shell's screen*. `ShellInv` again; the rest is what single steps do to `Shows`. `PrintedPlace`: a character goes to the cursor,
  and everything before it keeps its distance to the cursor, even when the console scrolls. `ErasedShows`: a
  Backspace takes back what was printed last, unless the cursor is at the left margin. `KeyEchoed`, `EmitShows`: line
  and screen stay apart by what is on its way to the screen, and by nothing else.
- *kprintf* (`FmtInv`). So many items are printed, `p` stands behind them in the format and the arguments behind theirs
  are left. That a scan from there finds the flags, the width and the conversion of the next item, and nothing of
  the one behind it, is `FieldScanned`; that the digits of `uint_to_str` are the number is `NumeralMade`, by what is left of the number
  after each round; that padding and sign leave the field of `printf`, unless blanks come to stand behind the sign, is
  `SignsAre`, and of all conversions `FieldShown`.
- *Display*. `TypeOK` alone; the proof of `OnlyStaleReads` shows for each kind of step that a painter which had
  a cell before it still has it before it, or has painted it with what it holds.

## 6. Findings and observations

Two disagreements between code and comments are runs of their own:

1. **A tick inside `task_yield`** (SchedulerGuiRace, `task.c:187`). After `current_task = next` a timer tick
   enters `switch_to` again and saves the stack pointer of the yielding task into the slot of the other one.
   `task.h:21`: "Task A is now "frozen" and B resumes exactly where it paused."
2. **The heap is not carved out** (MemoryHeap, `kernel.c:300`). The PMM still has its frames to give;
   `heap.h:18` speaks of "memory we've carved out".

Observations made on the way. A property names each case as its exception where one speaks of it.

*Tasks and interrupts*

- `irq_register_handler` unmasks a line of the slave, but IRQ2, through which the slave signals, stays masked
  (`irq.h:59` promises that the PIC will forward it). No driver uses such a line; `Served` carries the condition.
- `context_switch` does not carry IF. sysinfo, resumed from inside a tick, computes with interrupts off until the
  next switch.
- `task_yield` may mark a slot `RUNNING` that died since it was chosen, and a reclaimed slot is `READY` before it
  has a frame (`task.c:118`; `OnlyTheWindowCorrupts` names it). No task of this kernel exits.
- The idle task takes its turn like any other, for a whole quantum, while others are ready; the comment at the end
  of `kernel_main` says that it runs when nobody needs the CPU. sysinfo's hundred yields therefore take many
  seconds rather than one.
- The report of an exception goes through `kprintf`'s hook (`isr.c:54`), in framebuffer mode into the grid of the
  shell's window, which nobody paints before the halt.

*Input and output*

- Two Shift keys share one flag (`keyboard.c:82`): releasing one ends shifting while the other is held, although
  `keyboard.c:32` has the shifted table used "when Shift is held". `ShiftFollowsKeys` states what holds.
- Backspace after a line has wrapped shortens the line but cannot go back over the left margin (`wm.c:154`,
  `vga.c:185`): the screen keeps a character that Enter will not run. `OnlyTheMarginConfuses` says that this is
  the only way in which line and screen come apart.
- A line that fills its buffer runs without Enter and without a new row. The last argument of a full `argv` is
  not terminated at its end and takes the rest of the line.
- `kprintf.h:21` promises the syntax of `printf`, but `kprintf` prints the sign before blanks (`-   3`, where `printf`
  has `   -3`) and ignores the width of `%c`. `OnlySignsAndCharsDiffer` says that these are the only two deviations among
  the conversions the header lists, with flags in the order that `kprintf` takes; in another order (`%0-3d`) it does
  not know them. It also steps over the terminator of a format that ends inside a conversion. No format of the
  kernel meets any of these.
- A string whose row is full opens the next one at once, and a newline behind it leaves an empty row.
- An outline of no width or no height is drawn a pixel beyond its place (`fb.c:113`), and a window that is smaller than its own frame
  gets columns from a wrapped difference (`wm.c:65`). Neither is asked for.
- `uptime` reads seconds and ticks at different moments, and the two may differ; `tick_count` wraps after 497 days.

*Memory*

- `fb_init` reports success when there was no frame for a page table (`paging.c:170`), and when the framebuffer
  ends at the top of the address space (`paging.c:154`).
- Without a memory map the heap starts at address 0, and the first block is a null pointer.
- The loop that protects kernel and bitmap is not bounded by the number of frames (`pmm.c:190`). `KernelInRam` is the
  assumption under which that does not matter.
- The bitmap is written behind the kernel before the memory map is read a second time (`pmm.c:145`). The models
  take it that the boot loader put its tables elsewhere.
- `fb_init` tests bit 11 of the multiboot flags (`fb.c:50`, `multiboot.h:35`) where its comment, like the
  specification, says bit 12. The models take the outcome of the test as given.
- RAM that the memory map reports twice is counted twice.

## 7. What is only model-checked, and what is not modelled

Only model-checked:

- Liveness (`EveryTaskRuns`, `KeysAreRead`, `InterruptsReturn`, `Served`, `CharsReachTheShell`, `TextComesBack`,
  `CallsReturn`, the fair part of `TakesTurns`) is beyond the prover.

Neither proved nor checked by a run: the scheduler's promises in mixtures of tasks that yield and tasks that exit, which
this kernel does not have. As stated, `OnlyTheWindowCorrupts` is false of one with four slots (two tasks that yield,
one that exits), where TLC finds a dead slot without a frame set `RUNNING`; what is true of every mixture is
`ContextsLostInThreeWays`. `DeadStaysDead` does not survive that step either.

Not modelled:

- *Boot and link*: the multiboot header, the first stack and the layout of sections run before there is anything
  to get wrong in another order; they give the constants `KernelStart`, `KernelEnd` and the maps.
- *The font's data*: `Drawing` holds for any glyphs.
- *Types and port I/O*: widths are constants of the models; a port access is part of the step that makes it.
- `irq_disable` and `vga_print_at`, which have no caller.
- Colours of the text console, the hardware cursor, and the wording of commands and reports: no other state
  depends on them.
- Memory map entries above 4 GiB count as not available, as the code skips them; flag bits and the TLB, since
  the code only ever adds mappings.

Real time is not modelled: "every task runs again" does not say when. Hardware is modelled as far as the code
uses it, and marked external in the map of definitions.

## 8. Plan

The order was: scheduler, keyboard, memory, shell, interrupts, display, each with its run first and its proofs
after; then their composition in `Input`, the parts that are called and return, and the proofs of `Memory`, of the
tokenizer, of the Shift flag, of `Descriptors` and `Clock` and of `Drawing`. What is left is `DeadStaysDead`
with tasks that yield and others that exit, which needs a statement that follows the slot `task_yield` brought back, and
the liveness properties, for a prover that has fairness.
