------------------------------- MODULE Memory -------------------------------
(***************************************************************************)
(* The memory side of a boot, as kernel_main runs it: pmm_init, then       *)
(* paging_init, heap_init and fb_init, which maps the framebuffer through  *)
(* page tables it allocates from the PMM; and then callers of the two      *)
(* allocators.  Composes Pmm and Heap with kernel/paging.c and fb_init of  *)
(* kernel/fb.c.                                                            *)
(*                                                                         *)
(* paging_identity_map_region is cut into the rounds of its loop.  The     *)
(* flag bits of an entry are left out: every entry is "present, writable". *)
(***************************************************************************)
EXTENDS Heap, Sequences, FiniteSets

CONSTANTS
    FrameSize, KernelStart, KernelEnd, Maps,
    EntriesPerTable,    \* ENTRIES_PER_TABLE
    StaticTables,       \* 4: the page tables that paging_init fills
    HeapSize,           \* 64 KiB
    Screens             \* what the boot loader may say about a framebuffer

Pages == 0 .. (AddressSpace \div FrameSize) - 1
ScreenInfo == [offered : BOOLEAN, rgb : BOOLEAN, deep : BOOLEAN,
               base : 0 .. AddressSpace - 1, size : 0 .. AddressSpace - 1]

ASSUME TablesAssumption ==
    /\ EntriesPerTable \in Nat \ {0} /\ StaticTables \in Nat \ {0}
    /\ (AddressSpace \div FrameSize) % EntriesPerTable = 0
ASSUME ScreensAssumption ==
    /\ Screens \subseteq ScreenInfo
    /\ \A s \in Screens : s.base + s.size <= AddressSpace

None == -1      \* an entry that is not present
Junk == -2      \* what a frame holds that nobody cleared

(* Where a page table lies: one of the static arrays, or a frame of RAM.   *)
Static(t) == [static |-> TRUE, at |-> t]
InFrame(f) == [static |-> FALSE, at |-> f]
Tables == {Static(t) : t \in 0 .. StaticTables - 1} \cup {InFrame(f) : f \in Pages}
Directory == 0 .. (AddressSpace \div FrameSize) \div EntriesPerTable - 1
Indices == 0 .. EntriesPerTable - 1
NoTable == [static |-> FALSE, at |-> None]

VARIABLES
    mmap, pc, entry, highest_addr, total_frames, free_frames, used, owned,
    mboot,              \* the framebuffer part of the multiboot info
    page_directory, table,
    stage,              \* how far kernel_main is
    addr,               \* loop variable of paging_identity_map_region, a page
    fb_active           \* and with it the result of fb_init

Frames == INSTANCE Pmm

ASSUME FramesAssumption ==
    Frames!SizesAssumption /\ Frames!MapsAssumption /\ Frames!KernelInRam

(* Pages are whole words, and so is the heap.  The kernel is linked low:   *)
(* its image, the bitmap and the heap end below what paging_init maps.     *)
PageUp(a) == ((a + FrameSize - 1) \div FrameSize) * FrameSize
StaticPages == StaticTables * EntriesPerTable
ASSUME PagesAssumption ==
    /\ FrameSize % 4 = 0 /\ AddressSpace % FrameSize = 0
    /\ StaticPages * FrameSize < AddressSpace
    /\ HeapSize \in Nat \ {0} /\ HeapSize % 4 = 0
    /\ HeapSize <= StaticPages * FrameSize
ASSUME KernelIsLow ==
    \A m \in Maps : \A k \in DOMAIN m :
        m[k].available =>
            PageUp(KernelEnd + Frames!BitmapSize(Frames!FrameEnd(m[k]))) + HeapSize
                <= StaticPages * FrameSize

pmmVars == <<mmap, pc, entry, highest_addr, total_frames, free_frames, used, owned>>
pagingVars == <<page_directory, table>>
memoryVars == <<pmmVars, heapVars, pagingVars, mboot, stage, addr, fb_active>>

Init ==
    /\ Frames!Init
    /\ HeapUnset
    /\ mboot \in Screens
    /\ page_directory = [d \in Directory |-> NoTable]
    /\ table = [t \in Tables |-> [i \in Indices |-> Junk]]
    /\ stage = "pmm"
    /\ addr = 0
    /\ fb_active = FALSE

----------------------------------------------------------------------------
PmmInit ==
    /\ stage = "pmm"
    /\ Frames!Boot
    /\ stage' = IF pc' = "ready" THEN "paging" ELSE "pmm"
    /\ UNCHANGED <<heapVars, pagingVars, mboot, addr, fb_active>>

(* The first StaticTables * EntriesPerTable pages map to themselves.       *)
\* Mutants of PagingInit: one directory entry too many; one too few.
PagingInitOneMore ==
    /\ stage = "paging"
    /\ page_directory' = [d \in Directory |->
                             IF d <= StaticTables THEN Static(d) ELSE NoTable]
    /\ table' = [t \in Tables |->
                    IF t.static THEN [i \in Indices |-> t.at * EntriesPerTable + i]
                                ELSE table[t]]
    /\ stage' = "heap"
    /\ UNCHANGED <<pmmVars, heapVars, mboot, addr, fb_active>>
PagingInitOneLess ==
    /\ stage = "paging"
    /\ page_directory' = [d \in Directory |->
                             IF d < StaticTables - 1 THEN Static(d) ELSE NoTable]
    /\ table' = [t \in Tables |->
                    IF t.static THEN [i \in Indices |-> t.at * EntriesPerTable + i]
                                ELSE table[t]]
    /\ stage' = "heap"
    /\ UNCHANGED <<pmmVars, heapVars, mboot, addr, fb_active>>
PagingInit ==
    /\ stage = "paging"
    /\ page_directory' = [d \in Directory |->
                             IF d < StaticTables THEN Static(d) ELSE NoTable]
    /\ table' = [t \in Tables |->
                    IF t.static THEN [i \in Indices |-> t.at * EntriesPerTable + i]
                                ELSE table[t]]
    /\ stage' = "heap"
    /\ UNCHANGED <<pmmVars, heapVars, mboot, addr, fb_active>>

(* kernel_main: the heap starts at the next page after the bitmap.         *)
HeapPlace == PageUp(Frames!BitmapEnd)
HeapInit ==
    /\ stage = "heap"
    /\ heap_init(HeapPlace, HeapSize)
    /\ stage' = "fb"
    /\ UNCHANGED <<pmmVars, pagingVars, mboot, addr, fb_active>>

----------------------------------------------------------------------------
(* fb_init.                                                                *)

FirstPage == mboot.base \div FrameSize
\* Mutant of LastPage: the end is not rounded up.
LastPageDown == Frames!Plus(mboot.base, mboot.size) \div FrameSize
LastPage == Frames!Plus(mboot.base, mboot.size + FrameSize - 1) \div FrameSize

Usable == mboot.offered /\ mboot.rgb /\ mboot.deep

FbRejects ==
    /\ stage = "fb"
    /\ ~ Usable
    /\ stage' = "up"
    /\ UNCHANGED <<pmmVars, heapVars, pagingVars, mboot, addr, fb_active>>

FbBegins ==
    /\ stage = "fb"
    /\ Usable
    /\ addr' = FirstPage
    /\ stage' = "map"
    /\ UNCHANGED <<pmmVars, heapVars, pagingVars, mboot, fb_active>>

pd_index(page) == page \div EntriesPerTable
pt_index(page) == page % EntriesPerTable

(* What the MMU makes of a page.                                           *)
Lookup(page) ==
    IF page_directory[pd_index(page)] = NoTable THEN None
    ELSE table[page_directory[pd_index(page)]][pt_index(page)]

(* A round of the loop whose directory entry is present.                   *)
MapPage ==
    /\ stage = "map" /\ addr < LastPage
    /\ page_directory[pd_index(addr)] # NoTable
    /\ table' = [table EXCEPT ![page_directory[pd_index(addr)]][pt_index(addr)] = addr]
    /\ addr' = addr + 1
    /\ UNCHANGED <<pmmVars, heapVars, page_directory, mboot, stage, fb_active>>

\* Mutant of Cleared: the memset of the new table is forgotten.
Uncleared(f) == table[InFrame(f)]
Cleared(f) == [i \in Indices |-> None]

(* A round that needs a new table.  The memset goes through the identity   *)
(* map: on a frame above it, it faults, and isr_handler halts the machine. *)
MapWithNewTable ==
    /\ stage = "map" /\ addr < LastPage
    /\ page_directory[pd_index(addr)] = NoTable
    /\ \E f \in Frames!Free :
          /\ Frames!IsFirstFree(f)
          /\ Frames!Take(f)
          /\ IF Lookup(f) = f
             THEN /\ table' = [table EXCEPT ![InFrame(f)] =
                                  [Cleared(f) EXCEPT ![pt_index(addr)] = addr]]
                  /\ page_directory' = [page_directory EXCEPT ![pd_index(addr)] = InFrame(f)]
                  /\ addr' = addr + 1
                  /\ UNCHANGED stage
             ELSE stage' = "fault" /\ UNCHANGED <<pagingVars, addr>>
    /\ UNCHANGED <<mmap, pc, entry, highest_addr, total_frames, owned, heapVars,
                   mboot, fb_active>>

(* The loop is over, or gave up for want of a frame: fb_init cannot tell.  *)
FbReady ==
    /\ stage = "map"
    /\ \/ addr >= LastPage
       \/ page_directory[pd_index(addr)] = NoTable /\ Frames!Free = {}
    /\ fb_active' = TRUE
    /\ stage' = "up"
    /\ UNCHANGED <<pmmVars, heapVars, pagingVars, mboot, addr>>

FbInit == FbRejects \/ FbBegins \/ MapPage \/ MapWithNewTable \/ FbReady

----------------------------------------------------------------------------
(* The system is up: callers of the two allocators.                        *)

FrameCaller ==
    /\ stage = "up"
    /\ Frames!pmm_alloc_frame \/ Frames!pmm_free_frame
    /\ UNCHANGED <<heapVars, pagingVars, mboot, stage, addr, fb_active>>

HeapCaller ==
    /\ stage = "up"
    /\ \E size \in Requests : kmalloc(size)
    /\ UNCHANGED <<pmmVars, pagingVars, mboot, stage, addr, fb_active>>

Next == PmmInit \/ PagingInit \/ HeapInit \/ FbInit \/ FrameCaller \/ HeapCaller

Spec == Init /\ [][Next]_memoryVars

----------------------------------------------------------------------------
(* Properties.                                                             *)

(* Every variable stays in its range, those of Pmm and Heap included:      *)
(* pages map somewhere or nowhere, the watermark stays inside the heap.    *)
TypeOK ==
    /\ Frames!TypeOK /\ HeapTypeOK
    /\ page_directory \in [Directory -> Tables \cup {NoTable}]
    /\ table \in [Tables -> [Indices -> Pages \cup {None, Junk}]]
    /\ stage \in {"pmm", "paging", "heap", "fb", "map", "up", "fault"}
    /\ addr \in Pages
    /\ fb_active \in BOOLEAN
    /\ mboot \in Screens

(* Once paging is on, a page maps to itself or not at all, and everything  *)
(* below the static limit stays mapped: the kernel never loses its own     *)
(* code, and a page fault is a page fault, not a stray access.             *)
IdentityMapped ==
    stage \notin {"pmm", "paging"} =>
        \A p \in Pages :
            /\ Lookup(p) \in {p, None}
            /\ p < StaticTables * EntriesPerTable => Lookup(p) = p

(* A frame that serves as a page table serves as one only, and neither a   *)
(* caller of pmm_alloc_frame nor the free pool has it.                     *)
TablesApart ==
    \A d \in Directory :
        page_directory[d] # NoTable /\ ~ page_directory[d].static =>
            /\ page_directory[d].at \notin Frames!Free \cup owned
            /\ \A e \in Directory \ {d} : page_directory[e] # page_directory[d]

(* When fb_init returns 1 the drawing functions can touch every byte of    *)
(* the framebuffer, with two exceptions it does not report: no frame was   *)
(* left for a page table, and a framebuffer in the last page of the        *)
(* address space, whose end wraps to 0.  And what is mapped stays mapped,  *)
(* whatever frames the PMM gives away or takes back.                       *)
Mapped(a) == Lookup(a \div FrameSize) = a \div FrameSize
EndsAtTheTop == LastPage = 0
FbMapped ==
    [][/\ fb_active' /\ ~ fb_active =>
             \/ \A a \in mboot.base .. mboot.base + mboot.size - 1 : Mapped(a)
             \/ Frames!Free = {} \/ EndsAtTheTop
       /\ stage \in {"map", "up"} =>
             \A p \in Pages : Lookup(p) = p => Lookup(p)' = p]_memoryVars

(* The boot does not fault on its way: page tables come from memory that   *)
(* is mapped when they are cleared.                                        *)
NoFaultAtBoot == stage # "fault"

(* What kmalloc returns can be used: it is mapped, and it is not the null  *)
(* pointer that stands for failure, unless there was no memory map, for    *)
(* then the bitmap ends at 0 and the heap begins there.                    *)
HeapUsable ==
    \A b \in blocks :
        /\ \A a \in Bytes(b) : Mapped(a)
        /\ b.at = 0 => mmap = Frames!NoMap

(* A block that kmalloc returned and a frame that pmm_alloc_frame returned *)
(* share no byte: the heap is "a region of memory we've carved out".       *)
HeapIsCarvedOut ==
    \A b \in blocks : \A f \in owned :
        Bytes(b) \cap Frames!FrameBytes(f) = {}
=============================================================================
