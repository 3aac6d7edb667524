---------------------------- MODULE MemoryProofs ----------------------------
(***************************************************************************)
(* Theorems about Heap, and about Memory, which composes it with Pmm and   *)
(* the page tables: for every memory map, every framebuffer, every size of *)
(* page, table and heap, and every sequence of requests.                   *)
(*                                                                         *)
(* What holds of Pmm is taken from PmmProofs; that a page table is one     *)
(* more holder of a frame is shown here.                                   *)
(***************************************************************************)
EXTENDS Memory, FiniteSetTheorems, TLAPS

----------------------------------------------------------------------------
(* The heap.  The watermark is the invariant: everything that was handed   *)
(* out ends at or below next_free, so a new block, which starts there,     *)
(* meets none.                                                             *)

Bounds ==
    /\ heap_start \in Nat /\ heap_end \in Nat /\ next_free \in Nat
    /\ heap_start <= next_free /\ next_free <= heap_end
    /\ heap_end + 3 < AddressSpace
    /\ heap_end % 4 = 0

Below ==
    \A b \in blocks :
        /\ b \in [at : Nat, size : Nat]
        /\ b.at % 4 = 0
        /\ heap_start <= b.at /\ b.at + b.size <= next_free

Apart ==
    \A b, d \in blocks :
        b # d => b.at + b.size <= d.at \/ d.at + d.size <= b.at

HeapInv == Bounds /\ Below /\ Apart

(* Before heap_init the heap is empty; afterwards its end is fixed.        *)
Unset == heap_end = 0 => heap_start = 0 /\ next_free = 0 /\ blocks = {}

----------------------------------------------------------------------------
(* Rounding up to a word, below an end that is a multiple of 4.            *)
LEMMA AlignFacts ==
    ASSUME NEW a \in Nat, NEW e \in Nat, a <= e, e + 3 < AddressSpace, e % 4 = 0
    PROVE  /\ AlignUp(a) \in Nat /\ AlignUp(a) % 4 = 0
           /\ a <= AlignUp(a) /\ AlignUp(a) <= e
  <1>1. Plus(a, 3) = a + 3
    BY AddressSpaceAssumption DEF Plus
  <1>2. /\ ((a + 3) \div 4) * 4 \in Nat /\ (((a + 3) \div 4) * 4) % 4 = 0
        /\ a <= ((a + 3) \div 4) * 4 /\ ((a + 3) \div 4) * 4 <= e
    OBVIOUS
  <1> QED  BY <1>1, <1>2 DEF AlignUp

(* A request that passes both tests did not wrap.                          *)
LEMMA FitsFacts ==
    ASSUME NEW at \in Nat, NEW size \in 0 .. AddressSpace - 1,
           at < AddressSpace, heap_end \in Nat, heap_end < AddressSpace,
           size > 0, Fits(at, size)
    PROVE  Plus(at, size) = at + size /\ at + size <= heap_end
  BY AddressSpaceAssumption DEF Fits, Plus

LEMMA HeapInvInit == HeapUnset => HeapInv /\ Unset
  BY AddressSpaceAssumption DEF HeapUnset, HeapInv, Bounds, Below, Apart, Unset

LEMMA InitStep ==
    ASSUME HeapInv, Unset, NEW start \in Nat, NEW size \in Nat,
           start % 4 = 0, size % 4 = 0, start + size + 3 < AddressSpace,
           heap_init(start, size)
    PROVE  HeapInv' /\ Unset'
  <1>1. /\ heap_start' = start /\ heap_end' = start + size /\ next_free' = start
        /\ blocks' = {}
    BY DEF heap_init, Unset
  <1>2. (start + size) % 4 = 0
    OBVIOUS
  <1>3. Bounds'
    BY <1>1, <1>2, AddressSpaceAssumption DEF Bounds
  <1>4. Unset'
    BY <1>1 DEF Unset
  <1> QED  BY <1>1, <1>3, <1>4 DEF HeapInv, Below, Apart

LEMMA KmallocStep ==
    ASSUME HeapInv, Unset, heap_end > 0, NEW size \in Requests, kmalloc(size)
    PROVE  HeapInv' /\ Unset'
  <1> DEFINE at == AlignUp(next_free)
  <1>0. size \in 0 .. AddressSpace - 1 /\ size \in Nat /\ size > 0
    BY RequestsAssumption, AddressSpaceAssumption DEF kmalloc
  <1>1. /\ heap_start \in Nat /\ heap_end \in Nat /\ next_free \in Nat
        /\ heap_start <= next_free /\ next_free <= heap_end
        /\ heap_end + 3 < AddressSpace /\ heap_end % 4 = 0
    BY DEF HeapInv, Bounds
  <1>2. at \in Nat /\ at % 4 = 0 /\ next_free <= at /\ at <= heap_end
    BY <1>1, AlignFacts
  <1>3. UNCHANGED <<heap_start, heap_end>>
    BY DEF kmalloc
  <1>4. CASE Fits(at, size)
    <2>1. Plus(at, size) = at + size /\ at + size <= heap_end
      BY <1>0, <1>1, <1>2, <1>4, FitsFacts, AddressSpaceAssumption
    <2>2. /\ next_free' = at + size
          /\ blocks' = blocks \cup {[at |-> at, size |-> size]}
      BY <1>4, <2>1 DEF kmalloc
    <2> HIDE DEF at
    <2>3. \A b \in blocks :
             /\ b.at \in Nat /\ b.size \in Nat /\ b.at % 4 = 0
             /\ heap_start <= b.at /\ b.at + b.size <= next_free
      BY DEF HeapInv, Below
    <2>4. Bounds'
      BY <1>0, <1>1, <1>2, <1>3, <2>1, <2>2 DEF Bounds
    <2>5. Below'
      <3>1. ASSUME NEW b \in blocks
            PROVE  b.at + b.size <= at + size
        BY <1>0, <1>1, <1>2, <2>3
      <3> QED  BY <1>0, <1>1, <1>2, <1>3, <2>2, <2>3, <3>1 DEF Below, HeapInv
    <2>6. Apart'
      <3>1. ASSUME NEW b \in blocks
            PROVE  b.at + b.size <= at
        BY <1>1, <1>2, <2>3
      <3> QED  BY <2>2, <3>1 DEF Apart, HeapInv
    <2>7. Unset'
      BY <1>1, <1>3 DEF Unset
    <2> QED  BY <2>4, <2>5, <2>6, <2>7 DEF HeapInv
  <1>5. CASE ~ Fits(at, size)
    <2>1. next_free' = at /\ blocks' = blocks
      BY <1>5 DEF kmalloc
    <2> HIDE DEF at
    <2>2. \A b \in blocks : b.at \in Nat /\ b.size \in Nat /\ b.at + b.size <= next_free
      BY DEF HeapInv, Below
    <2>3. \A b \in blocks : b.at + b.size <= at
      BY <1>1, <1>2, <2>2
    <2> QED
      BY <1>1, <1>2, <1>3, <2>1, <2>3 DEF HeapInv, Bounds, Below, Apart, Unset
  <1> QED  BY <1>4, <1>5

LEMMA HeapInvariant == HeapSpec => []HeapInv
  <1>1. HeapInv /\ Unset /\ [HeapNext]_heapVars => (HeapInv /\ Unset)'
    <2> SUFFICES ASSUME HeapInv, Unset, [HeapNext]_heapVars PROVE HeapInv' /\ Unset'
      OBVIOUS
    <2>1. CASE UNCHANGED heapVars
      BY <2>1 DEF heapVars, HeapInv, Bounds, Below, Apart, Unset
    <2>2. ASSUME NEW p \in Places, heap_init(p[1], p[2])
          PROVE  HeapInv' /\ Unset'
      <3>1. /\ p[1] \in Nat /\ p[2] \in Nat /\ p[1] % 4 = 0 /\ p[2] % 4 = 0
            /\ p[1] + p[2] + 3 < AddressSpace
        BY PlacesAssumption
      <3> QED  BY <2>2, <3>1, InitStep
    <2> QED  BY <2>1, <2>2, KmallocStep DEF HeapNext
  <1> QED  BY <1>1, HeapInvInit, PTL DEF HeapSpec

----------------------------------------------------------------------------
(* The watermark stays between the ends of the heap: heap_get_used never   *)
(* exceeds heap_get_size, although failed requests move it, too.           *)
THEOREM HeapTypes == HeapSpec => []HeapTypeOK
  <1>1. HeapInv => HeapTypeOK
    BY DEF HeapInv, Bounds, Below, HeapTypeOK
  <1> QED  BY <1>1, HeapInvariant, PTL

LEMMA InvBlocksApart ==
    ASSUME HeapInv
    PROVE  BlocksApart
  <1>1. heap_start \in Nat /\ heap_end \in Nat /\ next_free \in Nat /\ next_free <= heap_end
    BY DEF HeapInv, Bounds
  <1>2. \A b \in blocks :
           /\ b.at \in Nat /\ b.size \in Nat /\ b.at % 4 = 0
           /\ heap_start <= b.at /\ b.at + b.size <= next_free
    BY DEF HeapInv, Below
  <1>3. ASSUME NEW b \in blocks
        PROVE  Bytes(b) \subseteq heap_start .. heap_end - 1
    BY <1>1, <1>2 DEF Bytes
  <1>4. ASSUME NEW b \in blocks, NEW d \in blocks, b # d
        PROVE  Bytes(b) \cap Bytes(d) = {}
    <2>1. b.at + b.size <= d.at \/ d.at + d.size <= b.at
      BY <1>4 DEF HeapInv, Apart
    <2> QED  BY <1>2, <2>1 DEF Bytes
  <1> QED  BY <1>2, <1>3, <1>4 DEF BlocksApart

(* Blocks lie inside the heap, are aligned, and never overlap, for every   *)
(* sequence of requests of every size.                                     *)
THEOREM HeapBlocksApart == HeapSpec => []BlocksApart
  BY InvBlocksApart, HeapInvariant, PTL

----------------------------------------------------------------------------
(* The frames.  What is proved of Pmm holds of the frames of Memory.       *)
Laws == INSTANCE PmmProofs

LEMMA LawsApply ==
    Laws!SizesAssumption /\ Laws!MapsAssumption /\ Laws!KernelInRam
  <1>1. Laws!SizesAssumption
    BY FramesAssumption DEF Laws!SizesAssumption, Frames!SizesAssumption
  <1>2. Laws!MapsAssumption
    BY FramesAssumption
       DEF Laws!MapsAssumption, Frames!MapsAssumption, Laws!Entries,
           Frames!Entries, Laws!Addresses, Frames!Addresses
  <1>3. Laws!KernelInRam
    BY FramesAssumption
       DEF Laws!KernelInRam, Frames!KernelInRam, Laws!NoMap, Frames!NoMap,
           Laws!ProtectedEnd, Frames!ProtectedEnd, Laws!FrameEnd, Frames!FrameEnd,
           Laws!RegionEnd, Frames!RegionEnd, Laws!BitmapSize, Frames!BitmapSize,
           Laws!Plus, Frames!Plus
  <1> QED  BY <1>1, <1>2, <1>3

FramesInv == Laws!PmmInv /\ Laws!Covers /\ Laws!Top

LEMMA FramesInit == Frames!Init => FramesInv
  <1>1. Frames!Init => Laws!Init
    BY DEF Frames!Init, Laws!Init
  <1> QED
    BY <1>1, LawsApply, Laws!PmmInvInit, Laws!CountInit, Laws!TopInit
       DEF FramesInv

LEMMA BootLaw == Frames!Boot => Laws!Boot
  <1>1. Frames!InitWithoutMap => Laws!InitWithoutMap
    BY DEF Frames!InitWithoutMap, Laws!InitWithoutMap, Frames!NoMap, Laws!NoMap
  <1>2. Frames!MeasureRegion => Laws!MeasureRegion
    BY DEF Frames!MeasureRegion, Laws!MeasureRegion, Frames!RegionEnd,
           Laws!RegionEnd, Frames!Plus, Laws!Plus
  <1>3. Frames!Place => Laws!Place
    BY DEF Frames!Place, Laws!Place, Frames!BitmapSize, Laws!BitmapSize,
           Frames!NoMap, Laws!NoMap
  <1>4. \A e : Frames!Region(e) = Laws!Region(e)
    BY DEF Frames!Region, Laws!Region, Frames!FrameStart, Laws!FrameStart,
           Frames!FrameEnd, Laws!FrameEnd, Frames!RegionEnd, Laws!RegionEnd,
           Frames!Plus, Laws!Plus
  <1>5. Frames!FreeRegion => Laws!FreeRegion
    BY <1>4 DEF Frames!FreeRegion, Laws!FreeRegion, Frames!Cardinality, Laws!Cardinality
  <1>6. Frames!Protect => Laws!Protect
    BY DEF Frames!Protect, Laws!Protect, Frames!Protected, Laws!Protected,
           Frames!ProtectedEnd, Laws!ProtectedEnd, Frames!BitmapSize,
           Laws!BitmapSize, Frames!Cardinality, Laws!Cardinality
  <1> QED
    BY <1>1, <1>2, <1>3, <1>5, <1>6 DEF Frames!Boot, Laws!Boot

(* Booting, and the calls of callers.                                      *)
LEMMA FramesStep ==
    ASSUME FramesInv,
           \/ Frames!Boot \/ Frames!pmm_alloc_frame \/ Frames!pmm_free_frame
           \/ UNCHANGED pmmVars
    PROVE  FramesInv'
  <1>1. [Laws!Next]_(Laws!pmmVars)
    <2>1. Frames!Boot => Laws!Boot
      BY BootLaw
    <2>2. Frames!pmm_alloc_frame => Laws!pmm_alloc_frame
      BY DEF Frames!pmm_alloc_frame, Laws!pmm_alloc_frame, Frames!Free,
         Laws!Free, Frames!IsFirstFree, Laws!IsFirstFree, Frames!Take, Laws!Take
    <2>3. Frames!pmm_free_frame => Laws!pmm_free_frame
      BY DEF Frames!pmm_free_frame, Laws!pmm_free_frame, Frames!Free, Laws!Free,
         Frames!Give, Laws!Give
    <2> QED  BY <2>1, <2>2, <2>3 DEF Laws!Next, pmmVars, Laws!pmmVars
  <1> QED  BY <1>1, LawsApply, Laws!PmmStep DEF FramesInv

(* A page table takes a frame.                                             *)
LEMMA FramesClaim ==
    ASSUME FramesInv, pc = "ready", NEW f \in Frames!Free, Frames!Take(f),
           UNCHANGED <<mmap, pc, entry, highest_addr, total_frames, owned>>
    PROVE  FramesInv'
  <1>1. f \in Laws!Free /\ Laws!Take(f)
    BY DEF Frames!Free, Laws!Free, Frames!Take, Laws!Take
  <1> QED  BY <1>1, LawsApply, Laws!ClaimStep DEF FramesInv

LEMMA FramesTypes ==
    ASSUME FramesInv
    PROVE  /\ Frames!TypeOK
           /\ owned \subseteq used /\ owned \subseteq 0 .. total_frames - 1
           /\ pc # "ready" => owned = {}
           /\ Frames!NoMap = mmap => total_frames = 0 \/ pc = "measure"
  <1>1. Frames!TypeOK
    BY LawsApply, Laws!PmmInvTypes
       DEF FramesInv, Laws!TypeOK, Frames!TypeOK, Laws!Addresses, Frames!Addresses
  <1> QED
    BY <1>1 DEF FramesInv, Laws!PmmInv, Laws!Holders, Laws!Walk, Laws!NoMap,
                Frames!NoMap

----------------------------------------------------------------------------
(* Pages, tables and the place of the heap.                                *)
PageCount == AddressSpace \div FrameSize

LEMMA SizeFacts ==
    /\ FrameSize \in Nat \ {0} /\ AddressSpace \in Nat \ {0}
    /\ EntriesPerTable \in Nat \ {0} /\ StaticTables \in Nat \ {0}
    /\ HeapSize \in Nat \ {0}
    /\ PageCount \in Nat /\ PageCount * FrameSize = AddressSpace
    /\ PageCount % EntriesPerTable = 0
    /\ Pages = 0 .. PageCount - 1
    /\ StaticPages \in Nat /\ StaticPages < PageCount
  <1>1. /\ FrameSize \in Nat \ {0} /\ AddressSpace \in Nat \ {0}
        /\ EntriesPerTable \in Nat \ {0} /\ StaticTables \in Nat \ {0}
        /\ HeapSize \in Nat \ {0}
    BY FramesAssumption, TablesAssumption, PagesAssumption
       DEF Frames!SizesAssumption
  <1>2. PageCount \in Nat /\ PageCount * FrameSize = AddressSpace
    <2>1. AddressSpace % FrameSize = 0
      BY PagesAssumption
    <2> QED  BY <1>1, <2>1 DEF PageCount
  <1>3. PageCount % EntriesPerTable = 0 /\ Pages = 0 .. PageCount - 1
    BY TablesAssumption DEF PageCount, Pages
  <1>4. StaticPages \in Nat /\ StaticPages < PageCount
    <2>1. StaticTables * EntriesPerTable \in Nat
      BY <1>1
    <2>2. StaticPages * FrameSize < PageCount * FrameSize
      BY <1>2, PagesAssumption
    <2>3. ASSUME NEW a \in Nat, NEW b \in Nat, NEW n \in Nat \ {0}, a * n < b * n
          PROVE  a < b
      BY <2>3
    <2> QED  BY <1>1, <1>2, <2>1, <2>2, <2>3 DEF StaticPages
  <1> QED  BY <1>1, <1>2, <1>3, <1>4

(* A page and its place in the tables.                                     *)
LEMMA PageFacts ==
    ASSUME NEW p \in Pages
    PROVE  /\ pd_index(p) \in Directory /\ pd_index(p) \in Nat
           /\ pt_index(p) \in Indices
           /\ p = pd_index(p) * EntriesPerTable + pt_index(p)
           /\ p < StaticPages <=> pd_index(p) < StaticTables
  <1>1. ASSUME NEW a \in Nat, NEW n \in Nat \ {0}
        PROVE  /\ a \div n \in Nat /\ a % n \in 0 .. n - 1
               /\ a = (a \div n) * n + (a % n)
    OBVIOUS
  <1>2. ASSUME NEW a \in Nat, NEW n \in Nat \ {0}, NEW b \in Nat
        PROVE  a < b * n <=> a \div n < b
    OBVIOUS
  <1>3. p \in Nat /\ p < PageCount
    BY SizeFacts
  <1>4. /\ PageCount \div EntriesPerTable \in Nat
        /\ PageCount = (PageCount \div EntriesPerTable) * EntriesPerTable
    <2>1. PageCount % EntriesPerTable = 0 /\ PageCount \in Nat
      BY SizeFacts
    <2> QED  BY <2>1, SizeFacts
  <1>5. pd_index(p) < PageCount \div EntriesPerTable
    BY <1>2, <1>3, <1>4, SizeFacts DEF pd_index
  <1>6. pd_index(p) \in Directory
    <2>1. Directory = 0 .. (PageCount \div EntriesPerTable) - 1
      BY DEF Directory, PageCount
    <2>2. pd_index(p) \in Nat
      BY <1>1, <1>3, SizeFacts DEF pd_index
    <2> QED  BY <1>4, <1>5, <2>1, <2>2
  <1> QED
    BY <1>1, <1>2, <1>3, <1>6, SizeFacts DEF pd_index, pt_index, Indices, StaticPages

(* An entry and the page it is for.                                        *)
LEMMA EntryFacts ==
    ASSUME NEW d \in Nat, NEW i \in Indices
    PROVE  /\ d * EntriesPerTable + i \in Nat
           /\ d < StaticTables => d * EntriesPerTable + i \in Pages
           /\ d \in Directory => d * EntriesPerTable + i \in Pages
  <1>1. i \in Nat /\ i < EntriesPerTable
    BY SizeFacts DEF Indices
  <1>2. ASSUME NEW n \in Nat \ {0}, NEW j \in Nat, j < n, NEW t \in Nat, d < t
        PROVE  d * n + j < t * n /\ d * n + j \in Nat
    BY <1>2
  <1>3. d * EntriesPerTable + i \in Nat
    BY <1>1, SizeFacts
  <1>4. CASE d < StaticTables
    BY <1>1, <1>2, <1>3, <1>4, SizeFacts DEF StaticPages
  <1>5. CASE d \in Directory
    <2>1. /\ PageCount \div EntriesPerTable \in Nat
          /\ PageCount = (PageCount \div EntriesPerTable) * EntriesPerTable
      <3>1. PageCount % EntriesPerTable = 0 /\ PageCount \in Nat
        BY SizeFacts
      <3> QED  BY <3>1, SizeFacts
    <2>2. d < PageCount \div EntriesPerTable
      BY <1>5, <2>1 DEF Directory, PageCount
    <2> QED  BY <1>1, <1>2, <1>3, <1>4, <2>1, <2>2, SizeFacts
  <1> QED  BY <1>3, <1>4, <1>5

(* Rounding up to a page.                                                  *)
LEMMA PageUpFacts ==
    ASSUME NEW a \in Nat
    PROVE  PageUp(a) \in Nat /\ a <= PageUp(a) /\ PageUp(a) % 4 = 0
  <1>1. ASSUME NEW n \in Nat \ {0}
        PROVE  /\ (a + n - 1) \div n \in Nat
               /\ a <= ((a + n - 1) \div n) * n
    OBVIOUS
  <1>2. ASSUME NEW q \in Nat, NEW n \in Nat, n % 4 = 0
        PROVE  q * n \in Nat /\ (q * n) % 4 = 0
    <2>1. n = 4 * (n \div 4) /\ n \div 4 \in Nat
      BY <1>2
    <2>2. PICK h \in Nat : n = 4 * h
      BY <2>1
    <2>3. q * n = 4 * (q * h) /\ q * h \in Nat
      BY <2>2
    <2>4. ASSUME NEW x \in Nat PROVE 4 * x \in Nat /\ (4 * x) % 4 = 0
      OBVIOUS
    <2>5. 4 * (q * h) \in Nat /\ (4 * (q * h)) % 4 = 0
      BY <2>3, <2>4
    <2> QED  BY ONLY <2>3, <2>5
  <1> QED  BY <1>1, <1>2, SizeFacts, PagesAssumption DEF PageUp

(* The heap begins at a page behind the bitmap and ends where the static   *)
(* tables end, or below.  It begins at 0 only without a memory map.        *)
LEMMA HeapPlaceFacts ==
    ASSUME FramesInv, pc = "ready"
    PROVE  /\ HeapPlace \in Nat /\ HeapPlace % 4 = 0
           /\ HeapPlace + HeapSize <= StaticPages * FrameSize
           /\ HeapPlace = 0 => mmap = Frames!NoMap
  <1>1. CASE mmap = Frames!NoMap
    <2>1. HeapPlace = PageUp(0)
      BY <1>1 DEF HeapPlace, Frames!BitmapEnd
    <2>2. PageUp(0) = 0
      <3>1. ASSUME NEW n \in Nat \ {0} PROVE (n - 1) \div n = 0
        OBVIOUS
      <3>2. (0 + FrameSize - 1) \div FrameSize = 0
        BY <3>1, SizeFacts
      <3> QED  BY <3>2, SizeFacts DEF PageUp
    <2> QED  BY <1>1, <2>1, <2>2, SizeFacts, PagesAssumption
  <1>2. CASE mmap # Frames!NoMap
    <2>1. PICK k \in DOMAIN mmap :
              mmap[k].available /\ Frames!FrameEnd(mmap[k]) = total_frames
      BY <1>2 DEF FramesInv, Laws!Top, Laws!FrameEnd, Frames!FrameEnd,
                  Laws!RegionEnd, Frames!RegionEnd, Laws!Plus, Frames!Plus,
                  Laws!NoMap, Frames!NoMap
    <2>2. mmap \in Maps /\ total_frames \in Nat
      BY FramesTypes DEF Frames!TypeOK
    <2>3. HeapPlace = PageUp(KernelEnd + Frames!BitmapSize(total_frames))
      BY <1>2 DEF HeapPlace, Frames!BitmapEnd
    <2>4. HeapPlace + HeapSize <= StaticPages * FrameSize
      BY <2>1, <2>2, <2>3, KernelIsLow
    <2>5. total_frames # 0
      <3>1. Laws!Walk
        BY DEF FramesInv, Laws!PmmInv
      <3>2. PICK j \in DOMAIN mmap :
                /\ mmap[j].available
                /\ \A total \in Frames!FrameEnd(mmap[j]) .. AddressSpace :
                      Frames!ProtectedEnd(total) \in 1 .. total
        BY <1>2, <2>2, FramesAssumption DEF Frames!KernelInRam
      <3>3. Frames!FrameEnd(mmap[j]) <= total_frames
        <4>1. j \in 1 .. Len(mmap)
          BY <2>2, <3>2, FramesAssumption DEF Frames!MapsAssumption
        <4> QED
          BY <3>1, <3>2, <4>1 DEF Laws!Walk, Laws!FrameEnd, Frames!FrameEnd,
             Laws!RegionEnd, Frames!RegionEnd, Laws!Plus, Frames!Plus
      <3>4. total_frames <= AddressSpace
        BY DEF FramesInv, Laws!PmmInv, Laws!Types
      <3>5. Frames!ProtectedEnd(total_frames) \in 1 .. total_frames
        <4>1. Frames!FrameEnd(mmap[j]) \in Int
          <5>1. mmap[j] \in Frames!Entries
            BY <2>2, <3>2, FramesAssumption DEF Frames!MapsAssumption
          <5>2. \A a \in Nat, n \in Nat \ {0} : a % n \in Nat /\ a \div n \in Nat
            OBVIOUS
          <5>3. mmap[j].base \in Nat /\ mmap[j].length \in Nat
            BY <5>1, SizeFacts DEF Frames!Entries, Frames!Addresses
          <5>4. Frames!RegionEnd(mmap[j]) \in Nat
            BY <5>2, <5>3, SizeFacts DEF Frames!RegionEnd, Frames!Plus
          <5> QED  BY <5>2, <5>4, SizeFacts DEF Frames!FrameEnd
        <4> QED  BY <2>2, <3>2, <3>3, <3>4, <4>1, SizeFacts
      <3> QED  BY <2>2, <3>5
    <2>6. KernelEnd + Frames!BitmapSize(total_frames) \in Nat \ {0}
      <3>1. KernelEnd \in Nat
        BY FramesAssumption DEF Frames!SizesAssumption
      <3>2. Frames!BitmapSize(total_frames) \in Nat \ {0}
        BY <2>2, <2>5 DEF Frames!BitmapSize
      <3> QED  BY <3>1, <3>2
    <2> QED  BY <2>3, <2>4, <2>6, PageUpFacts
  <1> QED  BY <1>1, <1>2

LEMMA DivFacts ==
    ASSUME NEW a \in Nat, NEW n \in Nat \ {0}
    PROVE  /\ a \div n \in Nat /\ a % n \in 0 .. n - 1
           /\ a < n => a \div n = 0 /\ a % n = a
  OBVIOUS

LEMMA DivOrder ==
    ASSUME NEW a \in Nat, NEW b \in Nat, NEW n \in Nat \ {0}
    PROVE  /\ a <= b => a \div n <= b \div n
           /\ a < b * n => a \div n < b
           /\ a + n <= b => a \div n < b \div n
  OBVIOUS

(* Every frame of RAM is a page.                                           *)
LEMMA FramesArePages ==
    ASSUME FramesInv, pc = "ready"
    PROVE  total_frames \in Nat /\ 0 .. total_frames - 1 \subseteq Pages
  <1>1. total_frames \in Nat /\ mmap \in Maps
    BY FramesTypes DEF Frames!TypeOK
  <1>2. CASE mmap = Frames!NoMap
    BY <1>1, <1>2, FramesTypes
  <1>3. CASE mmap # Frames!NoMap
    <2>1. PICK k \in DOMAIN mmap : Frames!FrameEnd(mmap[k]) = total_frames
      BY <1>3 DEF FramesInv, Laws!Top, Laws!FrameEnd, Frames!FrameEnd,
                  Laws!RegionEnd, Frames!RegionEnd, Laws!Plus, Frames!Plus,
                  Laws!NoMap, Frames!NoMap
    <2>2. mmap[k].base \in Nat /\ mmap[k].length \in Nat
      <3>1. mmap[k] \in Frames!Entries
        BY <1>1, <2>1, FramesAssumption DEF Frames!MapsAssumption
      <3> QED  BY <3>1, SizeFacts DEF Frames!Entries, Frames!Addresses
    <2>3. Frames!RegionEnd(mmap[k]) \in 0 .. AddressSpace - 1
      <3>1. mmap[k].base + mmap[k].length \in Nat
        BY <2>2
      <3> QED  BY <3>1, SizeFacts, DivFacts DEF Frames!RegionEnd, Frames!Plus
    <2>4. Frames!RegionEnd(mmap[k]) \div FrameSize <= AddressSpace \div FrameSize
      <3>1. /\ Frames!RegionEnd(mmap[k]) \in Nat
            /\ Frames!RegionEnd(mmap[k]) <= AddressSpace
        BY <2>3, SizeFacts
      <3> QED  BY <3>1, SizeFacts, DivOrder
    <2>5. total_frames <= PageCount
      BY <2>1, <2>4 DEF Frames!FrameEnd, PageCount
    <2> QED  BY <1>1, <2>5, SizeFacts
  <1> QED  BY <1>2, <1>3

(* The pages of a framebuffer: all those from FirstPage to LastPage, unless*)
(* its end wraps.                                                          *)
LEMMA ScreenFacts ==
    ASSUME mboot \in Screens
    PROVE  /\ FirstPage \in Pages /\ LastPage \in Pages
           /\ mboot.base \in Nat /\ mboot.size \in Nat
           /\ ~ EndsAtTheTop =>
                 /\ FirstPage <= LastPage
                 /\ \A a \in mboot.base .. mboot.base + mboot.size - 1 :
                       /\ a \div FrameSize \in Pages
                       /\ FirstPage <= a \div FrameSize /\ a \div FrameSize < LastPage
  <1>1. /\ mboot.base \in Nat /\ mboot.base < AddressSpace
        /\ mboot.size \in Nat /\ mboot.base + mboot.size <= AddressSpace
    BY ScreensAssumption, SizeFacts DEF ScreenInfo
  <1>3. ASSUME NEW a \in Nat, a < AddressSpace
        PROVE  a \div FrameSize \in Pages
    <2>1. a \div FrameSize < PageCount /\ a \div FrameSize \in Nat
      BY <1>3, SizeFacts, DivFacts, DivOrder
    <2> QED  BY <2>1, SizeFacts
  <1>4. PICK top \in Nat : top = mboot.base + (mboot.size + FrameSize - 1)
    BY <1>1, SizeFacts
  <1>5. LastPage = (top % AddressSpace) \div FrameSize
    BY <1>4 DEF LastPage, Frames!Plus
  <1>6. FirstPage \in Pages /\ LastPage \in Pages
    <2>1. top % AddressSpace \in 0 .. AddressSpace - 1
      BY SizeFacts, DivFacts
    <2>2. top % AddressSpace \in Nat /\ top % AddressSpace < AddressSpace
      BY <2>1, SizeFacts
    <2>3. LastPage \in Pages
      BY <1>3, <1>5, <2>2
    <2> QED  BY <1>1, <1>3, <2>3 DEF FirstPage
  <1>7. CASE top < AddressSpace
    <2>1. LastPage = top \div FrameSize
      BY <1>5, <1>7, SizeFacts, DivFacts
    <2>2. FirstPage <= LastPage
      <3>1. mboot.base <= top
        BY <1>1, <1>4, SizeFacts
      <3> QED  BY <1>1, <2>1, <3>1, SizeFacts, DivOrder DEF FirstPage
    <2>3. ASSUME NEW a \in mboot.base .. mboot.base + mboot.size - 1
          PROVE  /\ a \div FrameSize \in Pages
                 /\ FirstPage <= a \div FrameSize /\ a \div FrameSize < LastPage
      <3>1. a \in Nat /\ mboot.base <= a /\ a + FrameSize <= top /\ a < AddressSpace
        BY <1>1, <1>4, SizeFacts
      <3>2. a \div FrameSize < top \div FrameSize
        BY <3>1, SizeFacts, DivOrder
      <3>3. mboot.base \div FrameSize <= a \div FrameSize
        BY <1>1, <3>1, SizeFacts, DivOrder
      <3> QED  BY <1>3, <2>1, <3>1, <3>2, <3>3 DEF FirstPage
    <2> QED  BY <1>1, <1>6, <2>2, <2>3
  <1>8. CASE ~ (top < AddressSpace)
    <2>1. PageCount * FrameSize >= FrameSize
      <3>1. PageCount \in Nat /\ PageCount >= 1
        BY SizeFacts
      <3>2. ASSUME NEW c \in Nat, c >= 1, NEW n \in Nat PROVE c * n >= n
        BY <3>2
      <3> QED  BY <3>1, <3>2, SizeFacts
    <2>2. top - AddressSpace \in Nat /\ top - AddressSpace < FrameSize
      BY <1>1, <1>4, <1>8, SizeFacts
    <2>3. top % AddressSpace = top - AddressSpace
      <3>1. ASSUME NEW a \in Nat, NEW n \in Nat \ {0}, a >= n, a - n < n
            PROVE  a % n = a - n
        BY <3>1
      <3>2. top >= AddressSpace /\ top - AddressSpace < AddressSpace
        BY <1>8, <2>1, <2>2, SizeFacts
      <3> QED  BY <3>1, <3>2, SizeFacts
    <2>4. LastPage = 0
      <3>1. LastPage = (top - AddressSpace) \div FrameSize
        BY <1>5, <2>3
      <3> QED  BY <2>2, <3>1, SizeFacts, DivFacts
    <2> QED  BY <1>1, <1>6, <2>4 DEF EndsAtTheTop
  <1> QED  BY <1>7, <1>8

----------------------------------------------------------------------------
(* The invariant of the boot.                                              *)

Shapes ==
    /\ page_directory \in [Directory -> Tables \cup {NoTable}]
    /\ table \in [Tables -> [Indices -> Pages \cup {None, Junk}]]
    /\ stage \in {"pmm", "paging", "heap", "fb", "map", "up", "fault"}
    /\ addr \in Pages
    /\ fb_active \in BOOLEAN
    /\ mboot \in Screens

(* How far the boot is: kernel_main's steps come one after the other.      *)
Order ==
    /\ stage # "pmm" => pc = "ready"
    /\ stage \in {"pmm", "paging"} =>
          \A d \in Directory : page_directory[d] = NoTable
    /\ stage \in {"pmm", "paging", "heap"} => HeapUnset
    /\ stage \notin {"pmm", "paging", "heap"} =>
          heap_start = HeapPlace /\ heap_end = HeapPlace + HeapSize
    /\ fb_active => stage = "up"

(* A static table is where paging_init put it, and complete.  Any other    *)
(* lies in a frame of RAM that is neither free nor a caller's, serves one  *)
(* directory entry, and maps its pages to themselves or nowhere.           *)
StaticTable(d) ==
    /\ page_directory[d] = Static(d)
    /\ \A i \in Indices : table[Static(d)][i] = d * EntriesPerTable + i
TableOf(d) ==
    LET t == page_directory[d]
    IN  \/ t = NoTable
        \/ /\ ~ t.static
           /\ t.at \in 0 .. total_frames - 1
           /\ t.at \notin Frames!Free \cup owned
           /\ \A e \in Directory \ {d} : page_directory[e] # t
           /\ \A i \in Indices : table[t][i] \in {d * EntriesPerTable + i, None}
Mappings ==
    stage \notin {"pmm", "paging"} =>
        \A d \in Directory :
            IF d < StaticTables THEN StaticTable(d) ELSE TableOf(d)

(* paging_identity_map_region: the pages behind the loop are mapped.       *)
Mapping ==
    stage = "map" =>
        /\ Usable
        /\ EndsAtTheTop \/ (FirstPage <= addr /\ addr <= LastPage)
        /\ \A p \in Pages : FirstPage <= p /\ p < addr => Lookup(p) = p

MemoryInv ==
    FramesInv /\ HeapInv /\ Unset /\ Shapes /\ Order /\ Mappings /\ Mapping

LEMMA TableFacts ==
    /\ \A d : Static(d).static /\ Static(d).at = d /\ Static(d) # NoTable
    /\ ~ NoTable.static
  BY DEF Static, NoTable

(* Paging is on: every page maps to itself or nowhere.                     *)
LEMMA LookupFacts ==
    ASSUME MemoryInv, stage \notin {"pmm", "paging"}, NEW p \in Pages
    PROVE  /\ Lookup(p) \in {p, None}
           /\ p < StaticPages => Lookup(p) = p
  <1>1. /\ pd_index(p) \in Directory /\ pt_index(p) \in Indices
        /\ p = pd_index(p) * EntriesPerTable + pt_index(p)
        /\ p < StaticPages <=> pd_index(p) < StaticTables
    BY PageFacts
  <1>2. NoTable # Static(pd_index(p))
    BY DEF NoTable, Static
  <1>3. CASE pd_index(p) < StaticTables
    <2>1. StaticTable(pd_index(p))
      BY <1>1, <1>3 DEF MemoryInv, Mappings
    <2> QED  BY <1>1, <1>2, <2>1 DEF StaticTable, Lookup
  <1>4. CASE ~ (pd_index(p) < StaticTables)
    <2>1. TableOf(pd_index(p))
      BY <1>1, <1>4 DEF MemoryInv, Mappings
    <2> QED  BY <1>1, <1>4, <2>1 DEF TableOf, Lookup
  <1> QED  BY <1>3, <1>4

(* Steps that leave the page tables alone keep them intact, as long as     *)
(* they do not free or give away what a table lies in.                     *)
LEMMA TablesKept ==
    ASSUME MemoryInv, UNCHANGED <<page_directory, table, total_frames>>,
           stage' \notin {"pmm", "paging"} => stage \notin {"pmm", "paging"},
           \A f \in 0 .. total_frames - 1 :
              f \notin Frames!Free \cup owned => f \notin (Frames!Free \cup owned)'
    PROVE  Mappings'
  <1> SUFFICES ASSUME stage \notin {"pmm", "paging"}, NEW d \in Directory
               PROVE  (IF d < StaticTables THEN StaticTable(d) ELSE TableOf(d))'
    BY DEF Mappings
  <1>1. CASE d < StaticTables
    BY <1>1 DEF MemoryInv, Mappings, StaticTable
  <1>2. CASE ~ (d < StaticTables)
    <2>1. TableOf(d)
      BY <1>2 DEF MemoryInv, Mappings
    <2> QED  BY <1>2, <2>1 DEF TableOf
  <1> QED  BY <1>1, <1>2

LEMMA HeapSame ==
    ASSUME HeapInv, Unset, UNCHANGED heapVars
    PROVE  HeapInv' /\ Unset'
  BY DEF heapVars, HeapInv, Bounds, Below, Apart, Unset

LEMMA PlaceSame ==
    ASSUME UNCHANGED <<mmap, total_frames>>
    PROVE  HeapPlace' = HeapPlace
  BY DEF HeapPlace, Frames!BitmapEnd

LEMMA MemoryInit == Init => MemoryInv
  <1> SUFFICES ASSUME Init PROVE MemoryInv
    OBVIOUS
  <1>1. FramesInv
    BY FramesInit DEF Init
  <1>2. HeapInv /\ Unset
    BY HeapInvInit DEF Init
  <1>3. Shapes
    <2>1. 0 \in Pages
      BY SizeFacts
    <2> QED  BY <2>1 DEF Init, Shapes
  <1> QED  BY <1>1, <1>2, <1>3 DEF Init, MemoryInv, Order, Mappings, Mapping

LEMMA PmmInitStep ==
    ASSUME MemoryInv, PmmInit
    PROVE  MemoryInv'
  <1>1. FramesInv'
    BY FramesStep DEF MemoryInv, PmmInit
  <1>2. HeapInv' /\ Unset'
    BY HeapSame DEF MemoryInv, PmmInit
  <1>3. Shapes'
    BY DEF MemoryInv, PmmInit, Shapes, pagingVars
  <1>4. Order'
    BY DEF MemoryInv, PmmInit, Order, pagingVars, heapVars, HeapUnset
  <1> QED
    BY <1>1, <1>2, <1>3, <1>4 DEF MemoryInv, PmmInit, Mappings, Mapping

LEMMA PagingInitStep ==
    ASSUME MemoryInv, PagingInit
    PROVE  MemoryInv'
  <1>1. FramesInv'
    BY FramesStep DEF MemoryInv, PagingInit
  <1>2. HeapInv' /\ Unset'
    BY HeapSame DEF MemoryInv, PagingInit
  <1>3. /\ page_directory' = [d \in Directory |->
                                 IF d < StaticTables THEN Static(d) ELSE NoTable]
        /\ table' = [t \in Tables |->
                        IF t.static
                        THEN [i \in Indices |-> t.at * EntriesPerTable + i]
                        ELSE table[t]]
    BY DEF PagingInit
  <1>4. \A d \in Directory : d < StaticTables => Static(d) \in Tables
    BY SizeFacts DEF Directory, Tables
  <1>5. Shapes'
    <2>1. page_directory' \in [Directory -> Tables \cup {NoTable}]
      BY <1>3, <1>4
    <2>2. ASSUME NEW t \in Tables, t.static
          PROVE  [i \in Indices |-> t.at * EntriesPerTable + i]
                    \in [Indices -> Pages \cup {None, Junk}]
      <3>1. t.at \in Nat /\ t.at < StaticTables
        BY <2>2, SizeFacts DEF Tables, Static, InFrame
      <3> QED  BY <3>1, EntryFacts
    <2>3. table' \in [Tables -> [Indices -> Pages \cup {None, Junk}]]
      BY <1>3, <2>2 DEF MemoryInv, Shapes
    <2> QED  BY <2>1, <2>3 DEF MemoryInv, PagingInit, Shapes
  <1>6. Order'
    BY DEF MemoryInv, PagingInit, Order, pmmVars, heapVars, HeapUnset
  <1>7. Mappings'
    <2> SUFFICES ASSUME NEW d \in Directory
                 PROVE  (IF d < StaticTables THEN StaticTable(d) ELSE TableOf(d))'
      BY DEF Mappings
    <2>1. CASE d < StaticTables
      BY <1>3, <1>4, <2>1 DEF StaticTable, Static
    <2>2. CASE ~ (d < StaticTables)
      BY <1>3, <2>2 DEF TableOf
    <2> QED  BY <2>1, <2>2
  <1>8. Mapping'
    BY DEF PagingInit, Mapping
  <1> QED  BY <1>1, <1>2, <1>5, <1>6, <1>7, <1>8 DEF MemoryInv

LEMMA HeapInitStep ==
    ASSUME MemoryInv, HeapInit
    PROVE  MemoryInv'
  <1>1. FramesInv' /\ FramesInv /\ pc = "ready"
    BY FramesStep DEF MemoryInv, HeapInit, Order
  <1>2. /\ HeapPlace \in Nat /\ HeapPlace % 4 = 0
        /\ HeapPlace + HeapSize + 3 < AddressSpace
    <2>1. /\ HeapPlace \in Nat /\ HeapPlace % 4 = 0
          /\ HeapPlace + HeapSize <= StaticPages * FrameSize
      BY <1>1, HeapPlaceFacts
    <2>2. StaticPages * FrameSize + FrameSize <= AddressSpace
      <3>1. ASSUME NEW a \in Nat, NEW b \in Nat, NEW n \in Nat, a < b
            PROVE  a * n + n <= b * n
        BY <3>1
      <3> QED  BY <3>1, SizeFacts
    <2>3. FrameSize >= 4
      BY SizeFacts, PagesAssumption
    <2>4. StaticPages * FrameSize \in Nat
      BY SizeFacts
    <2> QED  BY <2>1, <2>2, <2>3, <2>4, SizeFacts
  <1>3. HeapInv' /\ Unset'
    BY <1>2, InitStep, SizeFacts, PagesAssumption DEF MemoryInv, HeapInit
  <1>4. Shapes'
    BY DEF MemoryInv, HeapInit, Shapes, pagingVars
  <1>5. Order'
    BY PlaceSame DEF MemoryInv, HeapInit, Order, heap_init, pmmVars, pagingVars
  <1>6. Mappings'
    BY TablesKept DEF HeapInit, pmmVars, pagingVars, Frames!Free
  <1>7. Mapping'
    BY DEF HeapInit, Mapping
  <1> QED  BY <1>1, <1>3, <1>4, <1>5, <1>6, <1>7 DEF MemoryInv

LEMMA FbRejectsStep ==
    ASSUME MemoryInv, FbRejects \/ FbBegins
    PROVE  MemoryInv'
  <1>0. UNCHANGED <<pmmVars, heapVars, pagingVars, mboot, fb_active>>
    BY DEF FbRejects, FbBegins
  <1>1. FramesInv'
    BY <1>0, FramesStep DEF MemoryInv
  <1>2. HeapInv' /\ Unset'
    BY <1>0, HeapSame DEF MemoryInv
  <1>3. /\ FirstPage \in Pages
        /\ EndsAtTheTop \/ FirstPage <= LastPage
    BY ScreenFacts DEF MemoryInv, Shapes
  <1>4. Shapes'
    BY <1>0, <1>3 DEF MemoryInv, FbRejects, FbBegins, Shapes, pagingVars
  <1>5. Order'
    <2>1. HeapPlace' = HeapPlace
      BY <1>0, PlaceSame DEF pmmVars
    <2> QED
      BY <1>0, <2>1 DEF MemoryInv, FbRejects, FbBegins, Order, pmmVars, heapVars
  <1>6. Mappings'
    BY <1>0, TablesKept DEF FbRejects, FbBegins, pmmVars, pagingVars, Frames!Free
  <1>7. Mapping'
    <2>1. CASE FbRejects
      BY <2>1 DEF FbRejects, Mapping
    <2>2. CASE FbBegins
      <3>1. /\ Usable' = Usable /\ FirstPage' = FirstPage /\ LastPage' = LastPage
            /\ EndsAtTheTop' = EndsAtTheTop
        BY <1>0 DEF Usable, FirstPage, LastPage, EndsAtTheTop, Frames!Plus
      <3>2. FirstPage \in Int /\ LastPage \in Int
        BY ScreenFacts, SizeFacts DEF MemoryInv, Shapes
      <3>3. \A p \in Pages : ~ (FirstPage <= p /\ p < FirstPage)
        BY <3>2, SizeFacts
      <3> QED  BY <1>3, <2>2, <3>1, <3>2, <3>3 DEF FbBegins, Mapping
    <2> QED  BY <2>1, <2>2
  <1> QED  BY <1>1, <1>2, <1>4, <1>5, <1>6, <1>7 DEF MemoryInv

(* Setting an entry of a table that is in use: only the page at hand is    *)
(* affected.                                                               *)
LEMMA MapPageStep ==
    ASSUME MemoryInv, MapPage
    PROVE  MemoryInv' /\ \A p \in Pages : Lookup(p) = p => Lookup(p)' = p
  <1> DEFINE e == page_directory[pd_index(addr)]
  <1>0. /\ UNCHANGED <<pmmVars, heapVars, page_directory, mboot, stage, fb_active>>
        /\ stage = "map" /\ addr \in Pages /\ addr < LastPage /\ e # NoTable
        /\ addr' = addr + 1
        /\ table' = [table EXCEPT ![e][pt_index(addr)] = addr]
    BY DEF MapPage, MemoryInv, Shapes
  <1>1. /\ FramesInv'
    BY <1>0, FramesStep DEF MemoryInv
  <1>2. HeapInv' /\ Unset'
    BY <1>0, HeapSame DEF MemoryInv
  <1>3. /\ pd_index(addr) \in Directory /\ pt_index(addr) \in Indices
        /\ addr = pd_index(addr) * EntriesPerTable + pt_index(addr)
    BY <1>0, PageFacts
  <1>4. /\ FirstPage \in Nat /\ LastPage \in Pages /\ LastPage \in Nat /\ addr \in Nat
    BY <1>0, ScreenFacts, SizeFacts DEF MemoryInv, Shapes
  <1>5. e \in Tables
    BY <1>0, <1>3 DEF MemoryInv, Shapes
  <1>6. Shapes'
    <2>1. addr + 1 \in Pages
      BY <1>0, <1>4, SizeFacts
    <2>2. table' \in [Tables -> [Indices -> Pages \cup {None, Junk}]]
      BY <1>0, <1>3, <1>5 DEF MemoryInv, Shapes
    <2> QED  BY <1>0, <2>1, <2>2 DEF MemoryInv, Shapes
  <1>7. Order'
    <2>1. HeapPlace' = HeapPlace
      BY <1>0, PlaceSame DEF pmmVars
    <2> QED  BY <1>0, <2>1 DEF MemoryInv, Order, pmmVars, heapVars
  <1>8. \A d \in Directory \ {pd_index(addr)} : page_directory[d] # e
    <2> SUFFICES ASSUME NEW d \in Directory \ {pd_index(addr)}
                 PROVE  page_directory[d] # e
      OBVIOUS
    <2>1. \A c \in Directory : IF c < StaticTables THEN StaticTable(c) ELSE TableOf(c)
      BY <1>0 DEF MemoryInv, Mappings
    <2>2. CASE pd_index(addr) < StaticTables
      <3>1. e = Static(pd_index(addr))
        BY <1>3, <2>1, <2>2 DEF StaticTable
      <3>2. CASE d < StaticTables
        <4>1. page_directory[d] = Static(d)
          BY <2>1, <3>2 DEF StaticTable
        <4> QED  BY <3>1, <4>1, TableFacts
      <3>3. CASE ~ (d < StaticTables)
        <4>1. ~ page_directory[d].static
          BY <2>1, <3>3, TableFacts DEF TableOf
        <4> QED  BY <3>1, <4>1, TableFacts
      <3> QED  BY <3>2, <3>3
    <2>3. CASE ~ (pd_index(addr) < StaticTables)
      BY <1>0, <1>3, <2>1, <2>3 DEF TableOf
    <2> QED  BY <2>2, <2>3
  <1>9. \A d \in Directory, i \in Indices :
            page_directory[d] # NoTable =>
               table'[page_directory[d]][i] =
                  IF d = pd_index(addr) /\ i = pt_index(addr) THEN addr
                  ELSE table[page_directory[d]][i]
    <2> SUFFICES ASSUME NEW d \in Directory, NEW i \in Indices,
                        page_directory[d] # NoTable
                 PROVE  table'[page_directory[d]][i] =
                            IF d = pd_index(addr) /\ i = pt_index(addr) THEN addr
                            ELSE table[page_directory[d]][i]
      OBVIOUS
    <2>1. page_directory[d] \in Tables
      BY DEF MemoryInv, Shapes
    <2> QED  BY <1>0, <1>3, <1>5, <1>8, <2>1 DEF MemoryInv, Shapes
  <1>10. Mappings'
    <2> SUFFICES ASSUME NEW d \in Directory
                 PROVE  (IF d < StaticTables THEN StaticTable(d) ELSE TableOf(d))'
      BY DEF Mappings
    <2>0. IF d < StaticTables THEN StaticTable(d) ELSE TableOf(d)
      BY <1>0 DEF MemoryInv, Mappings
    <2>1. CASE d < StaticTables
      <3>1. StaticTable(d) /\ page_directory[d] # NoTable
        BY <2>0, <2>1, TableFacts DEF StaticTable
      <3> QED  BY <1>0, <1>3, <1>9, <2>1, <3>1 DEF StaticTable
    <2>2. CASE ~ (d < StaticTables)
      <3>1. CASE page_directory[d] = NoTable
        BY <1>0, <2>2, <3>1 DEF TableOf
      <3>2. CASE page_directory[d] # NoTable
        <4>1. \A i \in Indices :
                 table'[page_directory[d]][i] \in {d * EntriesPerTable + i, None}
          BY <1>3, <1>9, <2>0, <2>2, <3>2 DEF TableOf
        <4>2. /\ page_directory' = page_directory /\ total_frames' = total_frames
              /\ Frames!Free' = Frames!Free /\ owned' = owned
          BY <1>0 DEF pmmVars, Frames!Free
        <4> QED  BY <2>0, <2>2, <3>2, <4>1, <4>2 DEF TableOf
      <3> QED  BY <3>1, <3>2
    <2> QED  BY <2>1, <2>2
  <1>11. \A p \in Pages : Lookup(p) = p => Lookup(p)' = p
    <2> SUFFICES ASSUME NEW p \in Pages, Lookup(p) = p PROVE Lookup(p)' = p
      OBVIOUS
    <2>1. /\ pd_index(p) \in Directory /\ pt_index(p) \in Indices
          /\ p = pd_index(p) * EntriesPerTable + pt_index(p)
      BY PageFacts
    <2>2. page_directory[pd_index(p)] # NoTable
      BY SizeFacts DEF Lookup, None
    <2> QED  BY <1>0, <1>3, <1>9, <2>1, <2>2 DEF Lookup
  <1>12. \A p \in Pages : p < addr + 1 =>
             /\ p < addr \/ p = addr
             /\ p = addr => table'[page_directory[pd_index(p)]][pt_index(p)] = p
    BY <1>0, <1>3, <1>4, <1>9, SizeFacts
  <1>13. Mapping'
    <2>1. /\ Usable' = Usable /\ FirstPage' = FirstPage /\ LastPage' = LastPage
          /\ EndsAtTheTop' = EndsAtTheTop
      BY <1>0 DEF Usable, FirstPage, LastPage, EndsAtTheTop, Frames!Plus
    <2>2. EndsAtTheTop \/ (FirstPage <= addr + 1 /\ addr + 1 <= LastPage)
      BY <1>0, <1>4 DEF MemoryInv, Mapping
    <2>3. ASSUME NEW p \in Pages, FirstPage <= p, p < addr + 1
          PROVE  Lookup(p)' = p
      <3>1. CASE p < addr
        BY <1>0, <1>11, <2>3, <3>1 DEF MemoryInv, Mapping
      <3>2. CASE p = addr
        BY <1>0, <1>12, <2>3, <3>2 DEF Lookup
      <3> QED  BY <1>12, <2>3, <3>1, <3>2
    <2> QED  BY <1>0, <2>1, <2>2, <2>3 DEF MemoryInv, Mapping
  <1> QED  BY <1>1, <1>2, <1>6, <1>7, <1>10, <1>11, <1>13 DEF MemoryInv

(* A new table comes from a frame that no table lies in and no caller      *)
(* holds; every other table is left as it was.                             *)
LEMMA NewTableStep ==
    ASSUME MemoryInv, MapWithNewTable
    PROVE  MemoryInv' /\ \A p \in Pages : Lookup(p) = p => Lookup(p)' = p
  <1> DEFINE d0 == pd_index(addr)
             i0 == pt_index(addr)
  <1>0. /\ UNCHANGED <<mmap, pc, entry, highest_addr, total_frames, owned, heapVars,
                       mboot, fb_active>>
        /\ stage = "map" /\ pc = "ready"
        /\ addr \in Pages /\ addr < LastPage /\ page_directory[d0] = NoTable
    BY DEF MapWithNewTable, MemoryInv, Order, Shapes
  <1>1. PICK f \in Frames!Free :
           /\ Frames!Take(f)
           /\ IF Lookup(f) = f
              THEN /\ table' = [table EXCEPT ![InFrame(f)] =
                                   [Cleared(f) EXCEPT ![i0] = addr]]
                   /\ page_directory' = [page_directory EXCEPT ![d0] = InFrame(f)]
                   /\ addr' = addr + 1
                   /\ UNCHANGED stage
              ELSE stage' = "fault" /\ UNCHANGED <<pagingVars, addr>>
    BY DEF MapWithNewTable
  <1>2. FramesInv /\ FramesInv'
    BY <1>0, <1>1, FramesClaim DEF MemoryInv
  <1>3. HeapInv' /\ Unset'
    BY <1>0, HeapSame DEF MemoryInv
  <1>4. Frames!Free' = Frames!Free \ {f}
    BY <1>0, <1>1 DEF Frames!Free, Frames!Take
  <1>5. /\ f \in 0 .. total_frames - 1 /\ f \in Pages /\ f \notin owned
        /\ InFrame(f) \in Tables
    <2>1. f \in 0 .. total_frames - 1 /\ f \notin used
      BY <1>1 DEF Frames!Free
    <2> QED  BY <1>0, <1>2, <2>1, FramesTypes, FramesArePages DEF Tables
  <1>6. Order'
    <2>1. HeapPlace' = HeapPlace
      BY <1>0, PlaceSame
    <2> QED  BY <1>0, <1>1, <2>1 DEF MemoryInv, Order, heapVars
  <1>7. CASE Lookup(f) # f
    <2>1. /\ stage' = "fault" /\ UNCHANGED <<page_directory, table, addr>>
      BY <1>1, <1>7 DEF pagingVars
    <2>2. Shapes'
      BY <1>0, <2>1 DEF MemoryInv, Shapes
    <2>3. Mappings'
      BY <1>0, <1>4, <2>1, TablesKept
    <2>4. \A p \in Pages : Lookup(p)' = Lookup(p)
      BY <2>1 DEF Lookup
    <2> QED  BY <1>2, <1>3, <1>6, <2>1, <2>2, <2>3, <2>4 DEF MemoryInv, Mapping
  <1>8. CASE Lookup(f) = f
    <2>1. /\ table' = [table EXCEPT ![InFrame(f)] = [Cleared(f) EXCEPT ![i0] = addr]]
          /\ page_directory' = [page_directory EXCEPT ![d0] = InFrame(f)]
          /\ addr' = addr + 1 /\ stage' = "map"
      BY <1>0, <1>1, <1>8
    <2>2. /\ d0 \in Directory /\ i0 \in Indices
          /\ addr = d0 * EntriesPerTable + i0
      BY <1>0, PageFacts
    <2>3. \A d \in Directory : IF d < StaticTables THEN StaticTable(d) ELSE TableOf(d)
      BY <1>0 DEF MemoryInv, Mappings
    <2>4. ~ (d0 < StaticTables)
      BY <1>0, <2>2, <2>3, TableFacts DEF StaticTable
    <2>5. ASSUME NEW d \in Directory PROVE page_directory[d] # InFrame(f)
      <3>1. CASE d < StaticTables
        BY <2>3, <3>1, TableFacts DEF StaticTable, InFrame
      <3>2. CASE ~ (d < StaticTables)
        <4>1. page_directory[d] = NoTable \/ page_directory[d].at # f
          BY <1>1, <2>3, <3>2 DEF TableOf
        <4>2. f # None
          BY <1>5, SizeFacts DEF None
        <4> QED  BY <4>1, <4>2 DEF InFrame, NoTable
      <3> QED  BY <3>1, <3>2
    <2>6. /\ FirstPage \in Nat /\ LastPage \in Pages /\ LastPage \in Nat /\ addr \in Nat
      BY <1>0, ScreenFacts, SizeFacts DEF MemoryInv, Shapes
    <2>7. [Cleared(f) EXCEPT ![i0] = addr] =
             [i \in Indices |-> IF i = i0 THEN addr ELSE None]
      BY <2>2 DEF Cleared
    <2>8. /\ page_directory'[d0] = InFrame(f)
          /\ table'[InFrame(f)] = [i \in Indices |-> IF i = i0 THEN addr ELSE None]
          /\ \A d \in Directory \ {d0} :
                page_directory'[d] = page_directory[d]
          /\ \A d \in Directory : page_directory[d] # NoTable =>
                table'[page_directory[d]] = table[page_directory[d]]
      <3>1. /\ page_directory \in [Directory -> Tables \cup {NoTable}]
            /\ table \in [Tables -> [Indices -> Pages \cup {None, Junk}]]
        BY DEF MemoryInv, Shapes
      <3> QED  BY <1>5, <2>1, <2>2, <2>5, <2>7, <3>1
    <2>9. Shapes'
      <3>1. addr + 1 \in Pages
        BY <1>0, <2>6, SizeFacts
      <3>2. page_directory' \in [Directory -> Tables \cup {NoTable}]
        BY <1>5, <2>1, <2>2 DEF MemoryInv, Shapes
      <3>3. table' \in [Tables -> [Indices -> Pages \cup {None, Junk}]]
        BY <1>0, <1>5, <2>1, <2>7 DEF MemoryInv, Shapes
      <3> QED  BY <1>0, <2>1, <3>1, <3>2, <3>3 DEF MemoryInv, Shapes
    <2>10. Mappings'
      <3> SUFFICES ASSUME NEW d \in Directory
                   PROVE  (IF d < StaticTables THEN StaticTable(d) ELSE TableOf(d))'
        BY DEF Mappings
      <3>1. CASE d < StaticTables
        <4>1. StaticTable(d) /\ page_directory[d] # NoTable /\ d # d0
          BY <2>3, <2>4, <3>1, TableFacts DEF StaticTable
        <4> QED  BY <2>8, <3>1, <4>1 DEF StaticTable
      <3>2. CASE d = d0
        <4>1. /\ ~ InFrame(f).static /\ InFrame(f).at = f
          BY DEF InFrame
        <4>2. \A e \in Directory \ {d0} : page_directory'[e] # InFrame(f)
          BY <2>5, <2>8
        <4>3. \A i \in Indices :
                 table'[InFrame(f)][i] \in {d0 * EntriesPerTable + i, None}
          BY <2>2, <2>8
        <4>4. f \notin Frames!Free' \cup owned' /\ f \in 0 .. total_frames' - 1
          BY <1>0, <1>4, <1>5
        <4> QED  BY <2>4, <2>8, <3>2, <4>1, <4>2, <4>3, <4>4 DEF TableOf
      <3>3. CASE ~ (d < StaticTables) /\ d # d0
        <4>1. TableOf(d) /\ page_directory'[d] = page_directory[d]
          BY <2>3, <2>8, <3>3
        <4>2. CASE page_directory[d] = NoTable
          BY <3>3, <4>1, <4>2 DEF TableOf
        <4>3. CASE page_directory[d] # NoTable
          <5>1. \A e \in Directory \ {d} : page_directory'[e] # page_directory[d]
            BY <2>5, <2>8, <4>1, <4>3 DEF TableOf
          <5>2. table'[page_directory[d]] = table[page_directory[d]]
            BY <2>8, <4>3
          <5>3. /\ page_directory[d].at \in 0 .. total_frames' - 1
                /\ page_directory[d].at \notin Frames!Free' \cup owned'
            BY <1>0, <1>4, <4>1, <4>3 DEF TableOf
          <5> QED  BY <3>3, <4>1, <4>3, <5>1, <5>2, <5>3 DEF TableOf
        <4> QED  BY <4>2, <4>3
      <3> QED  BY <3>1, <3>2, <3>3
    <2>11. \A p \in Pages : Lookup(p) = p => Lookup(p)' = p
      <3> SUFFICES ASSUME NEW p \in Pages, Lookup(p) = p PROVE Lookup(p)' = p
        OBVIOUS
      <3>1. pd_index(p) \in Directory
        BY PageFacts
      <3>2. page_directory[pd_index(p)] # NoTable
        BY SizeFacts DEF Lookup, None
      <3>3. pd_index(p) # d0
        BY <1>0, <3>2
      <3> QED  BY <2>8, <3>1, <3>2, <3>3 DEF Lookup
    <2>12. Mapping'
      <3>1. /\ Usable' = Usable /\ FirstPage' = FirstPage /\ LastPage' = LastPage
            /\ EndsAtTheTop' = EndsAtTheTop
        BY <1>0 DEF Usable, FirstPage, LastPage, EndsAtTheTop, Frames!Plus
      <3>2. EndsAtTheTop \/ (FirstPage <= addr + 1 /\ addr + 1 <= LastPage)
        BY <1>0, <2>6 DEF MemoryInv, Mapping
      <3>3. ASSUME NEW p \in Pages, FirstPage <= p, p < addr + 1
            PROVE  Lookup(p)' = p
        <4>1. CASE p < addr
          BY <1>0, <2>11, <3>3, <4>1 DEF MemoryInv, Mapping
        <4>2. CASE p = addr
          <5>1. InFrame(f) # NoTable
            BY <1>5, SizeFacts DEF InFrame, NoTable, None
          <5> QED  BY <2>2, <2>8, <4>2, <5>1 DEF Lookup
        <4>3. p \in Nat
          BY SizeFacts
        <4> QED  BY <2>6, <3>3, <4>1, <4>2, <4>3
      <3> QED  BY <1>0, <2>1, <3>1, <3>2, <3>3 DEF MemoryInv, Mapping
    <2> QED
      BY <1>2, <1>3, <1>6, <2>9, <2>10, <2>11, <2>12 DEF MemoryInv
  <1> QED  BY <1>7, <1>8

LEMMA FbReadyStep ==
    ASSUME MemoryInv, FbReady
    PROVE  MemoryInv'
  <1>1. FramesInv'
    BY FramesStep DEF MemoryInv, FbReady
  <1>2. HeapInv' /\ Unset'
    BY HeapSame DEF MemoryInv, FbReady
  <1>3. Shapes'
    BY DEF MemoryInv, FbReady, Shapes, pagingVars
  <1>4. Order'
    BY PlaceSame DEF MemoryInv, FbReady, Order, pmmVars, heapVars
  <1>5. Mappings'
    BY TablesKept DEF FbReady, pmmVars, pagingVars, Frames!Free
  <1> QED
    BY <1>1, <1>2, <1>3, <1>4, <1>5 DEF MemoryInv, FbReady, Mapping

LEMMA FrameCallerStep ==
    ASSUME MemoryInv, FrameCaller
    PROVE  MemoryInv'
  <1>0. /\ UNCHANGED <<heapVars, pagingVars, mboot, stage, addr, fb_active>>
        /\ UNCHANGED <<mmap, pc, total_frames>>
        /\ stage = "up"
    BY DEF FrameCaller, Frames!pmm_alloc_frame, Frames!pmm_free_frame
  <1>1. FramesInv'
    BY FramesStep DEF MemoryInv, FrameCaller
  <1>2. HeapInv' /\ Unset'
    BY <1>0, HeapSame DEF MemoryInv
  <1>3. Shapes'
    BY <1>0 DEF MemoryInv, Shapes, pagingVars
  <1>4. Order'
    BY <1>0, PlaceSame DEF MemoryInv, Order, heapVars
  <1>5. Mappings'
    <2>1. ASSUME NEW f \in 0 .. total_frames - 1, f \notin Frames!Free \cup owned
          PROVE  f \notin (Frames!Free \cup owned)'
      <3>1. CASE Frames!pmm_alloc_frame
        BY <1>0, <2>1, <3>1 DEF Frames!pmm_alloc_frame, Frames!Take, Frames!Free
      <3>2. CASE Frames!pmm_free_frame
        <4>1. PICK g \in owned \cup Frames!Free \cup {total_frames} :
                  Frames!Give(g) /\ owned' = owned \ {g}
          BY <3>2 DEF Frames!pmm_free_frame
        <4>2. total_frames \in Nat
          BY FramesTypes DEF MemoryInv, Frames!TypeOK
        <4>3. g # f
          BY <2>1, <4>1, <4>2
        <4> QED  BY <1>0, <2>1, <4>1, <4>3 DEF Frames!Give, Frames!Free
      <3> QED  BY <3>1, <3>2 DEF FrameCaller
    <2> QED  BY <1>0, <2>1, TablesKept DEF pagingVars
  <1> QED
    BY <1>0, <1>1, <1>2, <1>3, <1>4, <1>5 DEF MemoryInv, Mapping

LEMMA HeapCallerStep ==
    ASSUME MemoryInv, HeapCaller
    PROVE  MemoryInv'
  <1>0. /\ UNCHANGED <<pmmVars, pagingVars, mboot, stage, addr, fb_active>>
        /\ stage = "up"
    BY DEF HeapCaller
  <1>1. FramesInv'
    BY <1>0, FramesStep DEF MemoryInv
  <1>2. HeapInv' /\ Unset'
    <2>1. heap_end > 0
      <3>1. HeapPlace \in Nat
        BY <1>0, HeapPlaceFacts DEF MemoryInv, Order
      <3> QED  BY <1>0, <3>1, SizeFacts DEF MemoryInv, Order
    <2> QED  BY <2>1, KmallocStep DEF MemoryInv, HeapCaller
  <1>3. Shapes'
    BY <1>0 DEF MemoryInv, Shapes, pagingVars
  <1>4. Order'
    <2>1. UNCHANGED <<heap_start, heap_end>>
      BY DEF HeapCaller, kmalloc
    <2> QED
      BY <1>0, <2>1, PlaceSame DEF MemoryInv, Order, pmmVars
  <1>5. Mappings'
    BY <1>0, TablesKept DEF pmmVars, pagingVars, Frames!Free
  <1> QED
    BY <1>0, <1>1, <1>2, <1>3, <1>4, <1>5 DEF MemoryInv, Mapping

LEMMA MemoryStep == MemoryInv /\ [Next]_memoryVars => MemoryInv'
  <1> SUFFICES ASSUME MemoryInv, [Next]_memoryVars PROVE MemoryInv'
    OBVIOUS
  <1>1. CASE UNCHANGED memoryVars
    <2>1. FramesInv'
      BY <1>1, FramesStep DEF MemoryInv, memoryVars
    <2>2. HeapInv' /\ Unset'
      BY <1>1, HeapSame DEF MemoryInv, memoryVars
    <2>3. Mappings'
      BY <1>1, TablesKept DEF memoryVars, pmmVars, pagingVars, Frames!Free
    <2>4. Shapes' /\ Order'
      BY <1>1, PlaceSame
         DEF MemoryInv, memoryVars, pmmVars, pagingVars, heapVars, Shapes, Order, HeapUnset
    <2>5. Mapping'
      BY <1>1 DEF MemoryInv, memoryVars, pmmVars, pagingVars, Mapping, Usable,
         EndsAtTheTop, FirstPage, LastPage, Frames!Plus, Lookup
    <2> QED  BY <2>1, <2>2, <2>3, <2>4, <2>5 DEF MemoryInv
  <1> QED
    BY <1>1, PmmInitStep, PagingInitStep, HeapInitStep, FbRejectsStep, MapPageStep,
       NewTableStep, FbReadyStep, FrameCallerStep, HeapCallerStep
       DEF Next, FbInit

LEMMA MemoryInvariant == Spec => []MemoryInv
  BY MemoryInit, MemoryStep, PTL DEF Spec

----------------------------------------------------------------------------
(* Theorems about the boot.                                                *)

(* Every variable stays in its range at every step of the boot and after:  *)
(* the counter of free frames never falls below zero, also when page       *)
(* tables take frames, and every entry of a table is a page or nothing.    *)
THEOREM MemoryTypes == Spec => []TypeOK
  <1>1. MemoryInv => TypeOK
    BY FramesTypes
       DEF MemoryInv, TypeOK, Shapes, HeapInv, Bounds, Below, HeapTypeOK
  <1> QED  BY <1>1, MemoryInvariant, PTL

(* From paging_init on, a page maps to itself or not at all, and what the  *)
(* static tables cover is never unmapped, whatever framebuffer is mapped   *)
(* over it.                                                                *)
THEOREM PagesMapToThemselves == Spec => []IdentityMapped
  <1>1. MemoryInv => IdentityMapped
    BY LookupFacts DEF IdentityMapped, StaticPages
  <1> QED  BY <1>1, MemoryInvariant, PTL

(* The frame of a page table is in nobody else's hands: not in the free    *)
(* pool, not a caller's, and not a second table.                           *)
THEOREM PageTablesApart == Spec => []TablesApart
  <1>1. ASSUME MemoryInv PROVE TablesApart
    <2> SUFFICES ASSUME NEW d \in Directory, page_directory[d] # NoTable,
                        ~ page_directory[d].static
                 PROVE  /\ page_directory[d].at \notin Frames!Free \cup owned
                        /\ \A e \in Directory \ {d} : page_directory[e] # page_directory[d]
      BY DEF TablesApart
    <2>1. stage \notin {"pmm", "paging"}
      BY <1>1 DEF MemoryInv, Order
    <2>2. IF d < StaticTables THEN StaticTable(d) ELSE TableOf(d)
      BY <1>1, <2>1 DEF MemoryInv, Mappings
    <2> QED  BY <2>2, TableFacts DEF StaticTable, TableOf
  <1> QED  BY <1>1, MemoryInvariant, PTL

(* kmalloc's blocks lie in memory that is mapped, and none is at address 0 *)
(* unless there was no memory map.                                         *)
THEOREM HeapIsMapped == Spec => []HeapUsable
  <1>1. ASSUME MemoryInv PROVE HeapUsable
    <2> SUFFICES ASSUME NEW b \in blocks
                 PROVE  /\ \A a \in Bytes(b) : Mapped(a)
                        /\ b.at = 0 => mmap = Frames!NoMap
      BY DEF HeapUsable
    <2>1. stage \notin {"pmm", "paging", "heap"}
      BY <1>1 DEF MemoryInv, Order, HeapUnset
    <2>2. /\ heap_start = HeapPlace /\ heap_end = HeapPlace + HeapSize
          /\ HeapPlace \in Nat
          /\ HeapPlace + HeapSize <= StaticPages * FrameSize
          /\ HeapPlace = 0 => mmap = Frames!NoMap
      BY <1>1, <2>1, HeapPlaceFacts DEF MemoryInv, Order
    <2>3. /\ b.at \in Nat /\ b.size \in Nat
          /\ heap_start <= b.at /\ b.at + b.size <= heap_end
      BY <1>1 DEF MemoryInv, HeapInv, Bounds, Below
    <2>4. ASSUME NEW a \in Bytes(b)
          PROVE  Mapped(a)
      <3>1. a \in Nat /\ a < StaticPages * FrameSize
        BY <2>2, <2>3, SizeFacts DEF Bytes
      <3>2. a \div FrameSize \in Nat /\ a \div FrameSize < StaticPages
        BY <3>1, SizeFacts, DivFacts, DivOrder
      <3>3. a \div FrameSize \in Pages
        BY <3>2, SizeFacts
      <3> QED  BY <1>1, <2>1, <3>2, <3>3, LookupFacts DEF Mapped
    <2> QED  BY <2>2, <2>3, <2>4
  <1> QED  BY <1>1, MemoryInvariant, PTL

(* Blocks stay apart when the heap is the one that kernel_main sets up.    *)
THEOREM KernelBlocksApart == Spec => []BlocksApart
  BY MemoryInvariant, InvBlocksApart, PTL DEF MemoryInv

(* When fb_init returns 1 every byte of the framebuffer is mapped, or it   *)
(* ran out of frames, or the framebuffer ends in the last page; and no     *)
(* later call unmaps a page.                                               *)
THEOREM FramebufferMapped == Spec => FbMapped
  <1>1. ASSUME MemoryInv, [Next]_memoryVars
        PROVE  [/\ fb_active' /\ ~ fb_active =>
                     \/ \A a \in mboot.base .. mboot.base + mboot.size - 1 : Mapped(a)
                     \/ Frames!Free = {} \/ EndsAtTheTop
                /\ stage \in {"map", "up"} =>
                     \A p \in Pages : Lookup(p) = p => Lookup(p)' = p]_memoryVars
    <2>1. ASSUME fb_active', ~ fb_active, Next
          PROVE  \/ \A a \in mboot.base .. mboot.base + mboot.size - 1 : Mapped(a)
                 \/ Frames!Free = {} \/ EndsAtTheTop
      <3>1. FbReady
        BY <2>1 DEF Next, PmmInit, PagingInit, HeapInit, FbInit, FbRejects, FbBegins,
                    MapPage, MapWithNewTable, FrameCaller, HeapCaller
      <3>2. CASE Frames!Free = {} \/ EndsAtTheTop
        BY <3>2
      <3>3. CASE addr >= LastPage /\ ~ EndsAtTheTop
        <4>1. \A p \in Pages : FirstPage <= p /\ p < addr => Lookup(p) = p
          BY <1>1, <3>1 DEF MemoryInv, Mapping, FbReady
        <4>2. mboot \in Screens /\ addr \in Int /\ LastPage \in Int
          BY <1>1, ScreenFacts, SizeFacts DEF MemoryInv, Shapes
        <4>3. ASSUME NEW a \in mboot.base .. mboot.base + mboot.size - 1
              PROVE  Mapped(a)
          <5>1. /\ a \div FrameSize \in Pages
                /\ FirstPage <= a \div FrameSize /\ a \div FrameSize < LastPage
            BY <3>3, <4>2, <4>3, ScreenFacts
          <5>2. a \div FrameSize < addr
            BY <3>3, <4>2, <5>1, SizeFacts
          <5> QED  BY <4>1, <5>1, <5>2 DEF Mapped
        <4> QED  BY <4>3
      <3> QED  BY <3>1, <3>2, <3>3 DEF FbReady
    <2>2. ASSUME stage \in {"map", "up"}, Next, NEW p \in Pages, Lookup(p) = p
          PROVE  Lookup(p)' = p
      <3>1. CASE MapPage \/ MapWithNewTable
        BY <1>1, <2>2, <3>1, MapPageStep, NewTableStep
      <3>2. CASE FbReady \/ FrameCaller \/ HeapCaller
        BY <2>2, <3>2 DEF FbReady, FrameCaller, HeapCaller, pagingVars, Lookup
      <3> QED
        BY <2>2, <3>1, <3>2 DEF Next, PmmInit, PagingInit, HeapInit, FbInit,
                                FbRejects, FbBegins
    <2> QED  BY <1>1, <2>1, <2>2
  <1>2. Spec => [][Next]_memoryVars
    BY DEF Spec
  <1> QED  BY <1>1, <1>2, MemoryInvariant, PTL DEF FbMapped

----------------------------------------------------------------------------
(* The boot does not fault where the frames below the static limit are     *)
(* enough for the page tables of the framebuffer, or all of RAM lies there.*)

TablesFor(s) ==
    pd_index((Frames!Plus(s.base, s.size + FrameSize - 1) \div FrameSize) - 1)
        - pd_index(s.base \div FrameSize) + 1

(* Whole frames of RAM below the limit that pmm_init leaves free.          *)
LowRam(m, total) ==
    {f \in 1 .. StaticPages - 1 :
        /\ f \notin (KernelStart \div FrameSize) .. Frames!ProtectedEnd(total) - 1
        /\ \E k \in DOMAIN m :
              /\ m[k].available
              /\ Frames!FrameStart(m[k]) <= f /\ f < Frames!FrameEnd(m[k])}

LowRamSuffices ==
    \A m \in Maps : \A k \in DOMAIN m : \A s \in Screens :
        m[k].available =>
            \/ Frames!FrameEnd(m[k]) <= StaticPages
            \/ TablesFor(s) <= Cardinality(LowRam(m, Frames!FrameEnd(m[k])))

LowFree == {f \in Frames!Free : f < StaticPages}

(* The tables that the loop still needs, of which the page at hand needs   *)
(* one if its directory entry is not present.                              *)
Reserve ==
    /\ stage # "fault"
    /\ stage = "pmm" => Laws!Kept
    /\ total_frames > StaticPages =>
          /\ stage \in {"paging", "heap", "fb"} =>
                TablesFor(mboot) <= Cardinality(LowFree)
          /\ stage = "map" /\ addr < LastPage =>
                pd_index(LastPage - 1) - pd_index(addr)
                    + (IF page_directory[pd_index(addr)] = NoTable THEN 1 ELSE 0)
                   <= Cardinality(LowFree)

LEMMA LowFreeFinite ==
    ASSUME FramesInv
    PROVE  IsFiniteSet(LowFree) /\ Cardinality(LowFree) \in Nat
  <1>1. total_frames \in Nat
    BY FramesTypes DEF Frames!TypeOK
  <1>2. LowFree \subseteq 0 .. total_frames - 1
    BY DEF LowFree, Frames!Free
  <1>3. IsFiniteSet(0 .. total_frames - 1)
    BY <1>1, FS_Interval
  <1> QED  BY <1>2, <1>3, FS_Subset, FS_CardinalityType

LEMMA NoMapNoFrames ==
    ASSUME FramesInv
    PROVE  /\ mmap \in Maps /\ total_frames \in Nat
           /\ mmap = <<>> /\ pc = "ready" => total_frames = 0
  BY FramesTypes DEF Frames!TypeOK, Frames!NoMap

LEMMA TablesForType ==
    ASSUME NEW s \in Screens
    PROVE  TablesFor(s) \in Int
  <1>1. s.base \in Nat /\ s.size \in Nat
    BY ScreensAssumption, SizeFacts DEF ScreenInfo
  <1>2. ASSUME NEW a \in Int, NEW n \in Nat \ {0} PROVE a \div n \in Int
    OBVIOUS
  <1>3. s.base + (s.size + FrameSize - 1) \in Nat
    BY <1>1, SizeFacts
  <1>4. Frames!Plus(s.base, s.size + FrameSize - 1) \in Nat
    BY <1>3, SizeFacts, DivFacts DEF Frames!Plus
  <1>5. (Frames!Plus(s.base, s.size + FrameSize - 1) \div FrameSize) - 1 \in Int
    BY <1>4, SizeFacts, DivFacts
  <1>6. s.base \div FrameSize \in Int
    BY <1>1, SizeFacts, DivFacts
  <1> QED  BY <1>2, <1>5, <1>6, SizeFacts DEF TablesFor, pd_index

(* pmm_init ends with the reserve in place.                                *)
LEMMA ReserveReady ==
    ASSUME MemoryInv, MemoryInv', Reserve, LowRamSuffices, PmmInit
    PROVE  Reserve'
  <1>1. /\ stage = "pmm" /\ Frames!Boot /\ mboot' = mboot
        /\ stage' = IF pc' = "ready" THEN "paging" ELSE "pmm"
    BY DEF PmmInit
  <1>2. Laws!Kept'
    <2>1. [Laws!Next]_(Laws!pmmVars)
      BY <1>1, BootLaw DEF Laws!Next
    <2> QED
      BY <1>1, <2>1, LawsApply, Laws!KeptStep DEF Reserve, MemoryInv, FramesInv
  <1>3. ASSUME pc' = "ready", total_frames' > StaticPages
        PROVE  TablesFor(mboot') <= Cardinality(LowFree')
    <2>1. /\ FramesInv' /\ mboot' \in Screens
      BY DEF MemoryInv, Shapes
    <2>2. owned' = {}
      <3>1. pc # "ready" /\ owned' = owned
        BY <1>1 DEF Frames!Boot, Frames!InitWithoutMap, Frames!MeasureRegion,
                    Frames!Place, Frames!FreeRegion, Frames!Protect
      <3> QED  BY <3>1, FramesTypes DEF MemoryInv
    <2>3. mmap' \in Maps /\ mmap' # Frames!NoMap /\ total_frames' \in Nat
      <3>1. (/\ mmap \in Maps /\ total_frames \in Nat
             /\ mmap = <<>> /\ pc = "ready" => total_frames = 0)'
        BY <2>1, NoMapNoFrames, PTL
      <3> QED  BY <1>3, <3>1, SizeFacts DEF Frames!NoMap
    <2>4. PICK k \in DOMAIN mmap' :
              mmap'[k].available /\ Frames!FrameEnd(mmap'[k]) = total_frames'
      BY <1>3, <2>1, <2>3
         DEF FramesInv, Laws!Top, Laws!FrameEnd, Frames!FrameEnd, Laws!RegionEnd,
             Frames!RegionEnd, Laws!Plus, Frames!Plus, Laws!NoMap, Frames!NoMap
    <2>5. TablesFor(mboot') <= Cardinality(LowRam(mmap', total_frames'))
      BY <1>3, <2>1, <2>3, <2>4, SizeFacts DEF LowRamSuffices
    <2>6. LowRam(mmap', total_frames') \subseteq LowFree'
      <3> SUFFICES ASSUME NEW f \in LowRam(mmap', total_frames')
                   PROVE  f \in LowFree'
        OBVIOUS
      <3>1. PICK j \in DOMAIN mmap' :
                /\ mmap'[j].available
                /\ Frames!FrameStart(mmap'[j]) <= f /\ f < Frames!FrameEnd(mmap'[j])
        BY DEF LowRam
      <3>2. f \in Nat /\ f # 0 /\ f < StaticPages
        BY SizeFacts DEF LowRam
      <3>3. f \notin Laws!Protected'
        BY DEF LowRam, Laws!Protected, Laws!ProtectedEnd, Frames!ProtectedEnd,
               Laws!BitmapSize, Frames!BitmapSize
      <3>4. f \in Laws!Free'
        BY <1>2, <1>3, <2>2, <3>1, <3>2, <3>3
           DEF Laws!Kept, Laws!NothingLost, Laws!Covered, Laws!FrameStart,
               Frames!FrameStart, Laws!FrameEnd, Frames!FrameEnd, Laws!RegionEnd,
               Frames!RegionEnd, Laws!Plus, Frames!Plus
      <3> QED  BY <3>2, <3>4 DEF LowFree, Laws!Free, Frames!Free
    <2>7. (IsFiniteSet(LowFree) /\ Cardinality(LowFree) \in Nat)'
      BY <2>1, LowFreeFinite, PTL
    <2>8. /\ Cardinality(LowRam(mmap', total_frames')) <= Cardinality(LowFree')
          /\ Cardinality(LowRam(mmap', total_frames')) \in Nat
          /\ Cardinality(LowFree') \in Nat
      BY <2>6, <2>7, FS_Subset, FS_CardinalityType
    <2>9. TablesFor(mboot') \in Int
      BY <2>1, TablesForType
    <2> QED  BY <2>5, <2>8, <2>9
  <1>4. TablesFor(mboot)' = TablesFor(mboot')
    BY DEF TablesFor, Frames!Plus, pd_index
  <1> QED  BY <1>1, <1>2, <1>3, <1>4 DEF Reserve

(* A step of the loop, and how many directory entries remain.              *)
LEMMA IndexSteps ==
    ASSUME NEW a \in Nat, NEW l \in Nat, a < l
    PROVE  /\ pd_index(a) \in Nat /\ pd_index(l - 1) \in Nat
           /\ pd_index(a) <= pd_index(l - 1)
           /\ pd_index(a + 1) \in Nat
           /\ pd_index(a + 1) = pd_index(a) \/ pd_index(a + 1) >= pd_index(a) + 1
  <1>1. a + 1 \in Nat /\ l - 1 \in Nat /\ a <= l - 1 /\ a <= a + 1
    OBVIOUS
  <1>2. /\ pd_index(a) \in Nat /\ pd_index(l - 1) \in Nat /\ pd_index(a + 1) \in Nat
    BY <1>1, SizeFacts, DivFacts DEF pd_index
  <1>3. pd_index(a) <= pd_index(l - 1) /\ pd_index(a) <= pd_index(a + 1)
    BY <1>1, SizeFacts, DivOrder DEF pd_index
  <1> QED  BY <1>2, <1>3

LEMMA ReserveMapPage ==
    ASSUME MemoryInv, Reserve, MapPage
    PROVE  Reserve'
  <1>0. /\ UNCHANGED <<pmmVars, page_directory, mboot, stage>>
        /\ stage = "map" /\ addr \in Nat /\ addr < LastPage /\ addr' = addr + 1
        /\ LastPage \in Nat /\ page_directory[pd_index(addr)] # NoTable
    BY ScreenFacts, SizeFacts DEF MapPage, MemoryInv, Shapes
  <1>1. /\ LowFree' = LowFree /\ LastPage' = LastPage /\ total_frames' = total_frames
    BY <1>0 DEF LowFree, Frames!Free, pmmVars, LastPage, Frames!Plus
  <1>2. Cardinality(LowFree) \in Nat
    BY LowFreeFinite DEF MemoryInv
  <1>3. ASSUME total_frames > StaticPages, addr + 1 < LastPage
        PROVE  pd_index(LastPage - 1) - pd_index(addr + 1)
                  + (IF page_directory[pd_index(addr + 1)] = NoTable THEN 1 ELSE 0)
                 <= Cardinality(LowFree)
    <2>1. pd_index(LastPage - 1) - pd_index(addr) <= Cardinality(LowFree)
      BY <1>0, <1>3, IndexSteps DEF Reserve
    <2>2. CASE pd_index(addr + 1) = pd_index(addr)
      BY <1>0, <2>1, <2>2, IndexSteps
    <2>3. CASE pd_index(addr + 1) >= pd_index(addr) + 1
      BY <1>0, <1>2, <2>1, <2>3, IndexSteps
    <2> QED  BY <1>0, <2>2, <2>3, IndexSteps
  <1> QED  BY <1>0, <1>1, <1>3 DEF Reserve, pd_index

LEMMA ReserveNewTable ==
    ASSUME MemoryInv, Reserve, MapWithNewTable
    PROVE  Reserve'
  <1>0. /\ UNCHANGED <<total_frames, mboot>>
        /\ stage = "map" /\ addr \in Nat /\ addr < LastPage /\ LastPage \in Nat
        /\ addr \in Pages /\ pc = "ready"
        /\ page_directory[pd_index(addr)] = NoTable
    BY ScreenFacts, SizeFacts DEF MapWithNewTable, MemoryInv, Shapes, Order
  <1>1. PICK f \in Frames!Free :
           /\ Frames!IsFirstFree(f)
           /\ Frames!Take(f)
           /\ IF Lookup(f) = f
              THEN /\ page_directory' = [page_directory EXCEPT
                                            ![pd_index(addr)] = InFrame(f)]
                   /\ addr' = addr + 1
                   /\ UNCHANGED stage
              ELSE stage' = "fault"
    BY DEF MapWithNewTable
  <1>2. /\ LastPage' = LastPage /\ LowFree' = LowFree \ {f}
    BY <1>0, <1>1 DEF LowFree, Frames!Free, Frames!Take, LastPage, Frames!Plus
  <1>3. IsFiniteSet(LowFree) /\ Cardinality(LowFree) \in Nat
    BY LowFreeFinite DEF MemoryInv
  <1>4. /\ pd_index(addr) \in Nat /\ pd_index(LastPage - 1) \in Nat
        /\ pd_index(addr) <= pd_index(LastPage - 1)
        /\ pd_index(addr + 1) \in Nat
        /\ pd_index(addr + 1) = pd_index(addr) \/ pd_index(addr + 1) >= pd_index(addr) + 1
    BY <1>0, IndexSteps
  <1>5. f \in Pages /\ f \in Nat /\ f < total_frames /\ total_frames \in Nat
    <2>1. total_frames \in Nat /\ 0 .. total_frames - 1 \subseteq Pages
      BY <1>0, FramesArePages DEF MemoryInv
    <2> QED  BY <2>1, SizeFacts DEF Frames!Free
  <1>6. total_frames > StaticPages =>
           pd_index(LastPage - 1) - pd_index(addr) + 1 <= Cardinality(LowFree)
    BY <1>0 DEF Reserve
  <1>7. f < StaticPages
    <2>1. CASE total_frames > StaticPages
      <3>1. LowFree # {}
        BY <1>3, <1>4, <1>6, <2>1, FS_EmptySet
      <3>2. PICK g \in LowFree : TRUE
        BY <3>1
      <3>3. g \in Frames!Free /\ g < StaticPages /\ g \in Nat
        BY <3>2, <1>5 DEF LowFree, Frames!Free
      <3>4. f <= g
        BY <1>1, <3>3 DEF Frames!IsFirstFree
      <3> QED  BY <1>5, <3>3, <3>4, SizeFacts
    <2>2. CASE ~ (total_frames > StaticPages)
      BY <1>5, <2>2, SizeFacts
    <2> QED  BY <2>1, <2>2
  <1>8. Lookup(f) = f
    BY <1>0, <1>5, <1>7, LookupFacts
  <1>9. /\ page_directory' = [page_directory EXCEPT ![pd_index(addr)] = InFrame(f)]
        /\ addr' = addr + 1 /\ stage' = "map"
    BY <1>0, <1>1, <1>8
  <1>10. Cardinality(LowFree \ {f}) = Cardinality(LowFree) - 1
    <2>1. f \in LowFree
      BY <1>7 DEF LowFree
    <2> QED  BY <1>3, <2>1, FS_RemoveElement
  <1>11. ASSUME total_frames > StaticPages, addr + 1 < LastPage
         PROVE  pd_index(LastPage - 1) - pd_index(addr + 1)
                   + (IF page_directory'[pd_index(addr + 1)] = NoTable THEN 1 ELSE 0)
                  <= Cardinality(LowFree \ {f})
    <2>1. CASE pd_index(addr + 1) = pd_index(addr)
      <3>1. pd_index(addr) \in Directory
        BY <1>0, PageFacts
      <3>2. page_directory'[pd_index(addr + 1)] = InFrame(f)
        BY <1>9, <2>1, <3>1 DEF MemoryInv, Shapes
      <3>3. InFrame(f) # NoTable
        BY <1>5 DEF InFrame, NoTable, None
      <3> QED  BY <1>3, <1>4, <1>6, <1>10, <1>11, <2>1, <3>2, <3>3
    <2>2. CASE pd_index(addr + 1) >= pd_index(addr) + 1
      BY <1>3, <1>4, <1>6, <1>10, <1>11, <2>2
    <2> QED  BY <1>4, <2>1, <2>2
  <1> QED  BY <1>0, <1>2, <1>9, <1>11 DEF Reserve, pd_index

(* fb_init starts with the tables of the whole framebuffer in reserve.     *)
LEMMA ReserveBegins ==
    ASSUME MemoryInv, Reserve, FbBegins
    PROVE  Reserve'
  <1>0. /\ UNCHANGED <<pmmVars, page_directory, mboot>>
        /\ stage = "fb" /\ stage' = "map" /\ addr' = FirstPage
        /\ FirstPage \in Nat /\ LastPage \in Nat
    BY ScreenFacts, SizeFacts DEF FbBegins, MemoryInv, Shapes, pagingVars
  <1>1. /\ LowFree' = LowFree /\ LastPage' = LastPage /\ total_frames' = total_frames
    BY <1>0 DEF LowFree, Frames!Free, pmmVars, LastPage, Frames!Plus
  <1>2. ASSUME total_frames > StaticPages, FirstPage < LastPage
        PROVE  pd_index(LastPage - 1) - pd_index(FirstPage)
                  + (IF page_directory[pd_index(FirstPage)] = NoTable THEN 1 ELSE 0)
                 <= Cardinality(LowFree)
    <2>1. pd_index(LastPage - 1) - pd_index(FirstPage) + 1 <= Cardinality(LowFree)
      BY <1>0, <1>2 DEF Reserve, TablesFor, FirstPage, LastPage
    <2>2. Cardinality(LowFree) \in Nat
      BY LowFreeFinite DEF MemoryInv
    <2> QED  BY <1>0, <1>2, <2>1, <2>2, IndexSteps
  <1> QED  BY <1>0, <1>1, <1>2 DEF Reserve, pd_index

LEMMA ReserveStep ==
    ASSUME MemoryInv, MemoryInv', Reserve, LowRamSuffices, [Next]_memoryVars
    PROVE  Reserve'
  <1>1. CASE PagingInit \/ HeapInit
    <2>1. /\ UNCHANGED <<pmmVars, mboot>> /\ stage \in {"paging", "heap"}
          /\ stage' \in {"heap", "fb"}
      BY <1>1 DEF PagingInit, HeapInit
    <2> QED
      BY <2>1 DEF Reserve, LowFree, Frames!Free, pmmVars, TablesFor, Frames!Plus, pd_index
  <1>2. CASE FbRejects \/ FbReady \/ FrameCaller \/ HeapCaller
    <2>1. stage' = "up"
      BY <1>2 DEF FbRejects, FbReady, FrameCaller, HeapCaller
    <2> QED  BY <2>1 DEF Reserve
  <1>3. CASE UNCHANGED memoryVars
    BY <1>3 DEF Reserve, memoryVars, pmmVars, pagingVars, LowFree, Frames!Free,
       LastPage, TablesFor, Frames!Plus, pd_index, Laws!Kept, Laws!NothingLost,
       Laws!Free, Laws!Covered, Laws!FrameStart, Laws!FrameEnd, Laws!RegionEnd,
       Laws!Plus, Laws!Protected, Laws!ProtectedEnd, Laws!BitmapSize
  <1> QED
    BY <1>1, <1>2, <1>3, ReserveReady, ReserveMapPage, ReserveNewTable, ReserveBegins
       DEF Next, FbInit

(* The memset of a new page table never faults: where the low frames of    *)
(* RAM suffice, pmm_alloc_frame, which takes the lowest, returns one that  *)
(* is mapped, every time the loop of fb_init asks.                         *)
THEOREM BootDoesNotFault ==
    ASSUME LowRamSuffices
    PROVE  Spec => []NoFaultAtBoot
  <1>1. Init => Reserve
    <2>1. Init => Laws!Init
      BY DEF Init, Frames!Init, Laws!Init
    <2>2. Init => Laws!Kept
      BY <2>1, LawsApply, Laws!TopInit
    <2>3. Init => stage = "pmm" /\ total_frames = 0
      BY DEF Init, Frames!Init
    <2> QED  BY <2>2, <2>3, SizeFacts DEF Reserve
  <1>2. MemoryInv /\ MemoryInv' /\ Reserve /\ [Next]_memoryVars => Reserve'
    BY ReserveStep
  <1>3. Reserve => NoFaultAtBoot
    BY DEF Reserve, NoFaultAtBoot
  <1> QED  BY <1>1, <1>2, <1>3, MemoryInvariant, PTL DEF Spec

=============================================================================
