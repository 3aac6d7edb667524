-------------------------------- MODULE Pmm --------------------------------
(***************************************************************************)
(* The physical memory manager, kernel/pmm.c: a bitmap with one bit per    *)
(* frame, built at boot from the multiboot memory map, and a counter of    *)
(* free frames that is kept beside it.                                     *)
(*                                                                         *)
(* pmm_init runs with interrupts off; it is cut into its loops: one step   *)
(* per entry of the memory map.  The bitmap is the set of the bits that    *)
(* are 1.  Addresses are unsigned and wrap.                                *)
(***************************************************************************)
EXTENDS Integers, Sequences, FiniteSets

CONSTANTS
    FrameSize,      \* FRAME_SIZE
    AddressSpace,   \* 2^32: the size of the address space
    KernelStart,    \* 0x100000
    KernelEnd,      \* &_kernel_end
    Maps            \* the memory maps a boot loader may pass

Addresses == 0 .. AddressSpace - 1
Entries == [base : Addresses, length : Nat, available : BOOLEAN]
NoMap == <<>>       \* MULTIBOOT_INFO_MEM_MAP is not set

ASSUME SizesAssumption ==
    /\ FrameSize \in Nat \ {0} /\ AddressSpace \in Nat \ {0}
    /\ KernelStart \in Nat /\ KernelEnd \in Nat
ASSUME MapsAssumption == Maps \subseteq Seq(Entries)

VARIABLES
    mmap,           \* the map this machine was booted with
    pc,             \* how far pmm_init is
    entry,          \* entries of mmap that the current loop has walked past
    highest_addr,
    total_frames, free_frames,
    used,           \* the bits of the bitmap that are 1
    owned           \* the frames that callers hold

pmmVars == <<mmap, pc, entry, highest_addr, total_frames, free_frames, used, owned>>

Init ==
    /\ mmap \in Maps
    /\ pc = "measure"
    /\ entry = 0 /\ highest_addr = 0
    /\ total_frames = 0 /\ free_frames = 0
    /\ used = {}
    /\ owned = {}

----------------------------------------------------------------------------
(* Unsigned 32-bit sum of two addresses.                                   *)
Plus(a, b) == (a + b) % AddressSpace

RegionEnd(e) == Plus(e.base, e.length)

BitmapSize(total) == (total + 7) \div 8
BitmapEnd == IF mmap = NoMap THEN 0 ELSE KernelEnd + BitmapSize(total_frames)

(* Step 4: the whole frames inside a region.                               *)
\* Mutant of FrameStart: the start is rounded down.
FrameStartDown(e) == e.base \div FrameSize
FrameStart(e) == Plus(e.base, FrameSize - 1) \div FrameSize
FrameEnd(e) == RegionEnd(e) \div FrameSize
Region(e) ==
    {f \in 0 .. total_frames - 1 : FrameStart(e) <= f /\ f < FrameEnd(e)}

(* Step 5: the kernel and the bitmap.                                      *)
ProtectedEnd(total) ==
    (KernelEnd + BitmapSize(total) + FrameSize - 1) \div FrameSize
Protected == (KernelStart \div FrameSize) .. ProtectedEnd(total_frames) - 1

(* The boot loader put the kernel into RAM: some region reaches so far that*)
(* kernel and bitmap lie below the top, however much RAM follows.          *)
ASSUME KernelInRam ==
    \A m \in Maps \ {NoMap} : \E k \in DOMAIN m :
        /\ m[k].available
        /\ \A total \in FrameEnd(m[k]) .. AddressSpace :
              ProtectedEnd(total) \in 1 .. total

Free == (0 .. total_frames - 1) \ used

----------------------------------------------------------------------------
(* pmm_init without a memory map: nothing is set up.                       *)
InitWithoutMap ==
    /\ pc = "measure"
    /\ mmap = NoMap
    /\ pc' = "ready"
    /\ UNCHANGED <<mmap, entry, highest_addr, total_frames, free_frames, used, owned>>

(* One round of step 1's loop: the highest end of an available region.     *)
MeasureRegion ==
    /\ pc = "measure"
    /\ entry < Len(mmap)
    /\ entry' = entry + 1
    /\ highest_addr' = IF mmap[entry'].available /\ RegionEnd(mmap[entry']) > highest_addr
                       THEN RegionEnd(mmap[entry'])
                       ELSE highest_addr
    /\ UNCHANGED <<mmap, pc, total_frames, free_frames, used, owned>>

(* Steps 2 and 3: size the bitmap; every frame is used.                    *)
Place ==
    /\ pc = "measure"
    /\ mmap # NoMap /\ entry = Len(mmap)
    /\ total_frames' = highest_addr \div FrameSize
    /\ used' = 0 .. 8 * BitmapSize(total_frames') - 1
    /\ free_frames' = 0
    /\ pc' = "free" /\ entry' = 0
    /\ UNCHANGED <<mmap, highest_addr, owned>>

(* One round of step 4's loop.                                             *)
FreeRegion ==
    /\ pc = "free"
    /\ entry < Len(mmap)
    /\ entry' = entry + 1
    /\ IF mmap[entry'].available
       THEN /\ used' = used \ Region(mmap[entry'])
            /\ free_frames' = free_frames + Cardinality(Region(mmap[entry']))
       ELSE UNCHANGED <<used, free_frames>>
    /\ UNCHANGED <<mmap, pc, highest_addr, total_frames, owned>>

\* Mutant of Protect: the counter is decremented for used frames, too.
ProtectUnchecked ==
    /\ pc = "free" /\ entry = Len(mmap)
    /\ used' = used \cup Protected \cup {0}
    /\ free_frames' = free_frames - Cardinality(Protected \cup {0})
    /\ pc' = "ready"
    /\ UNCHANGED <<mmap, entry, highest_addr, total_frames, owned>>

(* Steps 5 and 6: the kernel, the bitmap and frame 0 are used.             *)
Protect ==
    /\ pc = "free" /\ entry = Len(mmap)
    /\ used' = used \cup Protected \cup {0}
    /\ free_frames' = free_frames - Cardinality((Protected \cup {0}) \ used)
    /\ pc' = "ready"
    /\ UNCHANGED <<mmap, entry, highest_addr, total_frames, owned>>

Boot == InitWithoutMap \/ MeasureRegion \/ Place \/ FreeRegion \/ Protect

----------------------------------------------------------------------------
(* pmm_alloc_frame: the lowest clear bit.  It returns 0 when there is none.*)

\* Mutant of IsFirstFree: the bitmap is searched from its end.
IsLastFree(f) == f \in Free /\ \A g \in Free : g <= f
IsFirstFree(f) == f \in Free /\ \A g \in Free : f <= g

\* Mutant of Take: the bit is not set.
TakeUnmarked(f) == free_frames' = free_frames - 1 /\ UNCHANGED used
Take(f) == used' = used \cup {f} /\ free_frames' = free_frames - 1

pmm_alloc_frame ==
    /\ pc = "ready"
    /\ \E f \in Free :
          /\ IsFirstFree(f)
          /\ Take(f)
          /\ owned' = owned \cup {f}
    /\ UNCHANGED <<mmap, pc, entry, highest_addr, total_frames>>

(* pmm_free_frame, which ignores addresses out of range and free frames.   *)
Give(f) ==
    IF f >= total_frames \/ f \notin used
    THEN UNCHANGED <<used, free_frames>>
    ELSE used' = used \ {f} /\ free_frames' = free_frames + 1

(* Callers return what they hold; they may return it twice, or pass an     *)
(* address beyond RAM.  They do not return what they never were given.     *)
pmm_free_frame ==
    /\ pc = "ready"
    /\ \E f \in owned \cup Free \cup {total_frames} :
          Give(f) /\ owned' = owned \ {f}
    /\ UNCHANGED <<mmap, pc, entry, highest_addr, total_frames>>

Next == Boot \/ pmm_alloc_frame \/ pmm_free_frame

Spec == Init /\ [][Next]_pmmVars

----------------------------------------------------------------------------
(* Properties.                                                             *)

(* Every variable stays in its range: the counter never falls below zero.  *)
TypeOK ==
    /\ mmap \in Maps
    /\ pc \in {"measure", "free", "ready"}
    /\ entry \in 0 .. Len(mmap)
    /\ highest_addr \in Addresses
    /\ total_frames \in Nat /\ free_frames \in Nat
    /\ used \in SUBSET Nat
    /\ owned \in SUBSET Nat

(* pmm_get_free_count tells how many frames pmm_alloc_frame can still give.*)
FreeCountExact == free_frames = Cardinality(Free)

(* "Deny by default": a frame is free only if all of it is RAM that the    *)
(* map declares available, and neither kernel, bitmap nor frame 0.         *)
FrameBytes(f) == f * FrameSize .. (f + 1) * FrameSize - 1
OnlyRamIsFree ==
    pc = "ready" =>
        \A f \in Free \cup owned :
            /\ f # 0
            /\ FrameBytes(f) \cap (KernelStart .. BitmapEnd - 1) = {}
            /\ \E k \in DOMAIN mmap :
                  /\ mmap[k].available
                  /\ FrameBytes(f) \subseteq
                        mmap[k].base .. mmap[k].base + mmap[k].length - 1

(* pmm_alloc_frame and pmm_free_frame implement the parking lot: no frame  *)
(* has two holders, and what is returned can be given again.               *)
Lot == INSTANCE FrameAllocator WITH
    Frames <- Nat, open <- pc = "ready",
    avail <- IF pc = "ready" THEN Free ELSE {}
IsLot == Lot!LotSpec
=============================================================================
