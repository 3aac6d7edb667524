----------------------------- MODULE PmmProofs -----------------------------
(***************************************************************************)
(* Theorems about Pmm, for every memory map, kernel and frame size.        *)
(*                                                                         *)
(* The inductive invariant says three things: how far the walk over the    *)
(* map is (Walk), which frames may be free at all (Origin), and how holders*)
(* relate to the bitmap (Holders).  The counter is never below the number  *)
(* of free frames (Covers); when the regions of the map do not overlap it  *)
(* is that number (FreeCountExact).                                        *)
(***************************************************************************)
EXTENDS Pmm, FiniteSetTheorems, TLAPS

(* Division and remainder of naturals.                                     *)
LEMMA DivNat ==
    ASSUME NEW a \in Nat, NEW n \in Nat \ {0}
    PROVE  a \div n \in Nat /\ a \div n <= a
  OBVIOUS

LEMMA DivMono ==
    ASSUME NEW a \in Nat, NEW b \in Nat, NEW n \in Nat \ {0}, a <= b
    PROVE  a \div n <= b \div n
  OBVIOUS

LEMMA ModRange ==
    ASSUME NEW a \in Nat, NEW n \in Nat \ {0}
    PROVE  a % n \in 0 .. n - 1
  OBVIOUS

(* The bytes of the bitmap have a bit for every frame.                     *)
LEMMA EnoughBits ==
    ASSUME NEW t \in Nat
    PROVE  t <= 8 * ((t + 7) \div 8)
  OBVIOUS

----------------------------------------------------------------------------
(* The whole frames of an entry, without the cut at the top of RAM.        *)
Covered(e, f) == FrameStart(e) <= f /\ f < FrameEnd(e)

(* No frame lies in two available regions of one map.                      *)
DisjointRegions ==
    \A m \in Maps : \A j, k \in DOMAIN m : \A f \in Nat :
        /\ m[j].available /\ Covered(m[j], f)
        /\ m[k].available /\ Covered(m[k], f)
        => j = k

Types ==
    /\ mmap \in Maps
    /\ pc \in {"measure", "free", "ready"}
    /\ entry \in 0 .. Len(mmap)
    /\ highest_addr \in Addresses
    /\ total_frames \in Nat /\ total_frames <= AddressSpace
    /\ used \in SUBSET Nat

Walk ==
    /\ pc = "measure" =>
          /\ total_frames = 0
          /\ \A k \in 1 .. entry :
                mmap[k].available => RegionEnd(mmap[k]) <= highest_addr
    /\ pc # "measure" =>
          \A k \in 1 .. Len(mmap) :
              mmap[k].available => FrameEnd(mmap[k]) <= total_frames
    /\ pc = "free" => mmap # NoMap
    /\ pc # "measure" /\ mmap = NoMap => total_frames = 0

Origin ==
    \A f \in Free \cup owned :
        /\ pc # "measure"
        /\ \E k \in 1 .. entry : mmap[k].available /\ Covered(mmap[k], f)
        /\ pc = "ready" => f \notin Protected \cup {0}

Holders ==
    /\ owned \subseteq used
    /\ owned \subseteq 0 .. total_frames - 1
    /\ pc # "ready" => owned = {}

PmmInv == Types /\ Walk /\ Origin /\ Holders

Covers == free_frames \in Nat /\ Cardinality(Free) <= free_frames

----------------------------------------------------------------------------
LEMMA PlusType ==
    ASSUME NEW a \in Nat, NEW b \in Nat
    PROVE  Plus(a, b) \in Addresses /\ Plus(a, b) \in Nat
  <1>1. a + b \in Nat
    OBVIOUS
  <1>2. (a + b) % AddressSpace \in 0 .. AddressSpace - 1
    BY <1>1, ModRange, SizesAssumption
  <1> QED  BY <1>2, SizesAssumption DEF Plus, Addresses

LEMMA EntryTypes ==
    ASSUME Types, NEW k \in 1 .. Len(mmap)
    PROVE  /\ mmap[k] \in Entries
           /\ mmap[k].base \in Addresses /\ mmap[k].length \in Nat
           /\ RegionEnd(mmap[k]) \in Addresses
           /\ FrameEnd(mmap[k]) \in Nat
           /\ FrameStart(mmap[k]) \in Nat
  <1>1. mmap \in Seq(Entries)
    BY MapsAssumption DEF Types
  <1>2. mmap[k] \in Entries
    BY <1>1
  <1>3. mmap[k].base \in Nat /\ mmap[k].length \in Nat /\ mmap[k].base \in Addresses
    BY <1>2, SizesAssumption DEF Entries, Addresses
  <1>4. RegionEnd(mmap[k]) \in Addresses
    BY <1>3, PlusType DEF RegionEnd
  <1>5. FrameEnd(mmap[k]) \in Nat
    BY <1>4, DivNat, SizesAssumption DEF FrameEnd, Addresses
  <1>6. Plus(mmap[k].base, FrameSize - 1) \in Nat
    <2>1. FrameSize - 1 \in Nat
      BY SizesAssumption
    <2> QED  BY <1>3, <2>1, PlusType
  <1>7. FrameStart(mmap[k]) \in Nat
    BY <1>6, DivNat, SizesAssumption DEF FrameStart
  <1> QED  BY <1>2, <1>3, <1>4, <1>5, <1>7

LEMMA FiniteFree ==
    ASSUME total_frames \in Nat, NEW S, S \subseteq 0 .. total_frames - 1
    PROVE  IsFiniteSet(S) /\ Cardinality(S) \in Nat
  <1>1. IsFiniteSet(0 .. total_frames - 1)
    BY FS_Interval
  <1>2. IsFiniteSet(S)
    BY <1>1, FS_Subset
  <1> QED  BY <1>2, FS_CardinalityType

(* Where the kernel lies: steps 5 and 6 stay inside the bitmap.            *)
LEMMA ProtectedInRange ==
    ASSUME Types, Walk, pc = "free"
    PROVE  Protected \cup {0} \subseteq 0 .. total_frames - 1
  <1>1. PICK k \in DOMAIN mmap :
            /\ mmap[k].available
            /\ \A total \in FrameEnd(mmap[k]) .. AddressSpace :
                  ProtectedEnd(total) \in 1 .. total
    BY KernelInRam DEF Types, Walk
  <1>2. k \in 1 .. Len(mmap)
    BY <1>1, MapsAssumption DEF Types
  <1>3. FrameEnd(mmap[k]) \in Nat /\ FrameEnd(mmap[k]) <= total_frames
    BY <1>1, <1>2, EntryTypes DEF Walk
  <1>4. total_frames \in FrameEnd(mmap[k]) .. AddressSpace
    BY <1>3, SizesAssumption DEF Types
  <1>5. ProtectedEnd(total_frames) \in 1 .. total_frames
    BY <1>1, <1>4
  <1>6. KernelStart \div FrameSize \in Nat
    BY DivNat, SizesAssumption
  <1> QED  BY <1>5, <1>6 DEF Types, Protected

----------------------------------------------------------------------------
(* What each operation does to the set of free frames.                     *)

LEMMA PlaceFree ==
    ASSUME Types, Place
    PROVE  Free' = {}
  <1>0. highest_addr \in Nat /\ FrameSize \in Nat \ {0}
    BY SizesAssumption DEF Types, Addresses
  <1>1. highest_addr \div FrameSize \in Nat
    BY <1>0, DivNat
  <1>2. total_frames' \in Nat /\ used' = 0 .. 8 * ((total_frames' + 7) \div 8) - 1
    BY <1>1 DEF Place, BitmapSize
  <1>3. total_frames' <= 8 * ((total_frames' + 7) \div 8)
    <2>1. total_frames' \in Nat
      BY <1>2
    <2> QED  BY <2>1, EnoughBits
  <1> QED  BY <1>2, <1>3 DEF Free

LEMMA RegionFree ==
    ASSUME FreeRegion, mmap[entry + 1].available
    PROVE  Free' = Free \cup Region(mmap[entry + 1])
  BY DEF FreeRegion, Free, Region, FrameStart, FrameEnd, RegionEnd, Plus

LEMMA ProtectFree ==
    ASSUME Protect
    PROVE  Free' = Free \ (Protected \cup {0})
  BY DEF Protect, Free

LEMMA TakeFree ==
    ASSUME NEW f \in Free, Take(f), UNCHANGED total_frames
    PROVE  Free' = Free \ {f}
  BY DEF Take, Free

LEMMA GiveFree ==
    ASSUME NEW f, f \in used, f \in 0 .. total_frames - 1, total_frames \in Nat,
           Give(f), UNCHANGED total_frames
    PROVE  /\ Free' = Free \cup {f} /\ f \notin Free
           /\ used' = used \ {f}
           /\ free_frames' = free_frames + 1
  BY DEF Give, Free

----------------------------------------------------------------------------
(* The invariant holds at first, and every step preserves it.              *)

LEMMA PmmInvInit == Init => PmmInv
  <1> SUFFICES ASSUME Init PROVE PmmInv
    OBVIOUS
  <1>1. mmap \in Seq(Entries)
    BY MapsAssumption DEF Init
  <1>2. Types
    BY <1>1, SizesAssumption DEF Init, Types, Addresses
  <1>3. Free = {}
    BY DEF Init, Free
  <1>4. Walk
    BY DEF Init, Walk
  <1>5. Origin /\ Holders
    BY <1>3 DEF Init, Origin, Holders
  <1> QED  BY <1>2, <1>4, <1>5 DEF PmmInv

LEMMA TypesStep == PmmInv /\ [Next]_pmmVars => Types'
  <1> SUFFICES ASSUME PmmInv, [Next]_pmmVars PROVE Types'
    OBVIOUS
  <1>0. Types /\ Walk /\ Holders
    BY DEF PmmInv
  <1>1. mmap \in Seq(Entries) /\ Len(mmap) \in Nat
    BY <1>0, MapsAssumption DEF Types
  <1>2. CASE InitWithoutMap
    BY <1>0, <1>2 DEF InitWithoutMap, Types
  <1>3. CASE MeasureRegion
    <2>1. entry + 1 \in 1 .. Len(mmap)
      BY <1>0, <1>1, <1>3 DEF MeasureRegion, Types
    <2>2. RegionEnd(mmap[entry + 1]) \in Addresses
      BY <1>0, <2>1, EntryTypes
    <2>3. highest_addr' \in Addresses
      BY <1>0, <1>3, <2>2 DEF MeasureRegion, Types
    <2> QED  BY <1>0, <1>1, <1>3, <2>1, <2>3 DEF MeasureRegion, Types
  <1>4. CASE Place
    <2>1. /\ highest_addr \div FrameSize \in Nat
          /\ highest_addr \div FrameSize <= highest_addr
      <3>1. highest_addr \in Nat /\ FrameSize \in Nat \ {0}
        BY <1>0, SizesAssumption DEF Types, Addresses
      <3> QED  BY <3>1, DivNat
    <2>2. total_frames' \in Nat /\ total_frames' <= AddressSpace
      BY <1>0, <1>4, <2>1, SizesAssumption DEF Place, Types, Addresses
    <2>3. used' \in SUBSET Nat
      BY <1>4 DEF Place
    <2> QED  BY <1>0, <1>1, <1>4, <2>2, <2>3 DEF Place, Types
  <1>5. CASE FreeRegion
    <2>1. entry + 1 \in 0 .. Len(mmap)
      BY <1>0, <1>1, <1>5 DEF FreeRegion, Types
    <2>2. used' \in SUBSET Nat
      BY <1>0, <1>5 DEF FreeRegion, Types
    <2> QED  BY <1>0, <1>5, <2>1, <2>2 DEF FreeRegion, Types
  <1>6. CASE Protect
    <2>1. Protected \cup {0} \subseteq Nat
      BY <1>0, <1>6, ProtectedInRange DEF Protect, Types
    <2>2. used' \in SUBSET Nat
      BY <1>0, <1>6, <2>1 DEF Protect, Types
    <2> QED  BY <1>0, <1>6, <2>2 DEF Protect, Types
  <1>7. CASE pmm_alloc_frame
    BY <1>0, <1>7 DEF pmm_alloc_frame, Take, Free, Types
  <1>8. CASE pmm_free_frame
    BY <1>0, <1>8 DEF pmm_free_frame, Give, Types
  <1>9. CASE UNCHANGED pmmVars
    BY <1>0, <1>9 DEF pmmVars, Types
  <1> QED  BY <1>2, <1>3, <1>4, <1>5, <1>6, <1>7, <1>8, <1>9 DEF Next, Boot


LEMMA WalkStep == PmmInv /\ [Next]_pmmVars => Walk'
  <1> SUFFICES ASSUME PmmInv, [Next]_pmmVars PROVE Walk'
    OBVIOUS
  <1>0. Types /\ Walk
    BY DEF PmmInv
  <1>1. mmap \in Seq(Entries) /\ Len(mmap) \in Nat
    BY <1>0, MapsAssumption DEF Types
  <1>2. CASE InitWithoutMap
    BY <1>0, <1>2 DEF InitWithoutMap, Walk, NoMap
  <1>3. CASE MeasureRegion
    <2>1. entry + 1 \in 1 .. Len(mmap) /\ entry \in Nat
      BY <1>0, <1>1, <1>3 DEF MeasureRegion, Types
    <2>2. RegionEnd(mmap[entry + 1]) \in Nat /\ highest_addr \in Nat
      BY <1>0, <2>1, EntryTypes, SizesAssumption DEF Types, Addresses
    <2>3. /\ highest_addr' \in Nat /\ highest_addr <= highest_addr'
          /\ mmap[entry + 1].available => RegionEnd(mmap[entry + 1]) <= highest_addr'
      BY <1>3, <2>2 DEF MeasureRegion
    <2>4. ASSUME NEW k \in 1 .. entry + 1, mmap[k].available
          PROVE  RegionEnd(mmap[k]) <= highest_addr'
      <3>1. CASE k = entry + 1
        BY <2>3, <2>4, <3>1
      <3>2. CASE k \in 1 .. entry
        <4>1. RegionEnd(mmap[k]) <= highest_addr
          BY <1>0, <1>3, <2>4, <3>2 DEF MeasureRegion, Walk
        <4>2. RegionEnd(mmap[k]) \in Nat
          BY <1>0, <2>1, <3>2, EntryTypes, SizesAssumption DEF Addresses
        <4> QED  BY <2>2, <2>3, <4>1, <4>2
      <3> QED  BY <2>1, <3>1, <3>2
    <2>5. /\ pc' = "measure" /\ mmap' = mmap /\ entry' = entry + 1
          /\ total_frames' = 0
      BY <1>0, <1>3 DEF MeasureRegion, Walk
    <2>6. \A k \in 1 .. entry' :
             mmap'[k].available => RegionEnd(mmap'[k]) <= highest_addr'
      BY <2>4, <2>5
    <2> QED  BY <2>5, <2>6 DEF Walk
  <1>4. CASE Place
    <2>1. /\ pc' = "free" /\ mmap' = mmap /\ mmap # NoMap
          /\ total_frames' = highest_addr \div FrameSize
      BY <1>4 DEF Place
    <2>2. ASSUME NEW k \in 1 .. Len(mmap), mmap[k].available
          PROVE  FrameEnd(mmap[k]) <= total_frames'
      <3>1. RegionEnd(mmap[k]) <= highest_addr
        BY <1>0, <1>4, <2>2 DEF Walk, Place
      <3>2. RegionEnd(mmap[k]) \in Nat /\ highest_addr \in Nat
        BY <1>0, EntryTypes, SizesAssumption DEF Types, Addresses
      <3>3. RegionEnd(mmap[k]) \div FrameSize <= highest_addr \div FrameSize
        BY <3>1, <3>2, DivMono, SizesAssumption
      <3> QED  BY <2>1, <3>3 DEF FrameEnd
    <2> QED  BY <2>1, <2>2 DEF Walk
  <1>5. CASE FreeRegion
    BY <1>0, <1>5 DEF FreeRegion, Walk
  <1>6. CASE Protect
    BY <1>0, <1>6 DEF Protect, Walk
  <1>7. CASE pmm_alloc_frame
    BY <1>0, <1>7 DEF pmm_alloc_frame, Walk
  <1>8. CASE pmm_free_frame
    BY <1>0, <1>8 DEF pmm_free_frame, Walk
  <1>9. CASE UNCHANGED pmmVars
    BY <1>0, <1>9 DEF pmmVars, Walk
  <1> QED  BY <1>2, <1>3, <1>4, <1>5, <1>6, <1>7, <1>8, <1>9 DEF Next, Boot

LEMMA HoldersStep == PmmInv /\ [Next]_pmmVars => Holders'
  <1> SUFFICES ASSUME PmmInv, [Next]_pmmVars PROVE Holders'
    OBVIOUS
  <1>0. Types /\ Walk /\ Holders /\ total_frames \in Nat
    BY DEF PmmInv, Types
  <1>1. CASE InitWithoutMap
    BY <1>0, <1>1 DEF InitWithoutMap, Holders
  <1>2. CASE MeasureRegion
    BY <1>0, <1>2 DEF MeasureRegion, Holders
  <1>3. CASE Place
    BY <1>0, <1>3 DEF Place, Holders
  <1>4. CASE FreeRegion
    BY <1>0, <1>4 DEF FreeRegion, Holders
  <1>5. CASE Protect
    BY <1>0, <1>5 DEF Protect, Holders
  <1>6. CASE pmm_alloc_frame
    BY <1>0, <1>6 DEF pmm_alloc_frame, Take, Free, Holders
  <1>7. CASE pmm_free_frame
    <2>1. PICK f \in owned \cup Free \cup {total_frames} :
             Give(f) /\ owned' = owned \ {f}
      BY <1>7 DEF pmm_free_frame
    <2>2. UNCHANGED <<pc, total_frames>> /\ pc = "ready"
      BY <1>7 DEF pmm_free_frame
    <2>3. owned' \subseteq used'
      BY <1>0, <2>1 DEF Give, Holders
    <2> QED  BY <1>0, <2>1, <2>2, <2>3 DEF Holders
  <1>8. CASE UNCHANGED pmmVars
    BY <1>0, <1>8 DEF pmmVars, Holders
  <1> QED  BY <1>1, <1>2, <1>3, <1>4, <1>5, <1>6, <1>7, <1>8 DEF Next, Boot


LEMMA OriginStep == PmmInv /\ [Next]_pmmVars => Origin'
  <1> SUFFICES ASSUME PmmInv, [Next]_pmmVars PROVE Origin'
    OBVIOUS
  <1>0. Types /\ Walk /\ Holders /\ Origin /\ total_frames \in Nat
    BY DEF PmmInv, Types
  <1>1. CASE pc = "measure" /\ pc' # "free"
    <2>1. total_frames' = 0 /\ owned' = {}
      BY <1>0, <1>1 DEF Walk, Holders, Next, Boot, InitWithoutMap, MeasureRegion,
            Place, FreeRegion, Protect, pmm_alloc_frame, pmm_free_frame, pmmVars
    <2>2. Free' = {}
      BY <2>1 DEF Free
    <2> QED  BY <2>1, <2>2 DEF Origin
  <1>2. CASE Place
    <2>1. Free' = {} /\ owned' = {}
      BY <1>0, <1>2, PlaceFree DEF Holders, Place
    <2> QED  BY <2>1 DEF Origin
  <1>3. CASE FreeRegion
    <2>1. /\ pc' = "free" /\ mmap' = mmap /\ entry' = entry + 1 /\ owned' = {}
          /\ entry + 1 \in Nat /\ entry \in Nat
      BY <1>0, <1>3 DEF FreeRegion, Types, Holders
    <2>2. ASSUME NEW f \in Free'
          PROVE  \E k \in 1 .. entry + 1 : mmap[k].available /\ Covered(mmap[k], f)
      <3>1. CASE f \in Free
        BY <1>0, <2>1, <3>1 DEF Origin
      <3>2. CASE f \notin Free
        <4>1. mmap[entry + 1].available /\ f \in Region(mmap[entry + 1])
          BY <1>3, <2>2, <3>2, RegionFree DEF FreeRegion, Free
        <4> QED  BY <2>1, <4>1 DEF Region, Covered
      <3> QED  BY <3>1, <3>2
    <2> QED  BY <2>1, <2>2 DEF Origin
  <1>4. CASE Protect
    <2>1. /\ pc' = "ready" /\ mmap' = mmap /\ entry' = entry /\ owned' = {}
          /\ total_frames' = total_frames
      BY <1>0, <1>4 DEF Protect, Holders
    <2>2. Free' = Free \ (Protected \cup {0}) /\ Protected' = Protected
      BY <1>4, <2>1, ProtectFree DEF Protected
    <2> QED  BY <1>0, <2>1, <2>2 DEF Origin
  <1>5. CASE pc = "ready" /\ (pmm_alloc_frame \/ pmm_free_frame)
    <2>1. /\ UNCHANGED <<pc, mmap, entry, total_frames>>
          /\ Protected' = Protected
      BY <1>5 DEF pmm_alloc_frame, pmm_free_frame, Protected
    <2>2. Free' \cup owned' \subseteq Free \cup owned
      <3>1. CASE pmm_alloc_frame
        BY <3>1 DEF pmm_alloc_frame, Take, Free
      <3>2. CASE pmm_free_frame
        BY <1>0, <3>2 DEF pmm_free_frame, Give, Free, Holders
      <3> QED  BY <1>5, <3>1, <3>2
    <2> QED  BY <1>0, <2>1, <2>2 DEF Origin
  <1>6. CASE UNCHANGED pmmVars
    BY <1>0, <1>6 DEF pmmVars, Origin, Free, Protected
  <1> QED
    BY <1>1, <1>2, <1>3, <1>4, <1>5, <1>6
       DEF Next, Boot, InitWithoutMap, MeasureRegion, pmm_alloc_frame, pmm_free_frame

LEMMA PmmInvariant == Spec => []PmmInv
  <1>1. PmmInv /\ [Next]_pmmVars => PmmInv'
    BY TypesStep, WalkStep, HoldersStep, OriginStep DEF PmmInv
  <1> QED  BY PmmInvInit, <1>1, PTL DEF Spec

----------------------------------------------------------------------------
(* The counter.                                                            *)

(* Every step keeps the counter above the number of free frames; and equal *)
(* to it, when no region is counted twice.                                 *)
LEMMA CountStep ==
    ASSUME PmmInv, Covers, [Next]_pmmVars
    PROVE  /\ Covers'
           /\ DisjointRegions /\ FreeCountExact => FreeCountExact'
  <1>0. Types /\ Walk /\ Holders /\ Origin /\ total_frames \in Nat
    BY DEF PmmInv, Types
  <1>1. /\ IsFiniteSet(Free) /\ Cardinality(Free) \in Nat
        /\ free_frames \in Nat /\ Cardinality(Free) <= free_frames
    BY <1>0, FiniteFree DEF Free, Covers
  <1>2. CASE UNCHANGED <<free_frames, total_frames, used>>
    BY <1>2 DEF Covers, FreeCountExact, Free
  <1>3. CASE Place
    BY <1>0, <1>3, PlaceFree, FS_EmptySet DEF Place, Covers, FreeCountExact
  <1>4. CASE FreeRegion /\ mmap[entry + 1].available
    <2> DEFINE R == Region(mmap[entry + 1])
    <2>1. Free' = Free \cup R /\ free_frames' = free_frames + Cardinality(R)
      BY <1>4, RegionFree DEF FreeRegion
    <2>2. IsFiniteSet(R) /\ Cardinality(R) \in Nat
      BY <1>0, FiniteFree DEF Region
    <2>3. /\ IsFiniteSet(Free \cap R) /\ Cardinality(Free \cap R) \in Nat
      BY <1>1, FS_Intersection, FS_CardinalityType
    <2>4. Cardinality(Free \cup R)
             = Cardinality(Free) + Cardinality(R) - Cardinality(Free \cap R)
      BY <1>1, <2>2, FS_Union
    <2>5. ASSUME DisjointRegions PROVE Free \cap R = {}
      <3> SUFFICES ASSUME NEW f \in Free \cap R PROVE FALSE
        OBVIOUS
      <3>1. PICK k \in 1 .. entry : mmap[k].available /\ Covered(mmap[k], f)
        BY <1>0 DEF Origin
      <3>2. Covered(mmap[entry + 1], f) /\ f \in Nat
        BY <1>0 DEF Region, Covered
      <3>3. mmap \in Seq(Entries) /\ entry \in Nat /\ entry + 1 <= Len(mmap)
        BY <1>0, <1>4, MapsAssumption DEF Types, FreeRegion
      <3>4. k \in DOMAIN mmap /\ entry + 1 \in DOMAIN mmap /\ k # entry + 1
        BY <3>1, <3>3
      <3> QED  BY <1>0, <1>4, <2>5, <3>1, <3>2, <3>4 DEF DisjointRegions, Types
    <2>6. DisjointRegions => Cardinality(Free \cap R) = 0
      BY <2>5, FS_EmptySet
    <2> HIDE DEF R
    <2> QED  BY <1>1, <2>1, <2>2, <2>3, <2>4, <2>6 DEF Covers, FreeCountExact
  <1>5. CASE FreeRegion /\ ~ mmap[entry + 1].available
    BY <1>2, <1>5 DEF FreeRegion
  <1>6. CASE Protect
    <2> DEFINE P == Protected \cup {0}
    <2>1. P \subseteq 0 .. total_frames - 1
      BY <1>0, <1>6, ProtectedInRange DEF Protect
    <2>2. Free' = Free \ P /\ P \ used = Free \cap P
      BY <1>6, <2>1, ProtectFree DEF Free
    <2>3. free_frames' = free_frames - Cardinality(Free \cap P)
      BY <1>6, <2>2 DEF Protect
    <2>4. /\ Cardinality(Free \ P) = Cardinality(Free) - Cardinality(Free \cap P)
          /\ Cardinality(Free \cap P) \in Nat /\ Cardinality(Free \ P) \in Nat
      BY <1>1, FS_Difference, FS_Intersection, FS_CardinalityType
    <2> HIDE DEF P
    <2> QED  BY <1>1, <2>2, <2>3, <2>4 DEF Covers, FreeCountExact
  <1>7. CASE pmm_alloc_frame
    <2>1. PICK f \in Free : Take(f)
      BY <1>7 DEF pmm_alloc_frame
    <2>2. Free' = Free \ {f} /\ free_frames' = free_frames - 1
      BY <1>7, <2>1, TakeFree DEF pmm_alloc_frame, Take
    <2>3. Cardinality(Free \ {f}) = Cardinality(Free) - 1 /\ Cardinality(Free) > 0
      <3>1. Cardinality(Free \ {f}) = Cardinality(Free) - 1
        BY <1>1, FS_RemoveElement
      <3>2. Cardinality(Free) # 0
        BY <1>1, FS_EmptySet
      <3> QED  BY <1>1, <3>1, <3>2
    <2> QED  BY <1>1, <2>2, <2>3 DEF Covers, FreeCountExact
  <1>8. CASE pmm_free_frame
    <2>1. PICK f \in owned \cup Free \cup {total_frames} : Give(f)
      BY <1>8 DEF pmm_free_frame
    <2>2. UNCHANGED total_frames
      BY <1>8 DEF pmm_free_frame
    <2>3. CASE f >= total_frames \/ f \notin used
      BY <1>2, <2>1, <2>2, <2>3 DEF Give
    <2>4. CASE ~ (f >= total_frames \/ f \notin used)
      <3>1. f \in owned
        BY <1>0, <2>1, <2>4 DEF Free
      <3>2. f \in 0 .. total_frames - 1 /\ f \in used
        BY <1>0, <3>1 DEF Holders
      <3>3. Free' = Free \cup {f} /\ f \notin Free /\ free_frames' = free_frames + 1
        BY <1>0, <2>1, <2>2, <3>2, GiveFree
      <3>4. Cardinality(Free \cup {f}) = Cardinality(Free) + 1
        BY <1>1, <3>3, FS_AddElement
      <3> QED  BY <1>1, <3>3, <3>4 DEF Covers, FreeCountExact
    <2> QED  BY <2>3, <2>4
  <1> QED
    BY <1>2, <1>3, <1>4, <1>5, <1>6, <1>7, <1>8
       DEF Next, Boot, InitWithoutMap, MeasureRegion, pmmVars


----------------------------------------------------------------------------
(* What the walk over the map has found: the top of RAM is the end of one  *)
(* of the available regions, as long as there is one.                      *)
Top ==
    /\ pc = "measure" =>
          \/ highest_addr = 0 /\ \A k \in 1 .. entry : ~ mmap[k].available
          \/ \E k \in 1 .. entry :
                mmap[k].available /\ RegionEnd(mmap[k]) = highest_addr
    /\ pc # "measure" /\ mmap # NoMap =>
          \E k \in DOMAIN mmap :
              mmap[k].available /\ FrameEnd(mmap[k]) = total_frames

(* pmm_init loses no RAM: once it is done, every whole frame of an         *)
(* available region is free, held by a caller, or one of those it set      *)
(* aside for kernel, bitmap and the null address.                          *)
NothingLost ==
    pc = "ready" =>
        \A k \in DOMAIN mmap : \A f \in Nat :
            mmap[k].available /\ Covered(mmap[k], f) =>
                f \in Free \cup owned \cup Protected \cup {0}

Kept ==
    /\ pc = "free" =>
          \A k \in 1 .. entry : \A f \in Nat :
              mmap[k].available /\ Covered(mmap[k], f) => f \in Free
    /\ NothingLost

LEMMA TopInit == Init => Top /\ Kept
  BY MapsAssumption DEF Init, Top, Kept, NothingLost

LEMMA TopStep ==
    ASSUME PmmInv, Top, [Next]_pmmVars
    PROVE  Top'
  <1>0. Types /\ Walk
    BY DEF PmmInv
  <1>1. CASE UNCHANGED <<mmap, pc, entry, highest_addr, total_frames>>
    BY <1>1 DEF Top, RegionEnd, FrameEnd, Plus
  <1>2. CASE InitWithoutMap
    BY <1>2 DEF Top, InitWithoutMap
  <1>3. CASE MeasureRegion
    <2>1. /\ pc = "measure" /\ pc' = "measure" /\ mmap' = mmap
          /\ entry \in Nat /\ entry < Len(mmap) /\ entry' = entry + 1
          /\ Len(mmap) \in Nat
      <3>1. mmap \in Seq(Entries)
        BY <1>0, MapsAssumption DEF Types
      <3> QED  BY <1>0, <1>3, <3>1 DEF MeasureRegion, Types
    <2>2. highest_addr \in Nat /\ \A k \in 1 .. Len(mmap) : RegionEnd(mmap[k]) \in Nat
      BY <1>0, EntryTypes DEF Types, Addresses
    <2>3. \A k : RegionEnd(mmap[k])' = RegionEnd(mmap'[k])
      BY DEF RegionEnd, Plus
    <2>4. CASE mmap[entry + 1].available /\ RegionEnd(mmap[entry + 1]) > highest_addr
      <3>1. highest_addr' = RegionEnd(mmap[entry + 1])
        BY <1>3, <2>1, <2>4 DEF MeasureRegion
      <3>2. entry + 1 \in 1 .. entry'
        BY <2>1
      <3> QED  BY <2>1, <2>4, <3>1, <3>2 DEF Top, RegionEnd, Plus
    <2>5. CASE ~ (mmap[entry + 1].available /\ RegionEnd(mmap[entry + 1]) > highest_addr)
      <3>1. highest_addr' = highest_addr
        BY <1>3, <2>1, <2>5 DEF MeasureRegion
      <3>2. CASE mmap[entry + 1].available /\ highest_addr = 0
        <4>1. RegionEnd(mmap[entry + 1]) = 0
          BY <2>1, <2>2, <2>5, <3>2
        <4>2. entry + 1 \in 1 .. entry'
          BY <2>1
        <4> QED  BY <2>1, <3>1, <3>2, <4>1, <4>2 DEF Top, RegionEnd, Plus
      <3>3. CASE \E k \in 1 .. entry :
                    mmap[k].available /\ RegionEnd(mmap[k]) = highest_addr
        <4>1. \A k \in 1 .. entry : k \in 1 .. entry'
          BY <2>1
        <4> QED  BY <2>1, <3>1, <3>3, <4>1 DEF Top, RegionEnd, Plus
      <3>4. CASE /\ ~ mmap[entry + 1].available
                 /\ highest_addr = 0 /\ \A k \in 1 .. entry : ~ mmap[k].available
        <4>1. \A k \in 1 .. entry' : k \in 1 .. entry \/ k = entry + 1
          BY <2>1
        <4> QED  BY <2>1, <3>1, <3>4, <4>1 DEF Top
      <3> QED  BY <2>1, <3>2, <3>3, <3>4 DEF Top
    <2> QED  BY <2>4, <2>5
  <1>4. CASE Place
    <2>1. /\ mmap # NoMap /\ mmap \in Seq(Entries) /\ entry = Len(mmap)
          /\ pc = "measure" /\ pc' = "free" /\ mmap' = mmap
          /\ total_frames' = highest_addr \div FrameSize
      BY <1>0, <1>4, MapsAssumption DEF Place, Types
    <2>2. \E k \in 1 .. Len(mmap) : mmap[k].available
      BY <1>0, <2>1, KernelInRam DEF Types
    <2>3. PICK k \in 1 .. Len(mmap) :
              mmap[k].available /\ RegionEnd(mmap[k]) = highest_addr
      BY <2>1, <2>2 DEF Top
    <2>4. k \in DOMAIN mmap
      BY <2>1, <2>3
    <2> QED  BY <2>1, <2>3, <2>4 DEF Top, RegionEnd, FrameEnd, Plus
  <1>5. CASE FreeRegion \/ Protect
    BY <1>0, <1>5 DEF Top, FreeRegion, Protect, RegionEnd, FrameEnd, Plus
  <1> QED
    BY <1>1, <1>2, <1>3, <1>4, <1>5
       DEF Next, Boot, pmm_alloc_frame, pmm_free_frame, pmmVars

LEMMA KeptStep ==
    ASSUME PmmInv, Kept, [Next]_pmmVars
    PROVE  Kept'
  <1>0. Types /\ Walk /\ Holders /\ total_frames \in Nat
    BY DEF PmmInv, Types
  <1>00. mmap \in Seq(Entries) /\ DOMAIN mmap = 1 .. Len(mmap) /\ Len(mmap) \in Nat
    BY <1>0, MapsAssumption DEF Types
  <1>1. CASE UNCHANGED <<mmap, pc, entry, total_frames, used, owned>>
    BY <1>1 DEF Kept, NothingLost, Free, Covered, FrameStart, FrameEnd, RegionEnd, Plus,
                Protected, ProtectedEnd, BitmapSize
  <1>2. CASE InitWithoutMap
    BY <1>2 DEF Kept, NothingLost, InitWithoutMap, NoMap
  <1>3. CASE MeasureRegion
    BY <1>3 DEF Kept, NothingLost, MeasureRegion
  <1>4. CASE Place
    BY <1>4 DEF Kept, NothingLost, Place
  <1>5. CASE FreeRegion
    <2>1. /\ entry \in Nat /\ entry < Len(mmap) /\ entry' = entry + 1
          /\ mmap' = mmap /\ pc = "free" /\ pc' = "free" /\ total_frames' = total_frames
      BY <1>0, <1>00, <1>5 DEF FreeRegion, Types
    <2>2. \A f \in Free : f \in Free'
      BY <1>5, <2>1 DEF FreeRegion, Free
    <2>3. ASSUME NEW f \in Nat, mmap[entry + 1].available, Covered(mmap[entry + 1], f)
          PROVE  f \in Free'
      <3>1. FrameEnd(mmap[entry + 1]) <= total_frames
        BY <1>0, <2>1, <2>3 DEF Walk
      <3>2. FrameEnd(mmap[entry + 1]) \in Nat
        BY <1>0, <2>1, EntryTypes, DivNat, SizesAssumption DEF FrameEnd, Addresses
      <3>3. f \in Region(mmap[entry + 1])
        BY <1>0, <2>3, <3>1, <3>2 DEF Covered, Region
      <3> QED  BY <1>5, <2>3, <3>3, RegionFree
    <2>4. ASSUME NEW k \in 1 .. entry', NEW f \in Nat,
                 mmap[k].available, Covered(mmap[k], f)
          PROVE  f \in Free'
      <3>1. k \in 1 .. entry \/ k = entry + 1
        BY <2>1
      <3> QED  BY <2>1, <2>2, <2>3, <2>4, <3>1 DEF Kept, NothingLost
    <2> QED
      BY <2>1, <2>4 DEF Kept, NothingLost, Covered, FrameStart, FrameEnd, RegionEnd, Plus
  <1>6. CASE Protect
    <2>1. /\ mmap' = mmap /\ pc = "free" /\ pc' = "ready"
          /\ total_frames' = total_frames /\ entry = Len(mmap)
      BY <1>6 DEF Protect
    <2>2. Free' = Free \ (Protected \cup {0})
      BY <1>6, ProtectFree
    <2> QED
      BY <1>00, <2>1, <2>2 DEF Kept, NothingLost, Covered, FrameStart, FrameEnd, RegionEnd,
         Plus, Protected, ProtectedEnd, BitmapSize
  <1>7. ASSUME pmm_alloc_frame \/ pmm_free_frame
        PROVE  Kept'
    <2>1. /\ UNCHANGED <<mmap, pc, entry, total_frames>> /\ pc = "ready"
      BY <1>7 DEF pmm_alloc_frame, pmm_free_frame
    <2>2. \A f \in Free \cup owned : f \in (Free \cup owned)'
      <3>1. CASE pmm_alloc_frame
        BY <3>1 DEF pmm_alloc_frame, Take, Free
      <3>2. CASE pmm_free_frame
        BY <1>0, <3>2 DEF pmm_free_frame, Give, Free, Holders
      <3> QED  BY <1>7, <3>1, <3>2
    <2> QED
      BY <2>1, <2>2 DEF Kept, NothingLost, Covered, FrameStart, FrameEnd, RegionEnd, Plus,
                        Protected, ProtectedEnd, BitmapSize
  <1> QED
    BY <1>1, <1>2, <1>3, <1>4, <1>5, <1>6, <1>7 DEF Next, Boot, pmmVars

(* pmm_init loses no RAM: whatever the map, every whole frame of an        *)
(* available region can be allocated, is held by a caller, or was set aside.*)
THEOREM NoRamIsLost == Spec => []NothingLost
  <1>1. Init => Kept
    BY TopInit
  <1>2. PmmInv /\ Kept /\ [Next]_pmmVars => Kept'
    BY KeptStep
  <1>3. Kept => NothingLost
    BY DEF Kept, NothingLost
  <1> QED  BY <1>1, <1>2, <1>3, PmmInvariant, PTL DEF Spec

(***************************************************************************)
(* A frame that is taken for the kernel itself, as paging.c takes its page *)
(* tables, leaves the allocator in order: it has a holder that no caller   *)
(* is.                                                                     *)
(***************************************************************************)
LEMMA ClaimStep ==
    ASSUME PmmInv, Covers, Top, pc = "ready", NEW f \in Free, Take(f),
           UNCHANGED <<mmap, pc, entry, highest_addr, total_frames, owned>>
    PROVE  PmmInv' /\ Covers' /\ Top'
  <1>0. Types /\ Walk /\ Holders /\ Origin /\ total_frames \in Nat
    BY DEF PmmInv, Types
  <1>1. Free' = Free \ {f} /\ free_frames' = free_frames - 1
    BY TakeFree DEF Take
  <1>2. Types'
    BY <1>0 DEF Types, Take, Free
  <1>3. Walk'
    BY <1>0 DEF Walk, Types, FrameEnd, RegionEnd, Plus
  <1>4. Holders'
    BY <1>0 DEF Holders, Take
  <1>5. Origin'
    <2> SUFFICES ASSUME NEW g \in Free \cup owned
                 PROVE  /\ \E k \in 1 .. entry : mmap[k].available /\ Covered(mmap[k], g)
                        /\ g \notin Protected \cup {0}
      BY <1>1 DEF Origin, Covered, FrameStart, FrameEnd, RegionEnd, Plus,
                  Protected, ProtectedEnd, BitmapSize
    <2> QED  BY <1>0 DEF Origin
  <1>6. Covers'
    <2>1. IsFiniteSet(Free) /\ Cardinality(Free) \in Nat
      BY <1>0, FiniteFree DEF Free
    <2>2. Cardinality(Free \ {f}) = Cardinality(Free) - 1 /\ Cardinality(Free) # 0
      BY <2>1, FS_RemoveElement, FS_EmptySet
    <2> QED  BY <1>1, <2>1, <2>2 DEF Covers
  <1>7. Top'
    BY DEF Top, RegionEnd, FrameEnd, Plus
  <1> QED  BY <1>2, <1>3, <1>4, <1>5, <1>6, <1>7 DEF PmmInv

LEMMA PmmStep ==
    PmmInv /\ Covers /\ Top /\ [Next]_pmmVars => (PmmInv /\ Covers /\ Top)'
  BY TypesStep, WalkStep, HoldersStep, OriginStep, CountStep, TopStep DEF PmmInv

LEMMA PmmInvTypes == PmmInv /\ Covers => TypeOK
  BY SizesAssumption DEF PmmInv, Types, Holders, Covers, TypeOK

----------------------------------------------------------------------------
(* Theorems.                                                               *)

LEMMA CountInit == Init => Covers /\ FreeCountExact
  BY FS_EmptySet DEF Init, Covers, FreeCountExact, Free

(* The bitmap, the counter and the indices stay in range; the unsigned     *)
(* free_frames of pmm.c never falls below zero, whatever the memory map.   *)
THEOREM PmmTypes == Spec => []TypeOK
  <1>1. Init => PmmInv /\ Covers /\ Top
    BY PmmInvInit, CountInit, TopInit
  <1> QED  BY <1>1, PmmStep, PmmInvTypes, PTL DEF Spec

(* free_frames is the number of clear bits, as long as the memory map does *)
(* not report a frame twice.                                               *)
THEOREM CountIsExact ==
    ASSUME DisjointRegions
    PROVE  Spec => []FreeCountExact
  <1>1. PmmInv /\ (Covers /\ FreeCountExact) /\ [Next]_pmmVars
            => (Covers /\ FreeCountExact)'
    BY CountStep
  <1> QED  BY <1>1, CountInit, PmmInvariant, PTL DEF Spec

(* No region starts in the last frame of the address space, where rounding *)
(* its start up wraps.                                                     *)
NoLateStart ==
    \A m \in Maps : \A k \in DOMAIN m :
        m[k].available => m[k].base + FrameSize - 1 < AddressSpace

LEMMA DivBounds ==
    ASSUME NEW a \in Nat, NEW n \in Nat \ {0}
    PROVE  /\ (a \div n) * n <= a
           /\ a <= (a \div n) * n + n - 1
  OBVIOUS

LEMMA MulMono ==
    ASSUME NEW a \in Nat, NEW b \in Nat, NEW n \in Nat, a <= b
    PROVE  a * n <= b * n
  OBVIOUS

LEMMA ModBelow ==
    ASSUME NEW a \in Nat, NEW n \in Nat \ {0}
    PROVE  a % n <= a /\ (a < n => a % n = a)
  OBVIOUS


(* A frame below the kernel's first one, or from the end of the bitmap on, *)
(* holds no byte of kernel and bitmap.                                     *)
LEMMA OutsideKernel ==
    ASSUME NEW f \in Nat, NEW total \in Nat,
           f \notin (KernelStart \div FrameSize) .. ProtectedEnd(total) - 1
    PROVE  FrameBytes(f) \cap
             (KernelStart .. KernelEnd + BitmapSize(total) - 1) = {}
  <1> DEFINE B == KernelEnd + BitmapSize(total)
             K == KernelStart \div FrameSize
             E == ProtectedEnd(total)
  <1>0. FrameSize \in Nat \ {0} /\ KernelStart \in Nat
    BY SizesAssumption
  <1>1. BitmapSize(total) \in Nat
    BY DivNat DEF BitmapSize
  <1>2. B \in Nat /\ B + FrameSize - 1 \in Nat
    BY <1>1, SizesAssumption
  <1>3. E = (B + FrameSize - 1) \div FrameSize
    BY DEF ProtectedEnd
  <1>4. E \in Nat /\ K \in Nat
    BY <1>0, <1>2, <1>3, DivNat
  <1>5. K * FrameSize <= KernelStart
    BY <1>0, DivBounds
  <1>6. B + FrameSize - 1 <= E * FrameSize + FrameSize - 1
    BY <1>0, <1>2, <1>3, DivBounds
  <1> HIDE DEF B, K, E
  <1>7. E * FrameSize \in Nat /\ K * FrameSize \in Nat /\ f * FrameSize \in Nat
    BY <1>0, <1>4
  <1>8. B <= E * FrameSize
    BY <1>0, <1>2, <1>6, <1>7
  <1>9. f < K \/ f >= E
    BY <1>4 DEF K, E
  <1>10. CASE f < K
    <2>1. (f + 1) * FrameSize <= K * FrameSize /\ (f + 1) * FrameSize \in Nat
      BY <1>0, <1>4, <1>10, MulMono
    <2>2. (f + 1) * FrameSize <= KernelStart
      BY <1>0, <1>5, <1>7, <2>1
    <2>3. \A x \in FrameBytes(f) : x < KernelStart
      BY <1>0, <1>7, <2>1, <2>2 DEF FrameBytes
    <2> QED  BY <1>0, <2>3
  <1>11. CASE f >= E
    <2>1. E * FrameSize <= f * FrameSize
      BY <1>0, <1>4, <1>11, MulMono
    <2>2. B <= f * FrameSize
      BY <1>2, <1>7, <1>8, <2>1
    <2>3. \A x \in FrameBytes(f) : x >= B
      BY <1>2, <1>7, <2>2 DEF FrameBytes
    <2>4. \A x \in KernelStart .. B - 1 : x < B
      BY <1>0, <1>2
    <2>5. FrameBytes(f) \cap (KernelStart .. B - 1) = {}
      <3> SUFFICES ASSUME NEW x \in FrameBytes(f), x \in KernelStart .. B - 1
                   PROVE  FALSE
        BY Zenon
      <3>1. x >= B
        BY <2>3
      <3>2. x \in Int /\ x < B
        BY <2>4
      <3> QED  BY <1>2, <3>1, <3>2
    <2> QED  BY <1>0, <1>1, <2>5, SizesAssumption DEF B
  <1> QED  BY <1>9, <1>10, <1>11

(* A frame that step 4 frees lies inside its region, to the last byte.     *)
LEMMA InsideRegion ==
    ASSUME Types, NoLateStart, NEW k \in 1 .. Len(mmap), mmap[k].available,
           NEW f \in Nat, Covered(mmap[k], f)
    PROVE  FrameBytes(f) \subseteq
             mmap[k].base .. mmap[k].base + mmap[k].length - 1
  <1> DEFINE b == mmap[k].base
             l == mmap[k].length
  <1>0. FrameSize \in Nat \ {0} /\ AddressSpace \in Nat \ {0}
    BY SizesAssumption
  <1>1. /\ b \in Nat /\ l \in Nat /\ mmap \in Seq(Entries)
        /\ RegionEnd(mmap[k]) \in Nat
        /\ FrameStart(mmap[k]) \in Nat /\ FrameEnd(mmap[k]) \in Nat
    BY EntryTypes, MapsAssumption, SizesAssumption DEF Addresses, Types
  <1>2. b + FrameSize - 1 < AddressSpace
    BY <1>1 DEF NoLateStart, Types
  <1>3. b + (FrameSize - 1) \in Nat /\ b + (FrameSize - 1) < AddressSpace
    BY <1>0, <1>1, <1>2
  <1>4. Plus(b, FrameSize - 1) = b + (FrameSize - 1)
    BY <1>0, <1>3, ModBelow DEF Plus
  <1>5. RegionEnd(mmap[k]) <= b + l
    <2>1. b + l \in Nat
      BY <1>1
    <2>2. (b + l) % AddressSpace <= b + l
      BY <1>0, <2>1, ModBelow
    <2> QED  BY <2>2 DEF RegionEnd, Plus
  <1>6. b + (FrameSize - 1) <= FrameStart(mmap[k]) * FrameSize + FrameSize - 1
    BY <1>0, <1>3, <1>4, DivBounds DEF FrameStart
  <1>7. FrameEnd(mmap[k]) * FrameSize <= RegionEnd(mmap[k])
    BY <1>0, <1>1, DivBounds DEF FrameEnd
  <1>8. FrameStart(mmap[k]) * FrameSize <= f * FrameSize
    BY <1>0, <1>1, MulMono DEF Covered
  <1>9. (f + 1) * FrameSize <= FrameEnd(mmap[k]) * FrameSize
    BY <1>0, <1>1, MulMono DEF Covered
  <1>10. /\ FrameStart(mmap[k]) * FrameSize \in Nat /\ f * FrameSize \in Nat
         /\ FrameEnd(mmap[k]) * FrameSize \in Nat /\ (f + 1) * FrameSize \in Nat
    BY <1>0, <1>1
  <1> HIDE DEF b, l
  <1>11. b <= f * FrameSize
    BY <1>0, <1>1, <1>6, <1>8, <1>10
  <1>12. (f + 1) * FrameSize <= b + l
    BY <1>1, <1>5, <1>7, <1>9, <1>10
  <1>13. FrameBytes(f) \subseteq b .. b + l - 1
    BY <1>1, <1>10, <1>11, <1>12 DEF FrameBytes
  <1> QED  BY <1>13 DEF b, l

(* "Deny by default", for every memory map: what pmm_alloc_frame hands out *)
(* is RAM that the map declares available, and neither kernel, bitmap nor  *)
(* frame 0.                                                                *)
THEOREM OnlyRamIsGiven ==
    ASSUME NoLateStart
    PROVE  Spec => []OnlyRamIsFree
  <1>1. ASSUME PmmInv PROVE OnlyRamIsFree
    <2> SUFFICES ASSUME pc = "ready", NEW f \in Free \cup owned
                 PROVE  /\ f # 0
                        /\ FrameBytes(f) \cap (KernelStart .. BitmapEnd - 1) = {}
                        /\ \E k \in DOMAIN mmap :
                              /\ mmap[k].available
                              /\ FrameBytes(f) \subseteq
                                    mmap[k].base .. mmap[k].base + mmap[k].length - 1
      BY DEF OnlyRamIsFree
    <2>1. Types /\ Walk /\ Holders /\ Origin /\ total_frames \in Nat
      BY <1>1 DEF PmmInv, Types
    <2>2. f \in Nat
      BY <2>1 DEF Holders, Free
    <2>3. f \notin Protected \cup {0}
      BY <2>1 DEF Origin
    <2>4. PICK k \in 1 .. entry : mmap[k].available /\ Covered(mmap[k], f)
      BY <2>1 DEF Origin
    <2>5. mmap \in Seq(Entries) /\ k \in 1 .. Len(mmap) /\ k \in DOMAIN mmap
      BY <2>1, MapsAssumption DEF Types
    <2>6. mmap # NoMap
      BY <2>5 DEF NoMap
    <2>7. FrameBytes(f) \cap (KernelStart .. BitmapEnd - 1) = {}
      <3>1. f \notin (KernelStart \div FrameSize) .. ProtectedEnd(total_frames) - 1
        BY <2>3 DEF Protected
      <3>2. FrameBytes(f) \cap
              (KernelStart .. KernelEnd + BitmapSize(total_frames) - 1) = {}
        BY <2>1, <2>2, <3>1, OutsideKernel
      <3>3. BitmapSize(total_frames) \in Nat
        BY <2>1, DivNat DEF BitmapSize
      <3>4. ASSUME NEW x \in FrameBytes(f), x \in KernelStart .. BitmapEnd - 1
            PROVE  x \in KernelStart .. KernelEnd + BitmapSize(total_frames) - 1
        BY <2>6, <3>3, <3>4, SizesAssumption DEF BitmapEnd
      <3> QED  BY <3>2, <3>4
    <2>8. FrameBytes(f) \subseteq mmap[k].base .. mmap[k].base + mmap[k].length - 1
      BY <2>1, <2>2, <2>4, <2>5, InsideRegion
    <2> QED  BY <2>3, <2>4, <2>5, <2>7, <2>8
  <1> QED  BY <1>1, PmmInvariant, PTL

(* The allocator implements the parking lot, whatever the memory map: no   *)
(* frame is handed out twice.                                              *)
THEOREM NoFrameTwice == Spec => IsLot
  <1> DEFINE A == IF pc = "ready" THEN Free ELSE {}
  <1>1. Init => Lot!LotInit
    BY DEF Init, Lot!LotInit
  <1>2. ASSUME PmmInv, [Next]_pmmVars PROVE [Lot!LotNext]_Lot!lotVars
    <2>0. Types /\ Walk /\ Holders /\ total_frames \in Nat
      BY <1>2 DEF PmmInv, Types
    <2>1. CASE UNCHANGED pmmVars
      BY <2>1 DEF pmmVars, Lot!lotVars, Free
    <2>2. CASE pc # "ready" /\ pc' # "ready" /\ UNCHANGED owned
      BY <2>2 DEF Lot!lotVars
    <2>3. CASE InitWithoutMap \/ Protect
      <3>1. pc # "ready" /\ pc' = "ready" /\ UNCHANGED <<owned, total_frames>>
        BY <2>3 DEF InitWithoutMap, Protect
      <3>2. Free' \in SUBSET Nat
        BY <2>0, <3>1 DEF Free
      <3> QED  BY <3>1, <3>2 DEF Lot!LotNext, Lot!LayOut
    <2>4. CASE pmm_alloc_frame
      <3>1. pc = "ready" /\ UNCHANGED <<pc, total_frames>>
        BY <2>4 DEF pmm_alloc_frame
      <3>2. PICK f \in Free : Take(f) /\ owned' = owned \cup {f}
        BY <2>4 DEF pmm_alloc_frame
      <3>3. Free' = Free \ {f}
        BY <3>1, <3>2, TakeFree
      <3> QED  BY <3>1, <3>2, <3>3 DEF Lot!LotNext, Lot!Give
    <2>5. CASE pmm_free_frame
      <3>1. pc = "ready" /\ UNCHANGED <<pc, total_frames>>
        BY <2>5 DEF pmm_free_frame
      <3>2. PICK f \in owned \cup Free \cup {total_frames} :
               Give(f) /\ owned' = owned \ {f}
        BY <2>5 DEF pmm_free_frame
      <3>3. CASE f \in owned
        <4>1. f \in used /\ f \in 0 .. total_frames - 1
          BY <2>0, <3>3 DEF Holders
        <4>2. Free' = Free \cup {f}
          BY <2>0, <3>1, <3>2, <4>1, GiveFree
        <4> QED  BY <3>1, <3>2, <3>3, <4>2 DEF Lot!LotNext, Lot!Return
      <3>4. CASE f \notin owned
        <4>1. UNCHANGED <<used, owned>>
          BY <2>0, <3>2, <3>4 DEF Give, Free
        <4> QED  BY <3>1, <4>1 DEF Lot!lotVars, Free
      <3> QED  BY <3>3, <3>4
    <2> QED
      BY <1>2, <2>0, <2>1, <2>2, <2>3, <2>4, <2>5
         DEF Next, Boot, MeasureRegion, Place, FreeRegion, Holders
  <1> QED  BY <1>1, <1>2, PmmInvariant, PTL DEF Spec, IsLot, Lot!LotSpec
=============================================================================
