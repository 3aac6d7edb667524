-------------------------------- MODULE Heap --------------------------------
(***************************************************************************)
(* The kernel heap, kernel/heap.c: a bump allocator.  kmalloc advances a   *)
(* watermark; kfree does nothing and has no action here.  Addresses are    *)
(* unsigned and wrap.                                                      *)
(***************************************************************************)
EXTENDS Integers

CONSTANTS
    AddressSpace,   \* 2^32
    Places,         \* <<start, size>>: what heap_init may be called with
    Requests        \* sizes that callers ask for

ASSUME AddressSpaceAssumption == AddressSpace \in Nat /\ AddressSpace > 3
ASSUME RequestsAssumption == Requests \subseteq 0 .. AddressSpace - 1
\* kernel_main hands over whole words that end below the top of memory.
ASSUME PlacesAssumption == \A p \in Places :
    /\ p[1] \in Nat /\ p[2] \in Nat
    /\ p[1] % 4 = 0 /\ p[2] % 4 = 0
    /\ p[1] + p[2] + 3 < AddressSpace

VARIABLES
    heap_start, heap_end, next_free,
    blocks          \* what kmalloc has returned: [at, size] records

heapVars == <<heap_start, heap_end, next_free, blocks>>

HeapUnset == heap_start = 0 /\ heap_end = 0 /\ next_free = 0 /\ blocks = {}

Plus(a, b) == IF a + b < AddressSpace THEN a + b ELSE a + b - AddressSpace

(* (a + 3) & ~3                                                            *)
AlignUp(a) == (Plus(a, 3) \div 4) * 4

heap_init(start, size) ==
    /\ heap_end = 0
    /\ heap_start' = start
    /\ heap_end' = start + size
    /\ next_free' = start
    /\ UNCHANGED blocks

(* Does a block of that size, at the aligned watermark, fit?  The second   *)
(* test is for a sum that wraps.                                           *)
\* Mutants of Fits: no test for wrapping; the last byte counted twice.
FitsUnwrapped(at, size) == Plus(at, size) <= heap_end
Fits(at, size) == Plus(at, size) <= heap_end /\ Plus(at, size) >= at

(* A request that fails has moved the watermark up to a word all the same. *)
kmalloc(size) ==
    /\ size > 0
    /\ IF Fits(AlignUp(next_free), size)
       THEN /\ next_free' = Plus(AlignUp(next_free), size)
            /\ blocks' = blocks \cup {[at |-> AlignUp(next_free), size |-> size]}
       ELSE next_free' = AlignUp(next_free) /\ UNCHANGED blocks
    /\ UNCHANGED <<heap_start, heap_end>>

HeapNext ==
    \/ \E p \in Places : heap_init(p[1], p[2])
    \/ \E size \in Requests : heap_end > 0 /\ kmalloc(size)

HeapSpec == HeapUnset /\ [][HeapNext]_heapVars

----------------------------------------------------------------------------
(* Properties.                                                             *)

Bytes(b) == b.at .. b.at + b.size - 1

(* Every variable stays in its range: the watermark never passes the end.  *)
HeapTypeOK ==
    /\ heap_start \in Nat /\ heap_end \in Nat
    /\ next_free \in heap_start .. heap_end
    /\ blocks \subseteq [at : Nat, size : Nat]

(* Whatever kmalloc returned lies inside the heap, is aligned, and shares  *)
(* no byte with anything it returned before, even after requests so large  *)
(* that the sum wraps.                                                     *)
BlocksApart ==
    /\ \A b \in blocks :
          b.at % 4 = 0 /\ Bytes(b) \subseteq heap_start .. heap_end - 1
    /\ \A b, d \in blocks : b # d => Bytes(b) \cap Bytes(d) = {}
=============================================================================
