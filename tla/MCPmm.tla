------------------------------- MODULE MCPmm -------------------------------
(***************************************************************************)
(* Memory maps for TLC: a machine of 16 frames of 4 bytes, low memory, a   *)
(* hole below the kernel, and RAM above it.                                *)
(***************************************************************************)
EXTENDS Pmm

Ram(b, l) == [base |-> b, length |-> l, available |-> TRUE]
Rom(b, l) == [base |-> b, length |-> l, available |-> FALSE]

(* The usual map, whose regions do not end at frame boundaries.            *)
Usual == <<Ram(0, 11), Rom(11, 5), Ram(16, 35), Rom(60, 4)>>
(* Unsorted, with regions that start inside a frame, the first one too.    *)
Unsorted == <<Ram(33, 13), Ram(16, 14), Rom(60, 4), Ram(1, 9)>>
(* RAM up to the very end of the address space: its end wraps to 0.        *)
UpToTheTop == <<Ram(0, 8), Ram(16, 22), Ram(52, 12)>>

DisjointMaps == {NoMap, Usual, Unsorted, UpToTheTop}
=============================================================================
