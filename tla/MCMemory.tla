------------------------------ MODULE MCMemory ------------------------------
(***************************************************************************)
(* A machine of 32 pages of 4 bytes, whose page tables have 4 entries: the *)
(* two static tables cover pages 0 .. 7, the kernel and the bitmap lie in  *)
(* frames 4 and 5, the heap in 6 and 7, and RAM ends after frame 8.        *)
(***************************************************************************)
EXTENDS Memory

Ram(b, l) == [base |-> b, length |-> l, available |-> TRUE]

Usual == <<Ram(0, 12), Ram(16, 20)>>
(* One frame to spare beside the kernel and the bitmap: no second table.   *)
Scarce == <<Ram(4, 4), Ram(16, 8)>>

OneMap == {Usual}
SomeMaps == {Usual, Scarce, <<>>}

Screen(base, size) ==
    [offered |-> TRUE, rgb |-> TRUE, deep |-> TRUE,
     base |-> base, size |-> size]

(* Inside one table; over a table boundary with both ends inside a page;   *)
(* of one page; inside the static range; up to the top of the address      *)
(* space; up to the page below it; and one that cannot be used.            *)
SomeScreens ==
    {Screen(64, 16), Screen(74, 11), Screen(81, 2), Screen(28, 7),
     Screen(112, 16), Screen(113, 11), [Screen(64, 16) EXCEPT !.deep = FALSE]}

OneScreen == {Screen(64, 16)}

(* 1 and 3 need padding; 127 wraps.                                        *)
Sizes == {0, 1, 3, 127}
(* Behind the bitmap; at 0 when there is no memory map.                    *)
HeapPlaces == {<<24, 8>>, <<0, 8>>}
=============================================================================
