--------------------------- MODULE FrameAllocator ---------------------------
(***************************************************************************)
(* What kernel/pmm.h promises: a parking lot.  "Give me any empty parking  *)
(* space", "I'm leaving this parking space, mark it empty"; a space is     *)
(* never given to two cars.                                                *)
(***************************************************************************)
CONSTANT Frames

VARIABLES
    open,       \* whether the lot has been laid out
    avail,      \* empty spaces
    owned       \* spaces given out

lotVars == <<open, avail, owned>>

LotInit == open = FALSE /\ avail = {} /\ owned = {}

LayOut ==
    /\ ~ open
    /\ open' = TRUE
    /\ avail' \in SUBSET Frames
    /\ UNCHANGED owned

Give ==
    /\ open
    /\ \E f \in avail : avail' = avail \ {f} /\ owned' = owned \cup {f}
    /\ UNCHANGED open

Return ==
    /\ open
    /\ \E f \in owned : avail' = avail \cup {f} /\ owned' = owned \ {f}
    /\ UNCHANGED open

LotNext == LayOut \/ Give \/ Return

LotSpec == LotInit /\ [][LotNext]_lotVars
=============================================================================
