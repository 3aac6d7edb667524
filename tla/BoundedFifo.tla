----------------------------- MODULE BoundedFifo -----------------------------
(***************************************************************************)
(* What keyboard.h promises: "like a queue between producer and consumer". *)
(* A queue of bounded capacity whose producer drops what does not fit, and *)
(* whose consumer gets every accepted item once, in order.                 *)
(***************************************************************************)
EXTENDS Integers, Sequences

CONSTANTS Item, Capacity, NoItem

VARIABLES
    queue,
    taken      \* the item the consumer took last

fifoVars == <<queue, taken>>

FifoInit == queue = <<>> /\ taken = NoItem

Put ==
    /\ Len(queue) < Capacity
    /\ \E i \in Item : queue' = Append(queue, i)
    /\ UNCHANGED taken

Take ==
    /\ queue # <<>>
    /\ taken' = Head(queue)
    /\ queue' = Tail(queue)

(* The consumer is done with the item it took.                             *)
Forget ==
    /\ taken' = NoItem
    /\ UNCHANGED queue

FifoNext == Put \/ Take \/ Forget

FifoSpec == FifoInit /\ [][FifoNext]_fifoVars
=============================================================================
