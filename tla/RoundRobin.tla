----------------------------- MODULE RoundRobin -----------------------------
(***************************************************************************)
(* What kernel/task.h promises of the scheduler, without stacks, frames,   *)
(* interrupts or ticks: the tasks take turns in the order of their slots,  *)
(* only the task whose turn it is makes progress, and "B resumes exactly   *)
(* where it paused".                                                       *)
(***************************************************************************)
EXTENDS Integers

CONSTANTS Slots, Places, Fresh, Entered, Asleep, Awake

VARIABLES
    turn,     \* the slot whose task runs
    members,  \* how many slots take part
    place     \* per slot: where its task is in its code

roundVars == <<turn, members, place>>

RoundInit ==
    /\ turn = 0
    /\ members = 1
    /\ place \in [Slots -> Places]
    /\ \A s \in Slots \ {0} : place[s] = Fresh

(* A new task joins, at the end of the round.                              *)
Join ==
    /\ members \in Slots
    /\ members' = members + 1
    /\ \E p \in Places : place' = [place EXCEPT ![turn] = p]
    /\ UNCHANGED turn

(* The task whose turn it is moves; nobody else does.                      *)
Work ==
    /\ \E p \in Places : place' = [place EXCEPT ![turn] = p]
    /\ UNCHANGED <<turn, members>>

(* The turn passes.  The task that gets it starts, or continues exactly    *)
(* where it was; a sleep is over.                                          *)
Resumed(p) == CASE p = Fresh  -> Entered
                [] p = Asleep -> Awake
                [] OTHER      -> p
PassTurn ==
    /\ members > 1
    /\ turn' = (turn + 1) % members
    /\ place' = [place EXCEPT ![turn'] = Resumed(@)]
    /\ UNCHANGED members

RoundNext == Join \/ Work \/ PassTurn

RoundSafety == RoundInit /\ [][RoundNext]_roundVars

RoundRobinSpec == RoundSafety /\ WF_roundVars(PassTurn)
=============================================================================
