------------------------------ MODULE Display -------------------------------
(***************************************************************************)
(* The windows of the graphical mode, kernel/wm.c, and the tasks that paint*)
(* them: each task writes to the text grid of its own window and then calls*)
(* wm_render_all, which paints the grids of all windows.  Nothing excludes *)
(* two tasks from painting at a time: a timer tick switches between them   *)
(* anywhere.                                                               *)
(*                                                                         *)
(* A cell of the screen is the room of one character; its pixels are       *)
(* painted in one step.  Borders and titles never change and are left out. *)
(***************************************************************************)
EXTENDS Integers

CONSTANTS
    Windows,        \* window_count; window p belongs to painter p
    Size,           \* per window, how many characters it shows
    Chars, Blank,   \* Blank, the space, is also what an empty window shows
    Desktop,        \* the background of the screen
    Periodic        \* painters that render again and again (sysinfo)

ASSUME WindowsAssumption ==
    /\ Windows \in Nat \ {0} /\ Size \in [1 .. Windows -> Nat \ {0}]
    /\ Blank \in Chars /\ Desktop \notin Chars
    /\ Periodic \subseteq 1 .. Windows

Painters == 1 .. Windows
Cells    == UNION {{w} \X (1 .. Size[w]) : w \in Painters}
Phases   == {"rest", "dirty", "clear", "fill", "read", "draw"}

VARIABLES
    text,           \* the grids
    screen,
    phase,          \* how far each painter is
    win, pos,       \* its loop variables: the window, and the place in it
    held            \* the character that it took from the grid

vars == <<text, screen, phase, win, pos, held>>

(* kernel_main has rendered once when it creates the tasks.                *)
Init ==
    /\ text = [c \in Cells |-> Blank] /\ screen = text
    /\ phase = [p \in Painters |-> "rest"]
    /\ win = [p \in Painters |-> 1] /\ pos = [p \in Painters |-> 1]
    /\ held = [p \in Painters |-> Blank]

At(p) == <<win[p], pos[p]>>
Paint(p, v) == screen' = [screen EXCEPT ![At(p)] = v]

(* The next place: in the same window, in the next one, or none.           *)
Go(p, ph, w, k) ==
    /\ phase' = [phase EXCEPT ![p] = ph]
    /\ win' = [win EXCEPT ![p] = w] /\ pos' = [pos EXCEPT ![p] = k]

MoreHere(p) == pos[p] < Size[win[p]]

\* Mutant of MoreWindows: the last window is forgotten.
MoreButLast(p) == win[p] < Windows - 1
MoreWindows(p) == win[p] < Windows

----------------------------------------------------------------------------
(* A task writes a character to its window; scrolling and clearing write   *)
(* many.  shell_refresh, or the end of sysinfo's round, follows.           *)

\* Mutant of Put: the refresh is forgotten.
PutOnly(p, k, v) ==
    /\ phase[p] \in {"rest", "dirty"}
    /\ text' = [text EXCEPT ![<<p, k>>] = v]
    /\ UNCHANGED <<screen, phase, win, pos, held>>
Put(p, k, v) ==
    /\ phase[p] \in {"rest", "dirty"}
    /\ text' = [text EXCEPT ![<<p, k>>] = v]
    /\ phase' = [phase EXCEPT ![p] = "dirty"]
    /\ UNCHANGED <<screen, win, pos, held>>

wm_render_all(p) ==
    /\ phase[p] = "dirty" \/ (phase[p] = "rest" /\ p \in Periodic)
    /\ Go(p, "clear", 1, 1)
    /\ UNCHANGED <<text, screen, held>>

(* fb_clear, cell by cell.                                                 *)
Clear(p) ==
    /\ phase[p] = "clear"
    /\ Paint(p, Desktop)
    /\ \/ MoreHere(p) /\ Go(p, "clear", win[p], pos[p] + 1)
       \/ ~ MoreHere(p) /\ MoreWindows(p) /\ Go(p, "clear", win[p] + 1, 1)
       \/ ~ MoreHere(p) /\ ~ MoreWindows(p) /\ Go(p, "fill", 1, 1)
    /\ UNCHANGED <<text, held>>

(* draw_window: the background of the window, then each character, which   *)
(* is read from the grid before it is painted.                             *)
Fill(p) ==
    /\ phase[p] = "fill"
    /\ Paint(p, Blank)
    /\ \/ MoreHere(p) /\ Go(p, "fill", win[p], pos[p] + 1)
       \/ ~ MoreHere(p) /\ Go(p, "read", win[p], 1)
    /\ UNCHANGED <<text, held>>

Read(p) ==
    /\ phase[p] = "read"
    /\ held' = [held EXCEPT ![p] = text[At(p)]]
    /\ phase' = [phase EXCEPT ![p] = "draw"]
    /\ UNCHANGED <<text, screen, win, pos>>

Draw(p) ==
    /\ phase[p] = "draw"
    /\ Paint(p, held[p])
    /\ \/ MoreHere(p) /\ Go(p, "read", win[p], pos[p] + 1)
       \/ ~ MoreHere(p) /\ MoreWindows(p) /\ Go(p, "fill", win[p] + 1, 1)
       \/ ~ MoreHere(p) /\ ~ MoreWindows(p) /\ Go(p, "rest", 1, 1)
    /\ UNCHANGED <<text, held>>

Painting(p) == wm_render_all(p) \/ Clear(p) \/ Fill(p) \/ Read(p) \/ Draw(p)

Next ==
    \E p \in Painters :
        \/ \E k \in 1 .. Size[p], v \in Chars : Put(p, k, v)
        \/ Painting(p)

Spec == Init /\ [][Next]_vars

(* Each task gets the CPU again and again, and finishes what it prints.    *)
FairSpec == Spec /\ \A p \in Painters : WF_vars(Painting(p))

----------------------------------------------------------------------------
(* Properties.                                                             *)

(* Every variable stays in its range: each painter's place is a cell, so   *)
(* that it neither reads outside a grid nor paints outside a window.       *)
TypeOK ==
    /\ text \in [Cells -> Chars]
    /\ screen \in [Cells -> Chars \cup {Desktop}]
    /\ phase \in [Painters -> Phases]
    /\ win \in [Painters -> Painters] /\ pos \in [Painters -> Nat]
    /\ \A p \in Painters : At(p) \in Cells
    /\ held \in [Painters -> Chars]

(* Painter q has still to paint what c holds at this moment.               *)
Ahead(q, c) == c[1] > win[q] \/ (c[1] = win[q] /\ c[2] > pos[q])
Pending(q, c) ==
    \/ phase[q] \in {"dirty", "clear"}
    \/ phase[q] = "fill" /\ c[1] >= win[q]
    \/ phase[q] = "read" /\ (Ahead(q, c) \/ c = At(q))
    \/ phase[q] = "draw" /\ (Ahead(q, c) \/ (c = At(q) /\ held[q] = text[c]))

Right(c) == screen[c] = text[c] \/ \E q \in Painters : Pending(q, c)

(* Whatever the tasks overpaint of each other, one thing alone leaves a    *)
(* wrong character on the screen with nobody about to correct it: a        *)
(* painter that was preempted between reading a cell and painting it, while*)
(* the owner of the window wrote to the cell.                              *)
OnlyAStaleReadMisleads ==
    [][\A c \in Cells : Right(c) /\ ~ Right(c)' =>
          \E q \in Painters : phase[q] = "draw" /\ At(q) = c /\ held[q] # text[c]]_vars

(* The screen recovers from that: what a window holds for good, whatever   *)
(* the other windows do, is on the screen again and again.                 *)
TextComesBack ==
    \A c \in Cells, v \in Chars : <>[](text[c] = v) => []<>(screen[c] = v)
=============================================================================
