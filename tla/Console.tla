------------------------------ MODULE Console ------------------------------
(***************************************************************************)
(* The text consoles: wm_putchar and wm_clear (kernel/wm.c) for a window,  *)
(* vga_putchar and vga_clear (kernel/vga.c) for the text screen.  A console*)
(* is a record of its cells, row by row, and the cursor.  Colours and the  *)
(* blinking hardware cursor are left out.                                  *)
(***************************************************************************)
EXTENDS Integers

CONSTANTS
    Rows, Cols,     \* max_rows and max_cols, VGA_ROWS and VGA_COLS
    TabStop,        \* 8
    Letters         \* the printable characters but the space

ASSUME GridAssumption ==
    /\ Rows \in Nat \ {0} /\ Cols \in Nat \ {0}
    /\ TabStop \in Nat \ {0}

Blank == " "
NL == "NL"
CR == "CR"
TAB == "TAB"
BS == "BS"
Controls == {NL, CR, TAB, BS}
Printable == Letters \cup {Blank}

ASSUME LettersAssumption == Letters \cap (Controls \cup {Blank}) = {}

Cells == 0 .. Rows * Cols - 1
Consoles == [text : [Cells -> Printable], row : 0 .. Rows - 1, col : 0 .. Cols - 1]

(* What wm_clear and vga_clear leave.                                      *)
Cleared == [text |-> [i \in Cells |-> Blank], row |-> 0, col |-> 0]

Cursor(s) == s.row * Cols + s.col

----------------------------------------------------------------------------
Write(s, c) == [s EXCEPT !.text[Cursor(s)] = c]
NextRow(s) == [text |-> s.text, row |-> s.row + 1, col |-> 0]
MoveTo(s, col) == IF col >= Cols THEN NextRow(s) ELSE [s EXCEPT !.col = col]
StepBack(s) == [s EXCEPT !.col = @ - 1]

(* At the left margin a window does nothing, the text screen blanks the    *)
(* cell under the cursor.                                                  *)
Backspace(window, s) ==
    IF s.col > 0 THEN Write(StepBack(s), Blank)
    ELSE IF window THEN s ELSE Write(s, Blank)

Tab(window, s) ==
    IF window THEN s ELSE MoveTo(s, ((s.col + TabStop) \div TabStop) * TabStop)

Moved(window, s, c) ==
    CASE c = NL  -> NextRow(s)
      [] c = CR  -> [s EXCEPT !.col = 0]
      [] c = BS  -> Backspace(window, s)
      [] c = TAB -> Tab(window, s)
      [] OTHER   -> MoveTo(Write(s, c), s.col + 1)

\* Mutant of Scroll: the new row is not cleared.
ScrollUncleared(s) ==
    IF s.row < Rows THEN s
    ELSE [text |-> [i \in Cells |-> IF i + Cols \in Cells THEN s.text[i + Cols] ELSE s.text[i]],
          row |-> Rows - 1, col |-> s.col]
Scroll(s) ==
    IF s.row < Rows THEN s
    ELSE [text |-> [i \in Cells |-> IF i + Cols \in Cells THEN s.text[i + Cols] ELSE Blank],
          row |-> Rows - 1, col |-> s.col]

Putchar(window, s, c) == Scroll(Moved(window, s, c))
=============================================================================
