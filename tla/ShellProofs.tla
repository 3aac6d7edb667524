---------------------------- MODULE ShellProofs ----------------------------
(***************************************************************************)
(* Theorems about Shell and Console, for every size of the console, every  *)
(* length of the line buffer and of argv, and every text.                  *)
(*                                                                         *)
(* First the console alone: what putchar does to a console whose cells are *)
(* blank from the cursor on.  Then the steps of the shell.                 *)
(***************************************************************************)
EXTENDS Shell, SequenceTheorems, WellFoundedInduction, TLAPS

Output == Printable \cup {NL, BS}

(* A console whose cursor may have left the grid at the bottom.            *)
Loose == [text : [Cells -> Printable], row : 0 .. Rows, col : 0 .. Cols - 1]

Ahead(s) == \A k \in Cells : k >= Cursor(s) => s.text[k] = Blank

----------------------------------------------------------------------------
(* Arithmetic of the grid.                                                 *)

LEMMA GridTypes ==
    /\ Rows \in Nat /\ Cols \in Nat /\ Rows >= 1 /\ Cols >= 1
    /\ Rows * Cols \in Nat
    /\ \A r \in Nat : r * Cols \in Nat /\ (r + 1) * Cols = r * Cols + Cols
  BY GridAssumption

LEMMA RowBound ==
    ASSUME NEW r \in Nat, r < Rows
    PROVE  r * Cols + Cols <= Rows * Cols
  <1> DEFINE d == Rows - (r + 1)
  <1>1. d \in Nat /\ Rows = (r + 1) + d
    BY GridTypes
  <1>2. Rows * Cols = (r + 1) * Cols + d * Cols
    BY <1>1, GridTypes
  <1>3. d * Cols \in Nat
    BY <1>1, GridTypes
  <1>4. (r + 1) * Cols = r * Cols + Cols /\ r * Cols \in Nat
    BY GridTypes
  <1> HIDE DEF d
  <1> QED  BY <1>2, <1>3, <1>4, GridTypes

LEMMA CursorInCells ==
    ASSUME NEW s, s.row \in 0 .. Rows - 1, s.col \in 0 .. Cols - 1
    PROVE  Cursor(s) \in Cells /\ Cursor(s) = s.row * Cols + s.col
  <1>1. s.row \in Nat /\ s.row < Rows /\ s.col \in Nat /\ s.col < Cols
    BY GridTypes
  <1>2. s.row * Cols + Cols <= Rows * Cols /\ s.row * Cols \in Nat
    BY <1>1, RowBound, GridTypes
  <1> QED  BY <1>1, <1>2, GridTypes DEF Cursor, Cells

LEMMA CharFacts ==
    /\ NL \notin Printable /\ BS \notin Printable
    /\ CR \notin Output /\ TAB \notin Output
    /\ NL # BS /\ Blank \in Printable
  BY LettersAssumption DEF Printable, Output, NL, BS, CR, TAB, Blank, Controls

----------------------------------------------------------------------------
(* putchar.                                                                *)

LEMMA NextRowStep ==
    ASSUME NEW s \in Consoles, Ahead(s)
    PROVE  NextRow(s) \in Loose /\ Ahead(NextRow(s))
  <1>1. /\ s.row \in Nat /\ s.row < Rows /\ s.col \in Nat /\ s.col < Cols
        /\ s.text \in [Cells -> Printable]
    BY GridTypes DEF Consoles
  <1>2. NextRow(s) = [text |-> s.text, row |-> s.row + 1, col |-> 0]
    BY DEF NextRow, Consoles
  <1>3. NextRow(s) \in Loose
    BY <1>1, <1>2, GridTypes DEF Loose
  <1>4. s.row * Cols \in Nat /\ (s.row + 1) * Cols = s.row * Cols + Cols
    BY <1>1, GridTypes
  <1>5. Cursor(NextRow(s)) = s.row * Cols + Cols
    BY <1>2, <1>4, GridTypes DEF Cursor
  <1>6. Cursor(s) = s.row * Cols + s.col
    BY DEF Cursor
  <1>7. ASSUME NEW k \in Cells, k >= Cursor(NextRow(s)) PROVE s.text[k] = Blank
    <2>1. k \in Int
      BY GridTypes DEF Cells
    <2>2. Cursor(NextRow(s)) >= Cursor(s) /\ Cursor(s) \in Int /\ Cursor(NextRow(s)) \in Int
      BY <1>1, <1>4, <1>5, <1>6, GridTypes
    <2>3. k >= Cursor(s)
      BY <1>7, <2>1, <2>2
    <2> QED  BY <2>3 DEF Ahead
  <1> QED  BY <1>2, <1>3, <1>7 DEF Ahead

LEMMA WriteType ==
    ASSUME NEW s \in Consoles, NEW c \in Printable
    PROVE  /\ Write(s, c) \in Consoles
           /\ Write(s, c).row = s.row /\ Write(s, c).col = s.col
           /\ Cursor(Write(s, c)) = Cursor(s)
           /\ \A k \in Cells : Write(s, c).text[k] = IF k = Cursor(s) THEN c ELSE s.text[k]
  <1>1. Write(s, c) = [text |-> [s.text EXCEPT ![Cursor(s)] = c], row |-> s.row, col |-> s.col]
    BY DEF Write, Consoles
  <1>2. s.text \in [Cells -> Printable]
    BY DEF Consoles
  <1>3. [s.text EXCEPT ![Cursor(s)] = c] \in [Cells -> Printable]
    BY <1>2
  <1> QED  BY <1>1, <1>2, <1>3 DEF Consoles, Cursor

LEMMA TypedStep ==
    ASSUME NEW s \in Consoles, Ahead(s), NEW c \in Printable
    PROVE  /\ MoveTo(Write(s, c), s.col + 1) \in Loose
           /\ Ahead(MoveTo(Write(s, c), s.col + 1))
  <1> DEFINE w == Write(s, c)
  <1>1. /\ w \in Consoles /\ w.row = s.row /\ w.col = s.col /\ Cursor(w) = Cursor(s)
        /\ \A k \in Cells : w.text[k] = IF k = Cursor(s) THEN c ELSE s.text[k]
    BY WriteType
  <1> HIDE DEF w
  <1>2. /\ s.row \in Nat /\ s.row < Rows /\ s.col \in Nat /\ s.col < Cols
        /\ w.text \in [Cells -> Printable]
    BY <1>1, GridTypes DEF Consoles
  <1>3. Cursor(s) = s.row * Cols + s.col /\ Cursor(s) \in Nat
    BY <1>2, GridTypes DEF Cursor
  <1>4. \A k \in Cells : k >= Cursor(s) + 1 => w.text[k] = Blank
    <2> SUFFICES ASSUME NEW k \in Cells, k >= Cursor(s) + 1 PROVE w.text[k] = Blank
      OBVIOUS
    <2>1. k \in Int /\ k >= Cursor(s) /\ k # Cursor(s)
      BY <1>3, GridTypes DEF Cells
    <2> QED  BY <1>1, <2>1 DEF Ahead
  <1>5. CASE s.col + 1 >= Cols
    <2>1. MoveTo(w, s.col + 1) = [text |-> w.text, row |-> s.row + 1, col |-> 0]
      BY <1>1, <1>5 DEF MoveTo, NextRow, Consoles
    <2>2. MoveTo(w, s.col + 1) \in Loose
      BY <1>2, <2>1, GridTypes DEF Loose
    <2>3. Cursor(MoveTo(w, s.col + 1)) = (s.row + 1) * Cols + 0
      BY <2>1 DEF Cursor
    <2>4. (s.row + 1) * Cols = s.row * Cols + Cols /\ s.row * Cols \in Nat /\ s.col + 1 = Cols
      BY <1>2, <1>5, GridTypes
    <2>5. Cursor(MoveTo(w, s.col + 1)) = Cursor(s) + 1
      BY <1>2, <1>3, <2>3, <2>4, GridTypes
    <2> QED  BY <1>4, <2>1, <2>2, <2>5 DEF Ahead, w
  <1>6. CASE ~ (s.col + 1 >= Cols)
    <2>1. MoveTo(w, s.col + 1) = [text |-> w.text, row |-> s.row, col |-> s.col + 1]
      BY <1>1, <1>6 DEF MoveTo, Consoles
    <2>2. MoveTo(w, s.col + 1) \in Loose
      BY <1>2, <1>6, <2>1, GridTypes DEF Loose
    <2>3. Cursor(MoveTo(w, s.col + 1)) = s.row * Cols + (s.col + 1)
      BY <2>1 DEF Cursor
    <2>4. s.row * Cols \in Nat
      BY <1>2, GridTypes
    <2>5. Cursor(MoveTo(w, s.col + 1)) = Cursor(s) + 1
      BY <1>2, <1>3, <2>3, <2>4
    <2> QED  BY <1>4, <2>1, <2>2, <2>5 DEF Ahead, w
  <1> QED  BY <1>5, <1>6 DEF w

LEMMA BackspaceStep ==
    ASSUME NEW s \in Consoles, Ahead(s), NEW window \in BOOLEAN
    PROVE  Backspace(window, s) \in Loose /\ Ahead(Backspace(window, s))
  <1>1. /\ s.row \in Nat /\ s.row < Rows /\ s.col \in Nat /\ s.col < Cols
        /\ s.text \in [Cells -> Printable]
    BY GridTypes DEF Consoles
  <1>2. Blank \in Printable
    BY CharFacts
  <1>3. \A x \in Consoles : x \in Loose
    BY GridTypes DEF Consoles, Loose
  <1>4. CASE s.col > 0
    <2> DEFINE b == StepBack(s)
    <2>1. b = [text |-> s.text, row |-> s.row, col |-> s.col - 1]
      BY DEF StepBack, Consoles
    <2>2. b \in Consoles
      BY <1>1, <1>4, <2>1, GridTypes DEF Consoles
    <2>3. s.row * Cols \in Nat
      BY <1>1, GridTypes
    <2>4. Cursor(s) = s.row * Cols + s.col /\ Cursor(b) = s.row * Cols + (s.col - 1)
      BY <2>1 DEF Cursor
    <2>5. Cursor(s) = Cursor(b) + 1 /\ Cursor(b) \in Int
      BY <1>1, <2>3, <2>4
    <2>6. Ahead(Write(b, Blank))
      <3> SUFFICES ASSUME NEW k \in Cells, k >= Cursor(b)
                   PROVE  Write(b, Blank).text[k] = Blank
        BY <1>2, <2>2, WriteType DEF Ahead
      <3>1. k = Cursor(b) \/ k >= Cursor(s)
        BY <2>5, GridTypes DEF Cells
      <3>2. b.text = s.text
        BY <2>1
      <3>3. Write(b, Blank).text[k] = IF k = Cursor(b) THEN Blank ELSE b.text[k]
        BY <1>2, <2>2, WriteType
      <3>4. k >= Cursor(s) => s.text[k] = Blank
        BY DEF Ahead
      <3> HIDE DEF b
      <3> QED  BY <3>1, <3>2, <3>3, <3>4
    <2>7. Write(b, Blank) \in Loose
      BY <1>2, <1>3, <2>2, WriteType
    <2> QED  BY <1>4, <2>6, <2>7 DEF Backspace
  <1>5. CASE ~ (s.col > 0) /\ window
    BY <1>3, <1>5 DEF Backspace
  <1>6. CASE ~ (s.col > 0) /\ ~ window
    <2>1. Backspace(window, s) = Write(s, Blank)
      BY <1>6 DEF Backspace
    <2>2. Write(s, Blank) \in Loose
      BY <1>2, <1>3, WriteType
    <2>3. Cursor(Write(s, Blank)) = Cursor(s)
      BY <1>2, WriteType
    <2>4. \A k \in Cells : Write(s, Blank).text[k] = IF k = Cursor(s) THEN Blank ELSE s.text[k]
      BY <1>2, WriteType
    <2> QED  BY <2>1, <2>2, <2>3, <2>4 DEF Ahead
  <1> QED  BY <1>4, <1>5, <1>6

LEMMA ScrollStep ==
    ASSUME NEW s \in Loose, Ahead(s)
    PROVE  Scroll(s) \in Consoles /\ Ahead(Scroll(s))
  <1>1. /\ s.row \in 0 .. Rows /\ s.col \in Nat /\ s.col < Cols
        /\ s.text \in [Cells -> Printable]
    BY GridTypes DEF Loose
  <1>2. CASE s.row < Rows
    BY <1>1, <1>2, GridTypes DEF Scroll, Loose, Consoles
  <1>3. CASE ~ (s.row < Rows)
    <2> DEFINE text == [k \in Cells |-> IF k + Cols \in Cells THEN s.text[k + Cols] ELSE Blank]
    <2>1. s.row = Rows
      BY <1>1, <1>3, GridTypes
    <2>2. Scroll(s) = [text |-> text, row |-> Rows - 1, col |-> s.col]
      BY <1>3 DEF Scroll
    <2>3. text \in [Cells -> Printable]
      BY <1>1, CharFacts
    <2>4. Scroll(s) \in Consoles
      BY <1>1, <2>2, <2>3, GridTypes DEF Consoles
    <2>5. Cursor(s) = Rows * Cols + s.col
      BY <2>1 DEF Cursor
    <2>6. Cursor(Scroll(s)) = (Rows - 1) * Cols + s.col
      BY <2>2 DEF Cursor
    <2>7. (Rows - 1) * Cols + Cols = Rows * Cols /\ (Rows - 1) * Cols \in Nat
      <3>1. Rows - 1 \in Nat /\ (Rows - 1) + 1 = Rows
        BY GridTypes
      <3> QED  BY <3>1, GridTypes
    <2>8. ASSUME NEW k \in Cells, k >= Cursor(Scroll(s)) PROVE text[k] = Blank
      <3>1. k \in Int /\ k + Cols >= Rows * Cols + s.col
        BY <1>1, <2>6, <2>7, <2>8, GridTypes DEF Cells
      <3>2. k + Cols \notin Cells
        BY <1>1, <3>1, GridTypes DEF Cells
      <3> QED  BY <3>2
    <2> HIDE DEF text
    <2> QED  BY <2>2, <2>4, <2>8 DEF Ahead
  <1> QED  BY <1>2, <1>3

LEMMA PutcharStep ==
    ASSUME NEW s \in Consoles, Ahead(s), NEW window \in BOOLEAN, NEW c \in Output
    PROVE  Putchar(window, s, c) \in Consoles /\ Ahead(Putchar(window, s, c))
  <1>1. c # CR /\ c # TAB
    BY CharFacts
  <1>2. CASE c = NL
    <2>1. Moved(window, s, c) = NextRow(s)
      BY <1>2 DEF Moved, NL, CR, BS, TAB
    <2> QED  BY <2>1, NextRowStep, ScrollStep DEF Putchar
  <1>3. CASE c = BS
    <2>1. Moved(window, s, c) = Backspace(window, s)
      BY <1>3 DEF Moved, NL, CR, BS, TAB
    <2> QED  BY <2>1, BackspaceStep, ScrollStep DEF Putchar
  <1>4. CASE c \in Printable
    <2>1. c # NL /\ c # BS
      BY <1>4, CharFacts
    <2>2. Moved(window, s, c) = MoveTo(Write(s, c), s.col + 1)
      BY <1>1, <2>1 DEF Moved
    <2> QED  BY <1>4, <2>2, TypedStep, ScrollStep DEF Putchar
  <1> QED  BY <1>2, <1>3, <1>4 DEF Output

----------------------------------------------------------------------------
(* C strings.                                                              *)

LEMMA LeastNatural ==
    ASSUME NEW T \in SUBSET Nat, T # {}
    PROVE  \E x \in T : \A y \in T : x <= y
  <1>1. \E x \in T : \A y \in T : ~ (<<y, x>> \in OpToRel(<, Nat))
    BY NatLessThanWellFounded, WFMin
  <1>2. PICK x \in T : \A y \in T : ~ (<<y, x>> \in OpToRel(<, Nat))
    BY <1>1
  <1>3. ASSUME NEW y \in T PROVE x <= y
    <2>1. x \in Nat /\ y \in Nat
      OBVIOUS
    <2>2. ~ (y < x)
      BY <1>2, <2>1 DEF OpToRel
    <2> QED  BY <2>1, <2>2
  <1> QED  BY <1>3

(* A C string that starts inside the line consists of printable characters.*)
LEMMA ArgType ==
    ASSUME line \in Seq(Printable \cup {NUL}), NEW k, argv[k] \in Nat \ {0}
    PROVE  Arg(k) \in Seq(Printable)
  <1> DEFINE s == argv[k]
  <1>1. Len(line) \in Nat /\ s \in Nat /\ s >= 1
    BY LenProperties
  <1>2. Ends(s) \in SUBSET Nat /\ Len(line) + 1 \in Ends(s)
    BY <1>1 DEF Ends
  <1>3. \E e \in Ends(s) : \A d \in Ends(s) : e <= d
    BY <1>2, LeastNatural
  <1>4. StringEnd(s) \in Ends(s) /\ \A d \in Ends(s) : StringEnd(s) <= d
    BY <1>3 DEF StringEnd
  <1>5. StringEnd(s) \in Nat /\ StringEnd(s) <= Len(line) + 1
    BY <1>2, <1>4
  <1>6. ASSUME NEW e \in s .. StringEnd(s) - 1 PROVE line[e] \in Printable
    <2>1. e \in s .. Len(line) /\ e \in 1 .. Len(line) /\ e < StringEnd(s) /\ e \in Nat
      BY <1>1, <1>5
    <2>2. e \notin Ends(s)
      BY <1>2, <1>4, <1>5, <2>1
    <2>3. line[e] # NUL
      BY <2>1, <2>2 DEF Ends
    <2>4. line[e] \in Printable \cup {NUL}
      BY <2>1, ElementOfSeq
    <2> QED  BY <2>3, <2>4
  <1>7. s \in Int /\ StringEnd(s) - 1 \in Int
    BY <1>1, <1>5
  <1> QED  BY <1>6, <1>7, SubSeqProperties DEF Arg

----------------------------------------------------------------------------
(* The steps of the shell.                                                 *)

LineFits ==
    /\ pc = "boot" => line = <<>>
    /\ pc = "read" => line \in Seq(Printable) /\ Len(line) < MaxLine - 1

ShellInv == TypeOK /\ LineFits /\ BlankAhead

LEMMA Lengths ==
    ASSUME ShellInv
    PROVE  /\ con \in Consoles /\ Ahead(con) /\ shell_window \in BOOLEAN
           /\ out \in Seq(Output) /\ line \in Seq(Printable \cup {NUL})
           /\ Len(line) \in Nat /\ Len(line) < MaxLine
           /\ argv \in Seq(1 .. MaxLine) /\ Len(argv) \in Nat /\ Len(argv) <= MaxArgs
           /\ MaxLine \in Nat /\ MaxLine >= 2 /\ MaxArgs \in Nat /\ MaxArgs >= 1
  <1>1. /\ con \in Consoles /\ shell_window \in BOOLEAN
        /\ out \in Seq(Output) /\ line \in Seq(Printable \cup {NUL})
        /\ Len(line) < MaxLine /\ argv \in Seq(1 .. MaxLine) /\ Len(argv) <= MaxArgs
    BY DEF ShellInv, TypeOK, Output
  <1>2. Ahead(con)
    BY DEF ShellInv, BlankAhead, Ahead
  <1> QED  BY <1>1, <1>2, LenProperties, ShellAssumption

LEMMA ShellInit == Init => ShellInv
  <1> SUFFICES ASSUME Init PROVE ShellInv
    OBVIOUS
  <1>1. Cleared \in Consoles /\ Ahead(Cleared)
    <2>1. 0 \in 0 .. Rows - 1 /\ 0 \in 0 .. Cols - 1 /\ Blank \in Printable
      BY GridTypes, CharFacts
    <2> QED  BY <2>1 DEF Cleared, Consoles, Ahead
  <1>2. line = <<>> /\ out = <<>> /\ argv = <<>> /\ con = Cleared
    BY DEF Init
  <1>3. Len(line) = 0 /\ Len(argv) = 0
    BY <1>2
  <1>4. TypeOK
    <2>1. line \in Seq(Printable \cup {NUL}) /\ out \in Seq(Printable \cup {NL, BS})
          /\ argv \in Seq(1 .. MaxLine)
      BY <1>2, EmptySeq
    <2>2. 2 \in 2 .. MaxArgs + 1 /\ 0 < MaxLine /\ 0 <= MaxArgs /\ 1 \in 1 .. 0 + 1
      BY ShellAssumption
    <2> QED  BY <1>1, <1>2, <1>3, <2>1, <2>2 DEF Init, TypeOK
  <1>5. LineFits
    BY <1>2 DEF Init, LineFits
  <1> QED  BY <1>1, <1>2, <1>4, <1>5 DEF ShellInv, BlankAhead, Ahead

LEMMA EmitStep ==
    ASSUME ShellInv, Emit
    PROVE  ShellInv'
  <1>1. Head(out) \in Output /\ Tail(out) \in Seq(Output)
    BY Lengths, HeadTailProperties DEF Emit
  <1>2. con' \in Consoles /\ Ahead(con')
    BY <1>1, Lengths, PutcharStep DEF Emit
  <1>3. BlankAhead'
    BY <1>2 DEF Ahead, BlankAhead
  <1>4. TypeOK'
    BY <1>1, <1>2 DEF ShellInv, TypeOK, Emit, Output, parser
  <1>5. LineFits'
    BY DEF ShellInv, LineFits, Emit
  <1> QED  BY <1>3, <1>4, <1>5 DEF ShellInv

(* What most steps of the shell do: print something and go on.             *)
LEMMA MessageType ==
    /\ Append(Report, NL) \in Seq(Output) /\ Prompt \in Seq(Output)
    /\ <<>> \in Seq(Output) /\ <<NL>> \in Seq(Output) /\ <<BS>> \in Seq(Output)
    /\ \A c \in Printable : <<c>> \in Seq(Output)
    /\ \A s \in Seq(Printable) : s \in Seq(Output) /\ Append(Report \o s, NL) \in Seq(Output)
  <1>1. Printable \subseteq Output /\ NL \in Output /\ BS \in Output
    BY DEF Output
  <1>2. Report \in Seq(Output) /\ Prompt \in Seq(Output)
    BY <1>1, SeqMonotonic, ShellAssumption
  <1>3. \A s \in Seq(Printable) : s \in Seq(Output)
    BY <1>1, SeqMonotonic
  <1>4. ASSUME NEW s \in Seq(Printable) PROVE Append(Report \o s, NL) \in Seq(Output)
    <2>1. Report \o s \in Seq(Output)
      BY <1>2, <1>3, ConcatProperties
    <2> QED  BY <1>1, <2>1, AppendProperties
  <1>5. Append(Report, NL) \in Seq(Output)
    BY <1>1, <1>2, AppendProperties
  <1>6. \A c \in Output : <<c>> \in Seq(Output)
    OBVIOUS
  <1> QED  BY <1>1, <1>2, <1>3, <1>4, <1>5, <1>6, EmptySeq

LEMMA PlainStep ==
    ASSUME ShellInv, UNCHANGED <<shell_window, con, line, parser>>,
           out' \in Seq(Output), arg' \in 2 .. MaxArgs + 1,
           pc' \in {"boot", "prompt", "execute", "echo", "off"},
           pc \notin {"prompt", "read"}, pc' = "boot" => pc = "boot"
    PROVE  ShellInv'
  <1>1. TypeOK'
    BY DEF ShellInv, TypeOK, Output, parser
  <1>2. LineFits' /\ BlankAhead'
    BY DEF ShellInv, LineFits, BlankAhead
  <1> QED  BY <1>1, <1>2 DEF ShellInv

LEMMA PromptStep ==
    ASSUME ShellInv, PrintPrompt
    PROVE  ShellInv'
  <1>1. line' = <<>> /\ Len(line') = 0 /\ <<>> \in Seq(Printable) /\ <<>> \in Seq(Printable \cup {NUL})
    BY EmptySeq DEF PrintPrompt
  <1>2. 0 < MaxLine - 1 /\ 0 < MaxLine
    BY ShellAssumption
  <1>3. TypeOK'
    BY <1>1, <1>2, MessageType DEF ShellInv, TypeOK, PrintPrompt, Output, parser
  <1>4. LineFits' /\ BlankAhead'
    BY <1>1, <1>2 DEF ShellInv, LineFits, BlankAhead, PrintPrompt
  <1> QED  BY <1>3, <1>4 DEF ShellInv


LEMMA KeyStep ==
    ASSUME ShellInv, NEW c \in Keys, Key(c)
    PROVE  ShellInv'
  <1>1. /\ pc = "read" /\ UNCHANGED <<shell_window, con, arg>>
        /\ line \in Seq(Printable) /\ Len(line) < MaxLine - 1 /\ Len(line) \in Nat
    BY Lengths DEF Key, At, ShellInv, LineFits
  <1>2. line' \in Seq(Printable) /\ Len(line') < MaxLine /\ Len(line') \in Nat
        /\ out' \in Seq(Output)
        /\ \/ pc' = "tokenize" /\ i' = 1 /\ argv' = <<>> /\ in_token' = FALSE
           \/ pc' = "read" /\ UNCHANGED parser /\ Len(line') < MaxLine - 1
    <2>1. CASE Enter
      BY <1>1, <2>1, Lengths, MessageType DEF Enter, Parse
    <2>2. CASE Erase /\ line # <<>>
      <3>1. line' = SubSeq(line, 1, Len(line) - 1)
        BY <2>2 DEF Erase
      <3>2. \A e \in 1 .. Len(line) - 1 : line[e] \in Printable
        BY <1>1, ElementOfSeq
      <3>3. line' \in Seq(Printable)
            /\ Len(line') = IF 1 <= Len(line) - 1 THEN (Len(line) - 1) - 1 + 1 ELSE 0
        BY <1>1, <3>1, <3>2, SubSeqProperties
      <3>4. Len(line') \in Nat /\ Len(line') <= Len(line)
        BY <1>1, <3>3
      <3>5. out' = <<BS>> /\ UNCHANGED <<pc, parser>>
        BY <2>2 DEF Erase
      <3>6. Len(line') < MaxLine - 1 /\ Len(line') < MaxLine
        BY <1>1, <3>4, Lengths
      <3> QED  BY <1>1, <3>3, <3>4, <3>5, <3>6, MessageType
    <2>3. CASE Erase /\ line = <<>>
      BY <1>1, <2>3, Lengths DEF Erase
    <2>4. CASE c \in Printable /\ Type(c)
      <3>1. line' = Append(line, c) /\ out' = <<c>>
        BY <2>4 DEF Type
      <3>2. line' \in Seq(Printable) /\ Len(line') = Len(line) + 1
        BY <1>1, <2>4, <3>1, AppendProperties
      <3>3. Len(line') \in Nat /\ Len(line') < MaxLine
        BY <1>1, <3>2, Lengths
      <3>4. out' \in Seq(Output)
        BY <2>4, <3>1, MessageType
      <3> QED  BY <1>1, <2>4, <3>2, <3>3, <3>4 DEF Type, Parse
    <2>5. CASE c = TAB /\ UNCHANGED <<out, line, pc, parser>>
      BY <1>1, <2>5, Lengths
    <2> QED  BY <2>1, <2>2, <2>3, <2>4, <2>5 DEF Key
  <1>3. line' \in Seq(Printable \cup {NUL})
    BY <1>2, SeqMonotonic
  <1>4. TypeOK'
    <2>1. CASE pc' = "tokenize" /\ i' = 1 /\ argv' = <<>> /\ in_token' = FALSE
      <3>1. argv' \in Seq(1 .. MaxLine) /\ Len(argv') <= MaxArgs /\ i' \in 1 .. Len(line') + 1
        BY <1>2, <2>1, Lengths, EmptySeq
      <3> QED  BY <1>1, <1>2, <1>3, <2>1, <3>1 DEF ShellInv, TypeOK, Output
    <2>2. CASE pc' = "read" /\ UNCHANGED parser
      BY <1>1, <1>2, <1>3, <2>2 DEF ShellInv, TypeOK, Output, parser
    <2> QED  BY <1>2, <2>1, <2>2
  <1>5. LineFits'
    BY <1>2 DEF LineFits
  <1>6. BlankAhead'
    BY <1>1 DEF ShellInv, BlankAhead
  <1> QED  BY <1>4, <1>5, <1>6 DEF ShellInv

LEMMA TokenizeStep ==
    ASSUME ShellInv, TokenizeChar
    PROVE  ShellInv'
  <1>1. /\ pc = "tokenize" /\ i \in 1 .. Len(line) + 1 /\ i <= Len(line)
        /\ Len(argv) < MaxArgs /\ i' = i + 1
        /\ UNCHANGED <<shell_window, con, out, pc, arg>>
    BY DEF TokenizeChar, At, ShellInv, TypeOK
  <1>2. i \in 1 .. Len(line) /\ i \in 1 .. MaxLine /\ i' \in 1 .. Len(line) + 1
    BY <1>1, Lengths
  <1>3. /\ line' \in Seq(Printable \cup {NUL}) /\ Len(line') = Len(line)
        /\ argv' \in Seq(1 .. MaxLine) /\ Len(argv') <= MaxArgs
        /\ in_token' \in BOOLEAN
    <2>1. CASE Space
      <3>1. line' = [line EXCEPT ![i] = NUL] /\ in_token' = FALSE /\ argv' = argv
        BY <2>1 DEF Space
      <3>2. NUL \in Printable \cup {NUL} /\ line \in Seq(Printable \cup {NUL})
        BY Lengths
      <3>3. line' \in Seq(Printable \cup {NUL}) /\ Len(line') = Len(line)
        BY <1>2, <3>1, <3>2, ExceptSeq
      <3>4. argv' \in Seq(1 .. MaxLine) /\ Len(argv') <= MaxArgs
        BY <3>1, Lengths
      <3>5. in_token' \in BOOLEAN
        BY <3>1
      <3> QED  BY <3>3, <3>4, <3>5
    <2>2. CASE Letter
      <3>1. line' = line /\ in_token' = TRUE
            /\ argv' = IF in_token THEN argv ELSE Append(argv, i)
        BY <2>2 DEF Letter
      <3>2. Append(argv, i) \in Seq(1 .. MaxLine) /\ Len(Append(argv, i)) = Len(argv) + 1
        BY <1>2, Lengths, AppendProperties
      <3>3. argv' = argv \/ argv' = Append(argv, i)
        BY <3>1
      <3>4. argv' \in Seq(1 .. MaxLine) /\ Len(argv') <= MaxArgs
        <4>1. Len(argv) + 1 <= MaxArgs /\ argv \in Seq(1 .. MaxLine) /\ Len(argv) <= MaxArgs
          BY <1>1, Lengths
        <4>2. CASE argv' = argv
          BY <4>1, <4>2
        <4>3. CASE argv' = Append(argv, i)
          BY <3>2, <4>1, <4>3
        <4> QED  BY <3>3, <4>2, <4>3
      <3>5. line' \in Seq(Printable \cup {NUL}) /\ Len(line') = Len(line)
        BY <3>1, Lengths
      <3>6. in_token' \in BOOLEAN
        BY <2>2 DEF Letter
      <3> QED  BY <3>4, <3>5, <3>6
    <2> QED  BY <2>1, <2>2 DEF TokenizeChar
  <1>4. TypeOK'
    BY <1>1, <1>2, <1>3, Lengths DEF ShellInv, TypeOK
  <1>5. LineFits' /\ BlankAhead'
    BY <1>1 DEF ShellInv, LineFits, BlankAhead
  <1> QED  BY <1>4, <1>5 DEF ShellInv

LEMMA ExecuteStep ==
    ASSUME ShellInv, Execute
    PROVE  ShellInv'
  <1>1. out \in Seq(Output) /\ arg \in 2 .. MaxArgs + 1
    BY Lengths DEF ShellInv, TypeOK
  <1>2. ASSUME NEW k \in 1 .. Len(argv) PROVE Arg(k) \in Seq(Printable)
    <2>1. argv[k] \in 1 .. MaxLine
      BY Lengths, ElementOfSeq
    <2>2. argv[k] \in Nat \ {0}
      BY <2>1, Lengths
    <2> QED  BY <2>2, Lengths, ArgType
  <1>3. argv # <<>> => Arg(1) \in Seq(Printable)
    BY <1>2, Lengths, EmptySeq
  <1>4. CASE NoCommand
    BY <1>1, <1>4, PlainStep DEF NoCommand, At
  <1>5. CASE UnknownCommand
    BY <1>1, <1>3, <1>5, MessageType, PlainStep DEF UnknownCommand, At
  <1>6. CASE cmd_clear
    <2>1. Cleared \in Consoles /\ Ahead(Cleared)
      <3>1. 0 \in 0 .. Rows - 1 /\ 0 \in 0 .. Cols - 1 /\ Blank \in Printable
        BY GridTypes, CharFacts
      <3> QED  BY <3>1 DEF Cleared, Consoles, Ahead
    <2>2. TypeOK'
      BY <1>6, <2>1 DEF cmd_clear, ShellInv, TypeOK, parser, At
    <2>3. BlankAhead' /\ LineFits'
      BY <1>6, <2>1 DEF cmd_clear, BlankAhead, Ahead, LineFits
    <2> QED  BY <2>2, <2>3 DEF ShellInv
  <1>7. CASE cmd_reboot
    BY <1>1, <1>7, MessageType, PlainStep DEF cmd_reboot, At
  <1>8. CASE cmd_report
    BY <1>1, <1>8, MessageType, PlainStep DEF cmd_report, At
  <1>9. CASE cmd_echo
    <2>1. arg' \in 2 .. MaxArgs + 1
      BY <1>9, Lengths DEF cmd_echo
    <2> QED  BY <1>1, <1>9, <2>1, PlainStep DEF cmd_echo, At
  <1>10. CASE EchoArg
    <2>1. arg \in 1 .. Len(argv) /\ arg' = arg + 1 /\ arg' \in 2 .. MaxArgs + 1
      BY <1>1, <1>10, Lengths DEF EchoArg
    <2>2. Arg(arg) \in Seq(Output)
      BY <1>2, <2>1, MessageType
    <2>3. <<Blank>> \in Seq(Output) /\ <<>> \in Seq(Output)
      BY MessageType, CharFacts
    <2>4. out' \in Seq(Output)
      <3>1. (IF arg > 2 THEN <<Blank>> ELSE <<>>) \in Seq(Output)
        BY <2>3
      <3>2. (IF arg > 2 THEN <<Blank>> ELSE <<>>) \o Arg(arg) \in Seq(Output)
        BY <2>2, <3>1, ConcatProperties
      <3> QED  BY <1>10, <3>2 DEF EchoArg
    <2> QED  BY <1>10, <2>1, <2>4, PlainStep DEF EchoArg, At
  <1>11. CASE EchoDone
    BY <1>1, <1>11, MessageType, PlainStep DEF EchoDone, At
  <1> QED  BY <1>4, <1>5, <1>6, <1>7, <1>8, <1>9, <1>10, <1>11 DEF Execute, ShellInv

LEMMA ShellInvariant == Spec => []ShellInv
  <1>1. ShellInv /\ [Next]_vars => ShellInv'
    <2> SUFFICES ASSUME ShellInv, [Next]_vars PROVE ShellInv'
      OBVIOUS
    <2>1. CASE BootMessage
      <3>1. arg \in 2 .. MaxArgs + 1
        BY DEF ShellInv, TypeOK
      <3> QED  BY <2>1, <3>1, MessageType, PlainStep DEF BootMessage, At
    <2>2. CASE Start
      <3>1. arg \in 2 .. MaxArgs + 1
        BY DEF ShellInv, TypeOK
      <3> QED  BY <2>2, <3>1, MessageType, PlainStep DEF Start, At
    <2>3. CASE TokenizeDone
      <3>1. arg \in 2 .. MaxArgs + 1 /\ out \in Seq(Output)
        BY Lengths DEF ShellInv, TypeOK
      <3> QED  BY <2>3, <3>1, PlainStep DEF TokenizeDone, At
    <2>4. CASE UNCHANGED vars
      BY <2>4 DEF vars, parser, ShellInv, TypeOK, LineFits, BlankAhead
    <2> QED
      BY <2>1, <2>2, <2>3, <2>4, EmitStep, PromptStep, KeyStep, TokenizeStep, ExecuteStep DEF Next
  <1> QED  BY <1>1, ShellInit, PTL DEF Spec

----------------------------------------------------------------------------
(* Whatever is typed, the cursor stays in the grid, the line with its      *)
(* terminator in the buffer, and argv in its array.                        *)
THEOREM ShellTypes == Spec => []TypeOK
  <1>1. ShellInv => TypeOK
    BY DEF ShellInv
  <1> QED  BY <1>1, ShellInvariant, PTL

(* Output never lands on old text: from the cursor on, a console is blank. *)
THEOREM OutputOnBlank == Spec => []BlankAhead
  <1>1. ShellInv => BlankAhead
    BY DEF ShellInv
  <1> QED  BY <1>1, ShellInvariant, PTL
----------------------------------------------------------------------------
(* The tokenizer.  The words of a line are told by its empty places: the   *)
(* blanks, and the NULs that shell_tokenize writes over them.              *)
Empty(l, k) == l[k] \in {Blank, NUL}
Starts(l) == {k \in 1 .. Len(l) : ~ Empty(l, k) /\ (k > 1 => Empty(l, k - 1))}

(* The invariant of its loop, for the line, the index, argv and in_token.  *)
Tokens(l, n, a, t) ==
    /\ \A k \in 1 .. Len(l) : IF k < n THEN l[k] # Blank ELSE l[k] # NUL
    /\ t <=> n > 1 /\ ~ Empty(l, n - 1)
    /\ \A k \in 1 .. Len(a) : a[k] \in Starts(l) /\ a[k] < n
    /\ \A s \in Starts(l) : s < n => \E k \in 1 .. Len(a) : s = a[k]
    /\ \A j, k \in 1 .. Len(a) : j < k => a[j] < a[k]

TokenInv ==
    /\ pc \in {"tokenize", "execute", "echo"} => Tokens(line, i, argv, in_token)
    /\ pc \in {"execute", "echo"} => i > Len(line) \/ Len(argv) = MaxArgs

LEMMA NulFacts == NUL # Blank /\ NUL \notin Printable
  BY ShellAssumption DEF NUL, Blank, Printable

LEMMA FirstToken ==
    ASSUME NEW l \in Seq(Printable)
    PROVE  Tokens(l, 1, <<>>, FALSE)
  <1>1. Len(l) \in Nat /\ \A k \in 1 .. Len(l) : l[k] \in Printable
    BY LenProperties, ElementOfSeq
  <1>2. \A k \in 1 .. Len(l) : ~ (k < 1) /\ l[k] # NUL
    BY <1>1, NulFacts
  <1>3. 1 .. Len(<<>>) = {} /\ ~ (1 > 1)
    OBVIOUS
  <1>4. Starts(l) \subseteq 1 .. Len(l)
    BY DEF Starts
  <1> QED  BY <1>1, <1>2, <1>3, <1>4 DEF Tokens

(* A blank ends the word before it, and changes no word.                   *)
LEMMA SpaceToken ==
    ASSUME NEW l \in Seq(Printable \cup {NUL}), NEW n \in 1 .. Len(l),
           NEW a \in Seq(Nat), NEW t, Tokens(l, n, a, t), l[n] = Blank
    PROVE  Tokens([l EXCEPT ![n] = NUL], n + 1, a, FALSE)
  <1> DEFINE m == [l EXCEPT ![n] = NUL]
  <1>1. /\ Len(l) \in Nat /\ Len(a) \in Nat /\ n \in Nat /\ n >= 1
        /\ Len(m) = Len(l)
        /\ \A k \in 1 .. Len(l) : m[k] = IF k = n THEN NUL ELSE l[k]
    <2>1. Len(l) \in Nat /\ DOMAIN l = 1 .. Len(l) /\ Len(a) \in Nat
      BY LenProperties
    <2>2. Len(m) = Len(l)
      BY ExceptSeq
    <2>3. \A k \in 1 .. Len(l) : m[k] = IF k = n THEN NUL ELSE l[k]
      BY <2>1
    <2> QED  BY <2>1, <2>2, <2>3
  <1> HIDE DEF m
  <1>2. \A k \in 1 .. Len(l) : Empty(m, k) <=> Empty(l, k)
    BY <1>1 DEF Empty
  <1>3. Starts(m) = Starts(l)
    <2>1. \A k \in 1 .. Len(l) : k > 1 => k - 1 \in 1 .. Len(l)
      BY <1>1
    <2> QED  BY <1>1, <1>2, <2>1 DEF Starts
  <1>4. \A k \in 1 .. Len(m) : IF k < n + 1 THEN m[k] # Blank ELSE m[k] # NUL
    <2> SUFFICES ASSUME NEW k \in 1 .. Len(l)
                 PROVE  IF k < n + 1 THEN m[k] # Blank ELSE m[k] # NUL
      BY <1>1
    <2>1. k < n \/ k = n \/ k > n
      BY <1>1
    <2> QED  BY <1>1, <2>1, NulFacts DEF Tokens
  <1>5. Empty(m, (n + 1) - 1)
    BY <1>1 DEF Empty
  <1>6. n \notin Starts(l)
    BY DEF Starts, Empty
  <1>7. \A s \in Starts(m) : s < n + 1 => \E k \in 1 .. Len(a) : s = a[k]
    <2>1. \A s \in Starts(l) : s < n + 1 => s < n
      BY <1>1, <1>6 DEF Starts
    <2> QED  BY <1>3, <2>1 DEF Tokens
  <1>8. \A k \in 1 .. Len(a) : a[k] \in Starts(m) /\ a[k] < n + 1
    <2>1. \A k \in 1 .. Len(a) : a[k] \in Starts(l) /\ a[k] < n /\ a[k] \in Int
      BY DEF Tokens, Starts
    <2> QED  BY <1>1, <1>3, <2>1
  <1>9. \A j, k \in 1 .. Len(a) : j < k => a[j] < a[k]
    BY DEF Tokens
  <1> QED  BY <1>4, <1>5, <1>7, <1>8, <1>9 DEF Tokens, m

(* Any other character goes on with a word, or starts one.                 *)
LEMMA LetterToken ==
    ASSUME NEW l \in Seq(Printable \cup {NUL}), NEW n \in 1 .. Len(l),
           NEW a \in Seq(Nat), NEW t \in BOOLEAN,
           Tokens(l, n, a, t), l[n] # Blank
    PROVE  Tokens(l, n + 1, IF t THEN a ELSE Append(a, n), TRUE)
  <1> DEFINE b == IF t THEN a ELSE Append(a, n)
  <1>1. Len(l) \in Nat /\ Len(a) \in Nat /\ n \in Nat /\ n >= 1
    BY LenProperties
  <1>2. \A k \in 1 .. Len(l) : IF k < n + 1 THEN l[k] # Blank ELSE l[k] # NUL
    <2> SUFFICES ASSUME NEW k \in 1 .. Len(l)
                 PROVE  IF k < n + 1 THEN l[k] # Blank ELSE l[k] # NUL
      OBVIOUS
    <2>1. k < n \/ k = n \/ k > n
      BY <1>1
    <2> QED  BY <1>1, <2>1 DEF Tokens
  <1>3. ~ Empty(l, n)
    <2>1. l[n] # NUL
      BY <1>1 DEF Tokens
    <2> QED  BY <2>1 DEF Empty
  <1>4. n + 1 > 1 /\ ~ Empty(l, (n + 1) - 1)
    BY <1>1, <1>3
  <1>5. \A s \in Starts(l) : s \in Int /\ (s < n + 1 <=> s < n \/ s = n)
    BY <1>1 DEF Starts
  <1>6. n \in Starts(l) <=> ~ t
    BY <1>3 DEF Tokens, Starts
  <1>7. \A k \in 1 .. Len(a) : a[k] \in Starts(l) /\ a[k] < n
    BY DEF Tokens
  <1>8. \A s \in Starts(l) : s < n => \E k \in 1 .. Len(a) : s = a[k]
    BY DEF Tokens
  <1>9. \A j, k \in 1 .. Len(a) : j < k => a[j] < a[k]
    BY DEF Tokens
  <1>10. CASE t
    <2>1. \A k \in 1 .. Len(a) : a[k] \in Starts(l) /\ a[k] < n + 1
      BY <1>5, <1>7
    <2>2. \A s \in Starts(l) : s < n + 1 => \E k \in 1 .. Len(a) : s = a[k]
      BY <1>5, <1>6, <1>8, <1>10
    <2> QED  BY <1>2, <1>4, <1>9, <1>10, <2>1, <2>2 DEF Tokens
  <1>11. CASE ~ t
    <2> DEFINE app == Append(a, n)
    <2>1. /\ Len(app) = Len(a) + 1 /\ app[Len(a) + 1] = n
          /\ \A k \in 1 .. Len(a) : app[k] = a[k]
      BY AppendProperties
    <2> HIDE DEF app
    <2>2. \A k \in 1 .. Len(a) + 1 : k \in 1 .. Len(a) \/ k = Len(a) + 1
      BY <1>1
    <2>3. /\ Len(a) + 1 \in 1 .. Len(a) + 1
          /\ \A k \in 1 .. Len(a) : k \in 1 .. Len(a) + 1
      BY <1>1
    <2>4. \A k \in 1 .. Len(app) : app[k] \in Starts(l) /\ app[k] < n + 1
      BY <1>5, <1>6, <1>7, <1>11, <2>1, <2>2
    <2>5. \A s \in Starts(l) : s < n + 1 => \E k \in 1 .. Len(app) : s = app[k]
      BY <1>5, <1>8, <2>1, <2>3
    <2>6. ASSUME NEW j \in 1 .. Len(app), NEW k \in 1 .. Len(app), j < k
          PROVE  app[j] < app[k]
      <3>1. j \in 1 .. Len(a)
        BY <1>1, <2>1, <2>6
      <3>2. CASE k \in 1 .. Len(a)
        BY <1>9, <2>1, <2>6, <3>1, <3>2
      <3>3. CASE k = Len(a) + 1
        BY <1>7, <2>1, <3>1, <3>3
      <3> QED  BY <2>1, <2>2, <3>2, <3>3
    <2> QED  BY <1>2, <1>4, <1>11, <2>4, <2>5, <2>6 DEF Tokens, app
  <1> QED  BY <1>10, <1>11

LEMMA TokenStep ==
    ASSUME ShellInv, TokenInv, [Next]_vars
    PROVE  TokenInv'
  <1>1. CASE TokenizeChar
    <2>1. /\ pc = "tokenize" /\ pc' = "tokenize" /\ i' = i + 1 /\ i \in 1 .. Len(line)
          /\ (IF line[i] = Blank THEN Space ELSE Letter)
      BY <1>1, Lengths DEF TokenizeChar, At, ShellInv, TypeOK
    <2>2. /\ line \in Seq(Printable \cup {NUL}) /\ argv \in Seq(Nat)
          /\ in_token \in BOOLEAN /\ Tokens(line, i, argv, in_token)
      <3>1. argv \in Seq(1 .. MaxLine) /\ 1 .. MaxLine \subseteq Nat
        BY Lengths
      <3>2. argv \in Seq(Nat)
        BY <3>1, SeqMonotonic
      <3> QED  BY <2>1, <3>2, Lengths DEF TokenInv, ShellInv, TypeOK
    <2>3. CASE line[i] = Blank
      <3>1. line' = [line EXCEPT ![i] = NUL] /\ in_token' = FALSE /\ argv' = argv
        BY <2>1, <2>3 DEF Space
      <3>2. Tokens(line', i', argv', in_token')
        BY <2>1, <2>2, <2>3, <3>1, SpaceToken
      <3> QED  BY <2>1, <3>2 DEF TokenInv
    <2>4. CASE line[i] # Blank
      <3>1. /\ line' = line /\ in_token' = TRUE
            /\ argv' = IF in_token THEN argv ELSE Append(argv, i)
        BY <2>1, <2>4 DEF Letter
      <3>2. Tokens(line', i', argv', in_token')
        BY <2>1, <2>2, <2>4, <3>1, LetterToken
      <3> QED  BY <2>1, <3>2 DEF TokenInv
    <2> QED  BY <2>3, <2>4
  <1>2. CASE \E c \in Keys : Key(c)
    <2>1. PICK c \in Keys : Key(c)
      BY <1>2
    <2>2. pc = "read" /\ (pc' = "read" \/ Parse)
      BY <2>1 DEF Key, At, Enter, Erase, Type
    <2>3. CASE pc' = "read"
      BY <2>3 DEF TokenInv
    <2>4. CASE Parse
      <3>1. line' \in Seq(Printable)
        <4>1. line \in Seq(Printable)
          BY <2>2 DEF ShellInv, LineFits
        <4>2. line' = line \/ (c \in Printable /\ line' = Append(line, c))
          BY <2>1, <2>2, <2>4 DEF Key, At, Enter, Erase, Type, Parse
        <4> QED  BY <4>1, <4>2, AppendProperties
      <3>2. Tokens(line', 1, <<>>, FALSE)
        BY <3>1, FirstToken
      <3> QED  BY <2>4, <3>2 DEF TokenInv, Parse
    <2> QED  BY <2>2, <2>3, <2>4
  <1>3. CASE \/ Emit \/ BootMessage \/ Start \/ PrintPrompt \/ TokenizeDone
             \/ Execute \/ UNCHANGED vars
    <2>1. pc' \in {"tokenize", "execute", "echo"}
            => UNCHANGED <<line, i, argv, in_token>> /\ pc \in {"tokenize", "execute", "echo"}
      BY <1>3 DEF Emit, BootMessage, Start, PrintPrompt, TokenizeDone, At, vars, parser,
         Execute, NoCommand, UnknownCommand, cmd_clear, cmd_reboot, cmd_report,
         cmd_echo, EchoArg, EchoDone
    <2>2. pc' \in {"execute", "echo"} => i > Len(line) \/ Len(argv) = MaxArgs
      BY <1>3 DEF Emit, BootMessage, Start, PrintPrompt, TokenizeDone, At, vars, parser,
         Execute, NoCommand, UnknownCommand, cmd_clear, cmd_reboot, cmd_report,
         cmd_echo, EchoArg, EchoDone, TokenInv
    <2> QED  BY <2>1, <2>2 DEF TokenInv
  <1> QED  BY <1>1, <1>2, <1>3 DEF Next

(* What the loop leaves behind is what the commands are promised.          *)
LEMMA WordEnds ==
    ASSUME ShellInv, TokenInv, pc \in {"execute", "echo"},
           NEW k \in 1 .. Len(argv), k < MaxArgs,
           NEW s \in argv[k] .. argv[k] + Len(Arg(k)), s \in 1 .. Len(line)
    PROVE  Empty(line, s) <=> s = argv[k] + Len(Arg(k))
  <1> DEFINE p == argv[k]
             e == StringEnd(p)
  <1>1. Tokens(line, i, argv, in_token) /\ (i > Len(line) \/ Len(argv) = MaxArgs)
    BY DEF TokenInv
  <1>2. /\ Len(line) \in Nat /\ Len(argv) \in Nat /\ MaxArgs \in Nat
        /\ i \in 1 .. Len(line) + 1
    BY Lengths DEF ShellInv, TypeOK
  <1>3. p \in 1 .. Len(line) /\ ~ Empty(line, p) /\ p < i
    BY <1>1 DEF Tokens, Starts
  <1>4. e \in Ends(p) /\ \A d \in Ends(p) : e <= d
    <2>1. Ends(p) \in SUBSET Nat /\ Len(line) + 1 \in Ends(p)
      BY <1>2, <1>3 DEF Ends
    <2> QED  BY <2>1, LeastNatural DEF StringEnd
  <1>5. e \in Nat /\ p <= e /\ e <= Len(line) + 1
    BY <1>2, <1>3, <1>4 DEF Ends
  <1>6. p < e
    <2>1. line[p] # NUL
      BY <1>3 DEF Empty
    <2>2. e # p
      BY <1>2, <1>3, <1>4, <2>1 DEF Ends
    <2> QED  BY <1>3, <1>5, <2>2
  <1>7. e <= i
    <2>1. CASE i > Len(line)
      BY <1>2, <1>5, <2>1
    <2>2. CASE Len(argv) = MaxArgs
      <3> DEFINE q == argv[k + 1]
      <3>1. k + 1 \in 1 .. Len(argv) /\ k < k + 1
        BY <1>2, <2>2
      <3>2. q \in Starts(line) /\ q < i /\ p < q
        BY <1>1, <3>1 DEF Tokens
      <3>3. q \in 1 .. Len(line) /\ q > 1 /\ Empty(line, q - 1)
        BY <1>3, <3>2 DEF Starts
      <3>4. q - 1 \in 1 .. Len(line) /\ q - 1 < i /\ p <= q - 1 /\ q - 1 \in Int
        BY <1>2, <1>3, <3>2, <3>3
      <3>5. line[q - 1] # Blank
        BY <1>1, <3>4 DEF Tokens
      <3>6. line[q - 1] = NUL
        BY <3>3, <3>5 DEF Empty
      <3>7. q - 1 \in Ends(p)
        BY <1>2, <1>3, <3>4, <3>6 DEF Ends
      <3>8. e <= q - 1
        BY <1>4, <3>7
      <3> QED  BY <1>2, <1>5, <3>3, <3>4, <3>8
    <2> QED  BY <1>1, <2>1, <2>2
  <1>8. Len(Arg(k)) = e - p
    <2>1. \A x \in p .. e - 1 : line[x] \in Printable \cup {NUL}
      <3>1. \A x \in p .. e - 1 : x \in 1 .. Len(line)
        BY <1>2, <1>3, <1>5
      <3> QED  BY <3>1, Lengths, ElementOfSeq
    <2>2. /\ p \in Int /\ e - 1 \in Int
      BY <1>3, <1>5
    <2>3. Len(SubSeq(line, p, e - 1)) = IF p <= e - 1 THEN (e - 1) - p + 1 ELSE 0
      BY <2>1, <2>2, SubSeqProperties
    <2>4. Len(Arg(k)) = Len(SubSeq(line, p, e - 1))
      BY DEF Arg
    <2> HIDE DEF p, e
    <2> QED  BY <1>5, <1>6, <2>2, <2>3, <2>4
  <1> HIDE DEF e
  <1>9. p \in Int /\ s \in p .. e
    <2>1. p \in Int /\ p + Len(Arg(k)) = e
      BY <1>3, <1>5, <1>8
    <2> QED  BY <2>1
  <1>10. CASE s = e
    <2>1. line[s] = NUL
      BY <1>2, <1>4, <1>10 DEF Ends
    <2> QED  BY <1>5, <1>8, <1>9, <1>10, <2>1 DEF Empty
  <1>11. CASE s # e
    <2>1. s < e /\ s < i /\ s \in p .. Len(line)
      BY <1>2, <1>5, <1>7, <1>9, <1>11
    <2>2. s \notin Ends(p)
      BY <1>4, <1>5, <2>1
    <2>3. line[s] # NUL
      BY <2>1, <2>2 DEF Ends
    <2>4. line[s] # Blank
      BY <1>1, <2>1 DEF Tokens
    <2> QED  BY <1>5, <1>8, <1>9, <1>11, <2>3, <2>4 DEF Empty
  <1> QED  BY <1>10, <1>11

(* What the commands find in argv, for every line: the words of the line,  *)
(* in order, up to MAX_ARGS of them, each with its own end but the last.   *)
THEOREM CommandsSeeTheWords == Spec => []TokensAreWords
  <1>1. Init => TokenInv
    BY DEF Init, TokenInv
  <1>2. ShellInv /\ TokenInv /\ [Next]_vars => TokenInv'
    BY TokenStep
  <1>3. ShellInv /\ TokenInv => TokensAreWords
    <2> SUFFICES ASSUME ShellInv, TokenInv, pc \in {"execute", "echo"}
                 PROVE  TokensAreWords
      BY DEF TokensAreWords
    <2>1. /\ DOMAIN line = 1 .. Len(line) /\ DOMAIN argv = 1 .. Len(argv)
          /\ Len(line) \in Nat /\ Len(argv) \in Nat
          /\ MaxArgs \in Nat /\ i \in 1 .. Len(line) + 1
      BY Lengths, LenProperties DEF ShellInv, TypeOK
    <2>2. \A k \in 1 .. Len(line) : Typed[k] = Blank <=> Empty(line, k)
      BY <2>1 DEF Typed, Empty
    <2>3. WordStarts = Starts(line)
      <3>1. \A k \in 1 .. Len(line) : k > 1 => k - 1 \in 1 .. Len(line)
        BY <2>1
      <3> QED  BY <2>1, <2>2, <3>1 DEF WordStarts, Starts
    <2>4. Tokens(line, i, argv, in_token) /\ (i > Len(line) \/ Len(argv) = MaxArgs)
      BY DEF TokenInv
    <2>5. ASSUME NEW k \in DOMAIN argv
          PROVE  /\ argv[k] \in WordStarts
                 /\ \A s \in WordStarts : s < argv[k] <=> \E j \in 1 .. k - 1 : s = argv[j]
                 /\ k < MaxArgs => \A s \in argv[k] .. argv[k] + Len(Arg(k)) :
                       s \in DOMAIN line => (Typed[s] = Blank <=> s = argv[k] + Len(Arg(k)))
      <3>1. k \in 1 .. Len(argv) /\ argv[k] \in Starts(line) /\ argv[k] < i
        BY <2>1, <2>4 DEF Tokens
      <3>2. ASSUME NEW s \in WordStarts
            PROVE  s < argv[k] <=> \E j \in 1 .. k - 1 : s = argv[j]
        <4>1. argv[k] \in Int /\ s \in Int /\ s \in Starts(line)
          BY <2>3, <3>1 DEF Starts
        <4>2. ASSUME s < argv[k] PROVE \E j \in 1 .. k - 1 : s = argv[j]
          <5>1. s < i
            BY <2>1, <3>1, <4>1, <4>2
          <5>2. PICK j \in 1 .. Len(argv) : s = argv[j]
            BY <2>4, <4>1, <5>1 DEF Tokens
          <5>3. ~ (k < j) /\ j # k
            <6>1. k < j => argv[k] < argv[j]
              BY <2>4, <3>1 DEF Tokens
            <6> QED  BY <4>1, <4>2, <5>2, <6>1
          <5>4. j \in 1 .. k - 1
            BY <2>1, <3>1, <5>3
          <5> QED  BY <5>2, <5>4
        <4>3. ASSUME NEW j \in 1 .. k - 1, s = argv[j] PROVE s < argv[k]
          <5>1. j \in 1 .. Len(argv) /\ j < k
            BY <2>1, <3>1
          <5> QED  BY <2>4, <3>1, <4>3, <5>1 DEF Tokens
        <4> QED  BY <4>2, <4>3
      <3>3. ASSUME k < MaxArgs, NEW s \in argv[k] .. argv[k] + Len(Arg(k)), s \in DOMAIN line
            PROVE  Typed[s] = Blank <=> s = argv[k] + Len(Arg(k))
        BY <2>1, <2>2, <3>1, <3>3, WordEnds
      <3> QED  BY <2>3, <3>1, <3>2, <3>3
    <2>6. ASSUME NEW s \in WordStarts, Len(argv) < MaxArgs
          PROVE  \E k \in DOMAIN argv : s = argv[k]
      <3>1. i > Len(line)
        <4>1. Len(argv) # MaxArgs
          <5>1. Len(argv) \in Nat /\ MaxArgs \in Nat /\ Len(argv) < MaxArgs
            BY <2>1, <2>6
          <5> QED  BY <5>1
        <4> QED  BY <2>4, <4>1
      <3>2. s \in Starts(line) /\ s < i
        BY <2>1, <2>3, <3>1 DEF Starts
      <3> QED  BY <2>1, <2>4, <3>2 DEF Tokens
    <2> QED  BY <2>5, <2>6 DEF TokensAreWords
  <1> QED  BY <1>1, <1>2, <1>3, ShellInvariant, PTL DEF Spec
----------------------------------------------------------------------------
(* Screen and line.  A character that is printed goes to the cursor, which *)
(* moves on; d is by how much the console scrolls.                         *)
LEMMA PrintedPlace ==
    ASSUME NEW s \in Consoles, NEW window \in BOOLEAN, NEW c \in Printable
    PROVE  LET r == Putchar(window, s, c) IN
           \E d \in {0, Cols} :
              /\ Cursor(r) = Cursor(s) + 1 - d
              /\ \A k \in Cells : k < Cursor(r) =>
                    k + d \in Cells /\ r.text[k] = IF k + d = Cursor(s) THEN c ELSE s.text[k + d]
  <1> DEFINE w == Write(s, c)
             m == MoveTo(w, s.col + 1)
             r == Putchar(window, s, c)
  <1>1. /\ w \in Consoles /\ w.row = s.row /\ w.col = s.col
        /\ \A k \in Cells : w.text[k] = IF k = Cursor(s) THEN c ELSE s.text[k]
    BY WriteType
  <1>2. /\ s.row \in Nat /\ s.row < Rows /\ s.col \in Nat /\ s.col < Cols
        /\ s.row * Cols \in Nat /\ (s.row + 1) * Cols = s.row * Cols + Cols
        /\ Cursor(s) = s.row * Cols + s.col /\ Cursor(s) \in Cells
    BY GridTypes, CursorInCells DEF Consoles
  <1>3. r = Scroll(m)
    <2>1. c # NL /\ c # BS /\ c # CR /\ c # TAB
      BY CharFacts DEF Output
    <2> QED  BY <2>1 DEF Putchar, Moved
  <1> SUFFICES \E d \in {0, Cols} :
                 /\ Cursor(r) = Cursor(s) + 1 - d
                 /\ \A k \in Cells : k < Cursor(r) =>
                       k + d \in Cells /\ r.text[k] = IF k + d = Cursor(s) THEN c ELSE s.text[k + d]
    OBVIOUS
  <1> HIDE DEF r, w
  <1>4. /\ m.text = w.text /\ m.row \in {s.row, s.row + 1} /\ m.row * Cols \in Nat
        /\ m.row * Cols + m.col = Cursor(s) + 1
    <2>1. CASE s.col + 1 >= Cols
      <3>1. m = [text |-> w.text, row |-> s.row + 1, col |-> 0] /\ s.col + 1 = Cols
        BY <1>1, <1>2, <2>1, GridTypes DEF MoveTo, NextRow, Consoles
      <3> HIDE DEF m
      <3> QED  BY <1>2, <3>1, GridTypes
    <2>2. CASE ~ (s.col + 1 >= Cols)
      <3>1. m = [text |-> w.text, row |-> s.row, col |-> s.col + 1]
        BY <1>1, <2>2 DEF MoveTo, Consoles
      <3> HIDE DEF m
      <3> QED  BY <1>2, <3>1
    <2> QED  BY <2>1, <2>2
  <1> HIDE DEF m
  <1>5. CASE m.row < Rows
    <2>1. r = m /\ Cursor(r) = Cursor(s) + 1 - 0
      BY <1>2, <1>3, <1>4, <1>5 DEF Scroll, Cursor, Cells
    <2>2. \A k \in Cells : k + 0 = k
      BY GridTypes DEF Cells
    <2>3. \A k \in Cells : k < Cursor(r) =>
             k + 0 \in Cells /\ r.text[k] = IF k + 0 = Cursor(s) THEN c ELSE s.text[k + 0]
      BY <1>1, <1>4, <2>1, <2>2
    <2> QED  BY <2>1, <2>3
  <1>6. CASE ~ (m.row < Rows)
    <2>1. m.row = Rows
      BY <1>2, <1>4, <1>6, GridTypes
    <2>2. r = [text |-> [k \in Cells |-> IF k + Cols \in Cells THEN m.text[k + Cols] ELSE Blank],
               row |-> Rows - 1, col |-> m.col]
      BY <1>3, <1>6 DEF Scroll
    <2>3. (Rows - 1) * Cols + Cols = Rows * Cols /\ (Rows - 1) * Cols \in Nat
      <3>1. Rows - 1 \in Nat /\ (Rows - 1) + 1 = Rows
        BY GridTypes
      <3> QED  BY <3>1, GridTypes
    <2>4. Cursor(r) = (Rows - 1) * Cols + m.col /\ Rows * Cols + m.col = Cursor(s) + 1
      BY <1>4, <2>1, <2>2 DEF Cursor
    <2>5. m.col \in Int
      <3>1. Rows * Cols + m.col = Cursor(s) + 1 /\ Cursor(s) \in Int
        BY <1>2, <2>4, GridTypes DEF Cells
      <3>2. m.col = 0 \/ m.col = s.col + 1
        BY <1>1 DEF m, MoveTo, NextRow, Consoles
      <3> QED  BY <1>2, <3>2
    <2>6. Cursor(r) = Cursor(s) + 1 - Cols
      BY <1>2, <2>3, <2>4, <2>5, GridTypes DEF Cells
    <2>7. ASSUME NEW k \in Cells, k < Cursor(r)
          PROVE  /\ k + Cols \in Cells
                 /\ r.text[k] = IF k + Cols = Cursor(s) THEN c ELSE s.text[k + Cols]
      <3>1. k + Cols \in Cells
        BY <1>2, <2>6, <2>7, GridTypes DEF Cells
      <3>2. r.text[k] = w.text[k + Cols]
        BY <1>4, <2>2, <3>1
      <3> QED  BY <1>1, <3>1, <3>2
    <2> QED  BY <2>6, <2>7
  <1> QED  BY <1>5, <1>6

LEMMA PrintedShows ==
    ASSUME NEW s \in Consoles, NEW window \in BOOLEAN, NEW c \in Printable,
           NEW t \in Seq(Printable), Shows(s, t)
    PROVE  Shows(Putchar(window, s, c), Append(t, c))
  <1> DEFINE r == Putchar(window, s, c)
             L == Len(t)
             u == Append(t, c)
  <1>1. PICK d \in {0, Cols} :
              /\ Cursor(r) = Cursor(s) + 1 - d
              /\ \A k \in Cells : k < Cursor(r) =>
                    k + d \in Cells /\ r.text[k] = IF k + d = Cursor(s) THEN c ELSE s.text[k + d]
    BY PrintedPlace
  <1>2. L \in Nat /\ Len(u) = L + 1 /\ u[L + 1] = c /\ \A j \in 1 .. L : u[j] = t[j]
    BY LenProperties, AppendProperties
  <1>3. d \in Int /\ Cursor(s) \in Int /\ Cursor(r) \in Int
    BY <1>1, GridTypes, CursorInCells DEF Consoles, Cells
  <1> HIDE DEF r, u, L
  <1>4. ASSUME NEW k \in 1 .. L + 1, Cursor(r) - k \in Cells
        PROVE  r.text[Cursor(r) - k] = u[L + 1 + 1 - k]
    <2>1. /\ (Cursor(r) - k) + d \in Cells
          /\ r.text[Cursor(r) - k] = IF (Cursor(r) - k) + d = Cursor(s) THEN c
                                     ELSE s.text[(Cursor(r) - k) + d]
      BY <1>1, <1>2, <1>3, <1>4
    <2>2. (Cursor(r) - k) + d = Cursor(s) - (k - 1)
      BY <1>1, <1>2, <1>3
    <2>3. CASE k = 1
      <3>1. L + 1 + 1 - k = L + 1 /\ Cursor(s) - (k - 1) = Cursor(s)
        BY <1>2, <1>3, <2>3
      <3> QED  BY <1>2, <2>1, <2>2, <3>1
    <2>4. CASE k # 1
      <3>1. k - 1 \in 1 .. L /\ L + 1 + 1 - k = L + 1 - (k - 1) /\ L + 1 - (k - 1) \in 1 .. L
            /\ Cursor(s) - (k - 1) # Cursor(s)
        BY <1>2, <1>3, <2>4
      <3>2. s.text[Cursor(s) - (k - 1)] = t[L + 1 - (k - 1)]
        BY <2>1, <2>2, <3>1 DEF Shows, L
      <3> QED  BY <1>2, <2>1, <2>2, <3>1, <3>2
    <2> QED  BY <2>3, <2>4
  <1> QED  BY <1>2, <1>4 DEF Shows, r, u

(* Backspace takes back a character that has one before it in its row.     *)
LEMMA ErasedShows ==
    ASSUME NEW s \in Consoles, NEW window \in BOOLEAN, NEW c,
           NEW t \in Seq(Printable), Shows(s, Append(t, c)), s.col # 0
    PROVE  Shows(Putchar(window, s, BS), t)
  <1> DEFINE b == StepBack(s)
             r == Putchar(window, s, BS)
             L == Len(t)
             u == Append(t, c)
  <1>1. /\ s.row \in Nat /\ s.row < Rows /\ s.col \in Nat /\ s.col < Cols /\ s.col > 0
        /\ s.row * Cols \in Nat /\ s.text \in [Cells -> Printable]
    BY GridTypes DEF Consoles
  <1>2. b = [text |-> s.text, row |-> s.row, col |-> s.col - 1] /\ b \in Consoles
    <2>1. b = [text |-> s.text, row |-> s.row, col |-> s.col - 1]
      BY DEF StepBack, Consoles
    <2> QED  BY <1>1, <2>1, GridTypes DEF Consoles
  <1>3. Cursor(b) = Cursor(s) - 1 /\ Cursor(b) \in Int /\ Cursor(s) \in Int
    <2>1. Cursor(s) = s.row * Cols + s.col /\ Cursor(b) = s.row * Cols + (s.col - 1)
      BY <1>2 DEF Cursor
    <2> QED  BY <1>1, <2>1
  <1>4. /\ Write(b, Blank).row = s.row /\ Cursor(Write(b, Blank)) = Cursor(b)
        /\ \A k \in Cells : Write(b, Blank).text[k] = IF k = Cursor(b) THEN Blank ELSE s.text[k]
    BY <1>2, WriteType, CharFacts
  <1>5. r = Write(b, Blank)
    <2>1. Moved(window, s, BS) = Write(b, Blank)
      <3>1. Moved(window, s, BS) = Backspace(window, s)
        BY DEF Moved, NL, CR, BS, TAB
      <3> QED  BY <1>1, <3>1 DEF Backspace
    <2> HIDE DEF b
    <2> QED  BY <1>1, <1>4, <2>1 DEF Putchar, Scroll
  <1>6. L \in Nat /\ Len(u) = L + 1 /\ \A j \in 1 .. L : u[j] = t[j]
    BY LenProperties, AppendProperties, AppendIsConcat
  <1> HIDE DEF r, u, L, b
  <1>7. ASSUME NEW k \in 1 .. L, Cursor(r) - k \in Cells
        PROVE  r.text[Cursor(r) - k] = t[L + 1 - k]
    <2>1. /\ Cursor(r) = Cursor(s) - 1 /\ Cursor(r) - k = Cursor(s) - (k + 1)
          /\ Cursor(r) - k # Cursor(b)
      BY <1>3, <1>4, <1>5, <1>6
    <2>2. r.text[Cursor(r) - k] = s.text[Cursor(s) - (k + 1)]
      BY <1>4, <1>5, <1>7, <2>1
    <2>3. /\ k + 1 \in 1 .. L + 1 /\ L + 1 + 1 - (k + 1) = L + 1 - k
          /\ L + 1 - k \in 1 .. L
      BY <1>6
    <2>4. s.text[Cursor(s) - (k + 1)] = u[L + 1 - k]
      BY <1>6, <1>7, <2>1, <2>3 DEF Shows, u
    <2> QED  BY <1>6, <2>2, <2>3, <2>4
  <1> QED  BY <1>7 DEF Shows, r, L

(* Every key is echoed as it changes the line.                             *)
LEMMA KeyEchoed ==
    ASSUME ShellInv, ScreenShowsLine, NEW c \in Keys, Key(c)
    PROVE  ScreenShowsLine'
  <1> DEFINE text == Prompt \o line
             L == Len(text)
  <1>1. /\ pc = "read" /\ out = <<>> /\ con' = con
        /\ line \in Seq(Printable) /\ Prompt \in Seq(Printable)
    BY ShellAssumption DEF Key, At, ShellInv, LineFits
  <1>2. text \in Seq(Printable) /\ L \in Nat
    BY <1>1, ConcatProperties, LenProperties
  <1>a. L = Len(text)
    OBVIOUS
  <1>3. Shows(con, text)
    <2>1. out # <<BS>>
      BY <1>1
    <2>2. PICK k \in 0 .. L : out = SubSeq(text, k + 1, L) /\ Shows(con, SubSeq(text, 1, k))
      BY <1>1, <2>1 DEF ScreenShowsLine
    <2>3. k = L
      <3>1. ASSUME k < L PROVE FALSE
        <4> HIDE DEF L
        <4>1. k + 1 \in 1 .. L /\ L \in 1 .. L /\ L - (k + 1) + 1 \in Nat \ {0}
          BY <1>2, <3>1
        <4>2. Len(SubSeq(text, k + 1, L)) = L - (k + 1) + 1
          BY <1>2, <1>a, <3>1, <4>1, SubSeqProperties
        <4>3. Len(out) = 0
          BY <1>1, EmptySeq
        <4> QED  BY <2>2, <4>1, <4>2, <4>3
      <3> HIDE DEF L
      <3> QED  BY <1>2, <3>1
    <2>4. SubSeq(text, 1, L) = text
      BY <1>2, SubSeqFull
    <2> QED  BY <2>2, <2>3, <2>4
  <1>4. SubSeq(text, L + 1, L) = <<>>
    BY <1>2, SubSeqEmpty
  <1>5. CASE pc' # "read"
    BY <1>5 DEF ScreenShowsLine
  <1>6. CASE pc' = "read" /\ UNCHANGED <<line, out>>
    <2>1. UNCHANGED text /\ UNCHANGED con /\ pc' = pc
      BY <1>1, <1>6
    <2> QED  BY <1>6, <2>1 DEF ScreenShowsLine
  <1>7. CASE c \in Printable /\ Type(c) /\ pc' = "read"
    <2>1. line' = Append(line, c) /\ out' = <<c>>
      BY <1>7 DEF Type
    <2>2. Prompt \o line' = Append(text, c)
      BY <1>1, <1>7, <2>1, AppendIsConcat, ConcatAssociative, ConcatProperties
    <2>3. Len(Append(text, c)) = L + 1 /\ SubSeq(Append(text, c), 1, L) = text
      BY <1>2, <1>7, AppendProperties, HeadTailAppend
    <2>4. SubSeq(Append(text, c), L + 1, L + 1) = <<c>>
      <3> DEFINE u == Append(text, c)
      <3>1. u \in Seq(Printable) /\ u[L + 1] = c /\ L + 1 \in 1 .. Len(u)
        BY <1>2, <1>7, <2>3, AppendProperties
      <3>2. SubSeq(u, L + 2, L + 1) = <<>>
        BY <1>2, SubSeqEmpty
      <3> HIDE DEF u, L
      <3>3. L + 1 \in L + 1 .. Len(u) /\ (L + 1) + 1 = L + 2
        BY <1>2, <3>1
      <3>4. SubSeq(u, L + 1, L + 1) = <<u[L + 1]>> \o SubSeq(u, L + 2, L + 1)
        BY <3>1, <3>3, SubSeqRecursiveFirst
      <3>5. <<c>> \o <<>> = <<c>>
        BY <1>7, ConcatEmptySeq
      <3>6. SubSeq(u, L + 1, L + 1) = <<c>>
        BY <3>1, <3>2, <3>4, <3>5, Zenon
      <3> QED  BY <3>6 DEF u
    <2>5. L \in 0 .. L + 1
      BY <1>2
    <2> HIDE DEF text, L
    <2> QED  BY <1>1, <1>3, <2>1, <2>2, <2>3, <2>4, <2>5 DEF ScreenShowsLine
  <1>8. CASE Erase /\ line # <<>> /\ pc' = "read"
    <2> DEFINE front == SubSeq(line, 1, Len(line) - 1)
               last == line[Len(line)]
    <2>1. line' = front /\ out' = <<BS>>
      BY <1>8 DEF Erase
    <2>2. /\ front \in Seq(Printable) /\ last \in Printable /\ line = Append(front, last)
      BY <1>1, <1>8, SequenceEmptyOrAppend
    <2> HIDE DEF front, last
    <2>3. Append(Prompt \o front, last) = text
      <3>1. /\ Prompt \o front \in Seq(Printable) /\ <<last>> \in Seq(Printable)
            /\ line = front \o <<last>>
        BY <1>1, <2>2, ConcatProperties, AppendIsConcat
      <3>2. Append(Prompt \o front, last) = (Prompt \o front) \o <<last>>
        BY <2>2, <3>1, AppendIsConcat
      <3> QED  BY <1>1, <2>2, <3>1, <3>2, ConcatAssociative
    <2> HIDE DEF text, front, last
    <2> QED  BY <1>1, <1>3, <2>1, <2>2, <2>3 DEF ScreenShowsLine
  <1> QED  BY <1>5, <1>6, <1>7, <1>8 DEF Key, Enter, Parse, Erase, Type

(* What is on its way to the screen gets there, except at the left margin. *)
LEMMA EmitShows ==
    ASSUME ShellInv, ScreenShowsLine, Emit, ~ (out = <<BS>> /\ con.col = 0)
    PROVE  ScreenShowsLine'
  <1> DEFINE text == Prompt \o line
             L == Len(text)
  <1> SUFFICES ASSUME pc' = "read" PROVE ScreenShowsLine'
    BY DEF ScreenShowsLine
  <1>1. /\ pc = "read" /\ line' = line /\ out # <<>> /\ out' = Tail(out)
        /\ con' = Putchar(shell_window, con, Head(out))
        /\ con \in Consoles /\ shell_window \in BOOLEAN
        /\ line \in Seq(Printable) /\ Prompt \in Seq(Printable)
    BY ShellAssumption, Lengths DEF Emit, ShellInv, LineFits
  <1>2. text \in Seq(Printable) /\ L \in Nat /\ text' = text
    BY <1>1, ConcatProperties, LenProperties
  <1>3. SubSeq(text, L + 1, L) = <<>> /\ SubSeq(text, 1, L) = text
    BY <1>2, SubSeqEmpty, SubSeqFull
  <1>4. ASSUME NEW k \in 0 .. L, out = SubSeq(text, k + 1, L), Shows(con, SubSeq(text, 1, k))
        PROVE  ScreenShowsLine'
    <2>1. k < L
      BY <1>1, <1>2, <1>3, <1>4
    <2>2. /\ Head(out) = text[k + 1] /\ Tail(out) = SubSeq(text, k + 2, L)
          /\ text[k + 1] \in Printable
      <3>1. k + 1 \in 1 .. L /\ (k + 1) + 1 = k + 2 /\ L \in k + 1 .. L
        BY <1>2, <2>1
      <3>2. text[k + 1] \in Printable
        BY <1>2, <3>1, ElementOfSeq
      <3>3. /\ Head(SubSeq(text, k + 1, L)) = text[k + 1]
            /\ Tail(SubSeq(text, k + 1, L)) = SubSeq(text, (k + 1) + 1, L)
        BY <1>2, <3>1, HeadTailOfSubSeq
      <3> QED  BY <1>4, <3>1, <3>2, <3>3
    <2>3. /\ SubSeq(text, 1, k) \in Seq(Printable)
          /\ SubSeq(text, 1, k + 1) = Append(SubSeq(text, 1, k), text[k + 1])
      <3>1. k + 1 \in 1 .. L /\ (k + 1) - 1 = k
        BY <1>2, <2>1
      <3> QED  BY <1>2, <3>1, SubSeqRecursiveSecond, SubSeqProperties
    <2>4. Shows(con', SubSeq(text, 1, k + 1))
      BY <1>1, <1>4, <2>2, <2>3, PrintedShows
    <2>5. k + 1 \in 0 .. L /\ (k + 1) + 1 = k + 2
      BY <1>2, <2>1
    <2> HIDE DEF text, L
    <2> QED  BY <1>1, <1>2, <2>2, <2>4, <2>5 DEF ScreenShowsLine, text, L
  <1>5. ASSUME out = <<BS>>, NEW c \in Printable, Shows(con, Append(text, c))
        PROVE  ScreenShowsLine'
    <2>1. Head(out) = BS /\ Tail(out) = <<>> /\ con.col # 0
      BY <1>5
    <2>2. Shows(con', text)
      BY <1>1, <1>2, <1>5, <2>1, ErasedShows
    <2>3. L \in 0 .. L
      BY <1>2
    <2> HIDE DEF text, L
    <2> QED  BY <1>1, <1>2, <1>3, <2>1, <2>2, <2>3 DEF ScreenShowsLine, text, L
  <1> QED  BY <1>1, <1>4, <1>5 DEF ScreenShowsLine

(* Screen and line agree, from the prompt on, until a character is erased  *)
(* behind which the line had wrapped.                                      *)
THEOREM LineIsOnScreen == Spec => OnlyTheMarginConfuses
  <1>1. ShellInv /\ [Next]_vars
          => (ScreenShowsLine /\ ~ ScreenShowsLine' => out = <<BS>> /\ con.col = 0)
    <2> SUFFICES ASSUME ShellInv, [Next]_vars, ScreenShowsLine, ~ (out = <<BS>> /\ con.col = 0)
                 PROVE  ScreenShowsLine'
      OBVIOUS
    <2>1. CASE Emit
      BY <2>1, EmitShows
    <2>2. CASE \E c \in Keys : Key(c)
      BY <2>2, KeyEchoed
    <2>3. CASE PrintPrompt
      <3>1. line' = <<>> /\ out' = Prompt /\ Prompt \in Seq(Printable)
        BY <2>3, ShellAssumption DEF PrintPrompt
      <3>2. /\ Prompt \o line' = Prompt /\ Len(Prompt) \in Nat
            /\ SubSeq(Prompt, 0 + 1, Len(Prompt)) = Prompt /\ SubSeq(Prompt, 1, 0) = <<>>
        BY <3>1, ConcatEmptySeq, SubSeqFull, SubSeqEmpty, LenProperties
      <3>3. Shows(con', <<>>)
        BY DEF Shows
      <3>4. 0 \in 0 .. Len(Prompt)
        BY <3>2
      <3> QED  BY <3>1, <3>2, <3>3, <3>4 DEF ScreenShowsLine
    <2>4. CASE UNCHANGED vars
      BY <2>4 DEF vars, ScreenShowsLine
    <2>5. CASE BootMessage \/ Start \/ TokenizeChar \/ TokenizeDone \/ Execute
      <3>1. pc' # "read"
        BY <2>5 DEF BootMessage, Start, TokenizeChar, TokenizeDone, Execute, At, NoCommand,
              UnknownCommand, cmd_clear, cmd_reboot, cmd_report, cmd_echo, EchoArg, EchoDone
      <3> QED  BY <3>1 DEF ScreenShowsLine
    <2> QED  BY <2>1, <2>2, <2>3, <2>4, <2>5 DEF Next
  <1> QED  BY <1>1, ShellInvariant, PTL DEF Spec, OnlyTheMarginConfuses
=============================================================================
